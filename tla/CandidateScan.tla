--------------------------- MODULE CandidateScan ---------------------------
(***************************************************************************)
(* collect_indeed_candidates.py: which listings a cycle of a goal is given *)
(* to apply for.  A scan of the results the owner has open walks from page *)
(* to page and keeps an inventory of every card; a collection takes seeds, *)
(* then searches one country after the other.  The submission history, the *)
(* goal's ledger and the queue belong to everybody, and other processes    *)
(* submit while a scan looks at pages.                                     *)
(***************************************************************************)
EXTENDS Naturals, Sequences, FiniteSets

CONSTANTS
    Listings,       \* cards of listings
    Sites,          \* what may be open: page numbers to [cards, next, gated]
    Searches,       \* what a collection may find: sequences of card sequences,
                    \* the seeds first and then one for each country
    GoalBands,      \* capacities a goal may leave: functions from bands
    Attempted,      \* task ids the goal has attempted
    AppliedPage,    \* identities the open Applied page shows
    Names,          \* identities somebody else may submit
    MaxCandidates, MaxPages, UnknownLimit  \* 12, 3 and 3 in the code

VARIABLES
    scan,       \* the scan or collection
    sent,       \* identities of recent submissions
    sentLater   \* history: those submitted after this scan had looked

vars == <<scan, sent, sentLater>>

NoPage == 0
CandidateScanAssumption ==
    /\ Sites \subseteq Seq([cards : Seq(Listings), next : Nat, gated : BOOLEAN])
    /\ \A site \in Sites : site # <<>> /\ \A p \in DOMAIN site : site[p].next <= Len(site)
    /\ Searches \subseteq Seq(Seq(Listings))
    /\ \A room \in GoalBands : \A b \in DOMAIN room : b # "unknown" /\ room[b] \in Nat
    /\ MaxCandidates \in Nat /\ MaxPages \in Nat /\ UnknownLimit \in Nat
Idle == [pc |-> "idle", page |-> NoPage, visited |-> {}, cards |-> <<>>,
         finds |-> <<>>, site |-> <<>>, room |-> <<>>, selected |-> <<>>,
         items |-> <<>>, names |-> {}, keys |-> {}, country |-> 0, report |-> "none"]

\* A card is of interest if its title, level, role profile and listing key are;
\* candidate_from_listing tells nothing else of those that are not.
Candidate(card) == ~card.blockedTitle /\ card.level # "senior"
                   /\ card.profile /\ card.key # "none"

Count(band) == Cardinality({i \in DOMAIN scan.selected : scan.selected[i].band = band})
\* A goal without targets leaves every band open; one with targets closes the
\* bands it does not name.  Unknown salaries have a limit of their own.
BandFull(band) ==
    IF band = "unknown" THEN Count(band) >= UnknownLimit
    ELSE /\ DOMAIN scan.room # {}
         /\ Count(band) >= IF band \in DOMAIN scan.room THEN scan.room[band] ELSE 0
Repeated(card) == card.name \in scan.names \/ card.key \in scan.keys

\* Mutant: repetitions are not looked for.
VerdictOnRepeats(card) ==
    CASE ~Candidate(card)        -> "filtered"
      [] card.key \in Attempted  -> "attempted"
      [] card.name \in sent      -> "already_applied"
      [] BandFull(card.band)     -> "band_full"
      [] OTHER                   -> "eligible"

Verdict(card) ==
    CASE ~Candidate(card)        -> "filtered"
      [] card.key \in Attempted  -> "attempted"
      [] Repeated(card)          -> "duplicate"
      [] card.name \in sent      -> "already_applied"
      [] BandFull(card.band)     -> "band_full"
      [] OTHER                   -> "eligible"

-----------------------------------------------------------------------------
\* The scan of the open results

\* The goal's room is read once.  The Applied page, if it is open, is read into
\* the history first; what fails there only leaves a warning.
StartScan ==
    /\ scan.pc = "idle"
    /\ \E site \in Sites, room \in GoalBands, applied \in {{}, AppliedPage} :
         /\ scan' = [Idle EXCEPT !.pc = "page", !.page = 1, !.site = site,
                                 !.room = room]
         /\ sent' = sent \cup applied
    /\ UNCHANGED sentLater

\* Not exactly one results tab is visible.
SourceMissing ==
    /\ scan.pc = "idle"
    /\ scan' = [Idle EXCEPT !.pc = "done", !.report = "source_missing"]
    /\ UNCHANGED <<sent, sentLater>>

\* A page is opened: behind an access gate the scan ends as it stands.
ScanPage ==
    /\ scan.pc = "page"
    /\ LET site == scan.site
           more == /\ scan.page \notin scan.visited \cup {NoPage}
                   /\ Cardinality(scan.visited) < MaxPages
                   /\ Len(scan.selected) < MaxCandidates
       IN scan' = IF ~more
                  THEN [scan EXCEPT !.pc = "done",
                          !.report = IF scan.selected = <<>> THEN "exhausted"
                                     ELSE "ready"]
                  ELSE IF site[scan.page].gated
                  THEN [scan EXCEPT !.pc = "done", !.report = "human_required"]
                  ELSE [scan EXCEPT !.pc = "cards", !.visited = @ \cup {scan.page},
                                    !.cards = site[scan.page].cards,
                                    !.page = site[scan.page].next]
    /\ UNCHANGED <<sent, sentLater>>

\* One card of the page.  Every candidate is remembered, not the eligible only.
ScanCard ==
    /\ scan.pc = "cards"
    /\ IF scan.cards = <<>> \/ Len(scan.selected) >= MaxCandidates
       THEN scan' = [scan EXCEPT !.pc = "page", !.cards = <<>>]
       ELSE LET card == Head(scan.cards)
                verdict == Verdict(card)
            IN scan' = [scan EXCEPT
                 !.cards = Tail(@),
                 !.items = Append(@, [card |-> card, verdict |-> verdict]),
                 !.names = IF Candidate(card) THEN @ \cup {card.name} ELSE @,
                 !.keys = IF Candidate(card) THEN @ \cup {card.key} ELSE @,
                 !.selected = IF verdict = "eligible" THEN Append(@, card) ELSE @]
    /\ UNCHANGED <<sent, sentLater>>

-----------------------------------------------------------------------------
\* The collection

StartCollect ==
    /\ scan.pc = "idle"
    /\ \E finds \in Searches, room \in GoalBands :
         scan' = [Idle EXCEPT !.pc = "collect", !.finds = finds, !.room = room]
    /\ UNCHANGED <<sent, sentLater>>

\* The share of a country, rounded up; seeds have none.
CountryLimit == (MaxCandidates + Len(scan.finds) - 2) \div (Len(scan.finds) - 1)

\* add_candidate, of the next card of the seeds or of the country; visited
\* holds the sources that are done.  Only what is taken is remembered.
Collect ==
    LET at == Cardinality(scan.visited) + 1
        done == IF scan.selected = <<>> THEN "error" ELSE "ready"
    IN /\ scan.pc = "collect"
       /\ scan' =
            IF Len(scan.selected) >= MaxCandidates \/ at > Len(scan.finds)
            THEN [scan EXCEPT !.pc = "done", !.report = done]
            ELSE IF scan.finds[at] = <<>> \/ (at > 1 /\ scan.country >= CountryLimit)
            THEN [scan EXCEPT !.visited = @ \cup {at}, !.country = 0]
            ELSE LET card == Head(scan.finds[at])
                     rest == [scan EXCEPT !.finds[at] = Tail(@)]
                 IN IF Verdict(card) # "eligible" THEN rest
                    ELSE [rest EXCEPT !.selected = Append(@, card),
                                      !.names = @ \cup {card.name},
                                      !.keys = @ \cup {card.key},
                                      !.country = @ + 1]
       /\ UNCHANGED <<sent, sentLater>>

\* The access gate of a search or of an open listing raises.
CollectFails ==
    /\ scan.pc = "collect"
    /\ scan' = [scan EXCEPT !.pc = "done", !.report = "error", !.selected = <<>>]
    /\ UNCHANGED <<sent, sentLater>>

-----------------------------------------------------------------------------
\* Another process, or the owner, submits an application meanwhile.
SubmittedElsewhere ==
    /\ scan.pc \in {"page", "cards", "collect"}
    /\ \E n \in Names \ sent :
         /\ sent' = sent \cup {n}
         /\ sentLater' = IF \E i \in DOMAIN scan.selected : scan.selected[i].name = n
                         THEN sentLater \cup {n} ELSE sentLater
    /\ UNCHANGED scan

ScanStep == StartScan \/ SourceMissing \/ ScanPage \/ ScanCard
            \/ StartCollect \/ Collect \/ CollectFails
Init == scan = Idle /\ sent = {} /\ sentLater = {}
Next == ScanStep \/ SubmittedElsewhere
Spec == Init /\ [][Next]_vars

-----------------------------------------------------------------------------
TypeOK ==
    /\ scan.pc \in {"idle", "page", "cards", "collect", "done"}
    /\ scan.report \in {"none", "ready", "exhausted", "source_missing",
                        "human_required", "error"}
    /\ sent \subseteq Names \cup AppliedPage /\ sentLater \subseteq sent

\* What a cycle is given: nothing twice, nothing the goal has attempted, no
\* application that had been submitted when its card was looked at (whoever
\* submitted it), and no more of a band than the goal had room for.
SelectionIsSafe ==
    /\ Len(scan.selected) <= MaxCandidates
    /\ \A i, j \in DOMAIN scan.selected :
         i # j => /\ scan.selected[i].name # scan.selected[j].name
                  /\ scan.selected[i].key # scan.selected[j].key
    /\ \A i \in DOMAIN scan.selected :
         /\ scan.selected[i].key \notin Attempted
         /\ scan.selected[i].name \in sent => scan.selected[i].name \in sentLater
         /\ scan.selected[i].band = "unknown" => Count("unknown") <= UnknownLimit
    /\ \A b \in DOMAIN scan.room : Count(b) <= scan.room[b]
=============================================================================
