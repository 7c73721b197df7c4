------------------------------ MODULE JobMarket ------------------------------
(***************************************************************************)
(* The evidence about the job market (job_market/service.py, providers.py, *)
(* store.py, web/job_market_api.py): postings come from an imported        *)
(* dataset, from the snapshot of each provider, or, on a refresh, from the *)
(* providers themselves; when there are none, made-up ones are shown and   *)
(* said to be so.  Requests run in threads and meet in the snapshots.  The *)
(* providers are external: they answer, answer nothing, or fail.           *)
(***************************************************************************)
EXTENDS Naturals, Sequences, FiniteSets

CONSTANTS
    Asks,         \* requests for one and the same query
    Postings,     \* postings there may be: [id, mode]
    Providers,    \* providers, in the order they are asked
    Feeds,        \* provider -> sequences of postings [id, mode] it may answer
    Imports,      \* datasets somebody may import
    Modes         \* work modes asked for, "any" included

VARIABLES
    snapshots,    \* source -> stored postings, <<>> when none is stored
    asks          \* each request

marketVars == <<snapshots, asks>>

From(source, postings) ==
    [i \in DOMAIN postings |->
       [source |-> source, id |-> postings[i].id, mode |-> postings[i].mode]]
Demo == From("synthetic_demo", <<[id |-> "demo:0", mode |-> "remote"],
                                 [id |-> "demo:1", mode |-> "onsite"]>>)
Sources == {"import"} \cup {Providers[i] : i \in DOMAIN Providers}
MarketAssumption ==
    /\ Postings \subseteq [id : {p.id : p \in Postings}, mode : {p.mode : p \in Postings}]
    /\ Providers # <<>> /\ Providers \in Seq(Sources) /\ "synthetic_demo" \notin Sources
    /\ \A i \in DOMAIN Providers : Feeds[Providers[i]] \subseteq Seq(Postings)
    /\ Imports \subseteq Seq(Postings)

NoAsk == [pc |-> "idle", refresh |-> FALSE, mode |-> "any", next |-> 1, cached |-> <<>>,
          postings |-> <<>>, shown |-> {}, kinds |-> {}, warned |-> {}]
Provider(a) == Providers[asks[a].next]
Became(a, ask) == asks' = [asks EXCEPT ![a] = ask]

\* Mutant: an empty answer of a provider is an answer.
AnyAnswer(feed) == TRUE
\* A provider that has nothing for the query counts as unavailable.
Compatible(feed) == feed # <<>>

-----------------------------------------------------------------------------
\* An import needs at least one valid posting.
ImportSnapshot ==
    /\ \E dataset \in Imports : /\ dataset # <<>>
                                /\ snapshots' = [snapshots EXCEPT !["import"] = dataset]
    /\ UNCHANGED asks

\* The imported dataset comes first.
StartAsk(a) ==
    /\ asks[a].pc \in {"idle", "answered"}
    /\ \E refresh \in BOOLEAN, mode \in Modes :
         LET imported == From("import", snapshots["import"]) IN
         Became(a, [NoAsk EXCEPT !.pc = "load", !.refresh = refresh, !.mode = mode,
                      !.postings = imported,
                      !.kinds = IF imported # <<>> THEN {"cached"} ELSE {}])
    /\ UNCHANGED snapshots

LoadSnapshot(a) ==
    /\ asks[a].pc = "load" /\ asks[a].next <= Len(Providers)
    /\ Became(a, [asks[a] EXCEPT !.cached = snapshots[Provider(a)],
                     !.pc = IF asks[a].refresh THEN "fetch" ELSE "fall back"])
    /\ UNCHANGED snapshots

\* The answer is stored and shown.
Fetch(a) ==
    /\ asks[a].pc = "fetch"
    /\ \E feed \in Feeds[Provider(a)] :
         /\ Compatible(feed)
         /\ snapshots' = [snapshots EXCEPT ![Provider(a)] = feed]
         /\ Became(a, [asks[a] EXCEPT !.pc = "load", !.next = @ + 1, !.cached = <<>>,
                          !.postings = @ \o From(Provider(a), feed),
                          !.kinds = @ \cup {"live"}])

\* Not configured, refused, or nothing compatible.
FetchFails(a) ==
    /\ asks[a].pc = "fetch"
    /\ Became(a, [asks[a] EXCEPT !.pc = "fall back", !.warned = @ \cup {Provider(a)}])
    /\ UNCHANGED snapshots

\* What the snapshot was before the provider was asked.
FallBack(a) ==
    /\ asks[a].pc = "fall back"
    /\ LET ask == asks[a]
           on == [ask EXCEPT !.pc = "load", !.next = @ + 1, !.cached = <<>>]
       IN Became(a, IF ask.cached # <<>>
                    THEN [on EXCEPT !.postings = @ \o From(Provider(a), ask.cached),
                                    !.kinds = @ \cup {"cached"}]
                    ELSE [on EXCEPT !.warned = @ \cup {Provider(a)}])
    /\ UNCHANGED snapshots

\* The first posting of each id.
Deduplicate(postings) ==
    {postings[i] : i \in {k \in DOMAIN postings :
                           \A j \in 1..k - 1 : postings[j].id # postings[k].id}}

\* Made-up postings stand in for none; then each id is shown once, and only the mode
\* that was asked for.
Answer(a) ==
    /\ asks[a].pc = "load" /\ asks[a].next > Len(Providers)
    /\ LET ask == asks[a]
           none == ask.postings = <<>>
           all == Deduplicate(IF none THEN Demo ELSE ask.postings)
       IN Became(a, [ask EXCEPT !.pc = "answered",
            !.kinds = IF none THEN @ \cup {"synthetic_demo"} ELSE @,
            !.postings = <<>>,
            !.shown = {p \in all : ask.mode \in {"any", p.mode}}])
    /\ UNCHANGED snapshots

SnapshotKind(a) == IF "live" \in asks[a].kinds THEN "live"
                   ELSE IF "cached" \in asks[a].kinds THEN "cached"
                   ELSE "synthetic_demo"

Init ==
    /\ snapshots = [s \in Sources |-> <<>>]
    /\ asks = [a \in Asks |-> NoAsk]

Next ==
    \/ ImportSnapshot
    \/ \E a \in Asks : \/ StartAsk(a) \/ LoadSnapshot(a) \/ Fetch(a) \/ FetchFails(a)
                       \/ FallBack(a) \/ Answer(a)

-----------------------------------------------------------------------------
\* Type invariant.
TypeOK ==
    /\ DOMAIN snapshots = Sources
    /\ \A a \in Asks : /\ asks[a].pc \in {"idle", "load", "fetch", "fall back", "answered"}
                       /\ asks[a].next \in 1..Len(Providers) + 1
                       /\ asks[a].kinds \subseteq {"live", "cached", "synthetic_demo"}

\* Made-up postings are never said to be live or cached, nor real ones made up, and
\* a refresh that had no warning is live, whatever other requests store meanwhile; no
\* posting is shown twice.
LabelIsHonest ==
    \A a \in Asks : asks[a].pc = "answered" =>
      LET shown == asks[a].shown
          sources == {p.source : p \in shown}
      IN /\ "synthetic_demo" \in sources <=> SnapshotKind(a) = "synthetic_demo" /\ shown # {}
         /\ SnapshotKind(a) # "synthetic_demo" => "synthetic_demo" \notin sources
         /\ Cardinality({p.id : p \in shown}) = Cardinality(shown)
         /\ asks[a].refresh /\ asks[a].warned = {} => SnapshotKind(a) = "live"
=============================================================================
