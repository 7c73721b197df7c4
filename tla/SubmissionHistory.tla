------------------------- MODULE SubmissionHistory -------------------------
(***************************************************************************)
(* The SQLite history of submissions (submission_history.py and the        *)
(* watcher's SubmissionStore): which roles have been applied to, and which *)
(* attempts have no known outcome.  It is what keeps the agent from        *)
(* clicking "submit" twice for one role within the duplicate window.       *)
(*                                                                         *)
(* The module defines the tables and the transactions as action fragments; *)
(* FinalSubmit says which process runs which of them when.  One company is *)
(* modelled (rows of different companies never match each other).  A title *)
(* is a normalised title key, a job is Indeed's provider job id.  Time     *)
(* counts days.                                                            *)
(***************************************************************************)
EXTENDS Integers, FiniteSets

CONSTANTS
    MaxApps,        \* bound: rows of applications
    MaxPostings,    \* bound: rows of job_postings
    Titles,         \* normalised title keys
    Jobs,           \* provider job ids
    NoJob,          \* no provider job id in the URL
    NoTitle,        \* title of a posting row that is not in use
    Variants,       \* {short, long}: long is short expanded by " | ..."
    Window          \* within_days

ASSUME HistoryAssumption ==
    /\ MaxApps \in Nat /\ MaxPostings \in Nat
    /\ NoJob \notin Jobs /\ NoTitle \notin Titles
    /\ Window \in Nat \ {0}

Apps == 1..MaxApps
Postings == 1..MaxPostings
Identities == [title : Titles, job : Jobs \cup {NoJob}]

Unresolved == {"submitting", "submission_unknown"}
AppState == Unresolved \cup {"submitted", "failed"}

VARIABLES
    now,        \* the clock
    app,        \* app[a]: application row a
    posting     \* posting[p]: job_postings row p

historyVars == <<app, posting>>

\* applied and sourced are the nullable columns applied_at (no time or one)
\* and confirmation_source (empty or not).
NoApp == [state |-> "absent", title |-> NoTitle, posting |-> 0,
          applied |-> {}, updated |-> 0, sourced |-> FALSE]
NoPosting == [title |-> NoTitle, job |-> NoJob]

HistoryInit ==
    /\ app = [a \in Apps |-> NoApp]
    /\ posting = [p \in Postings |-> NoPosting]

Used(a) == app[a].state # "absent"
NextApp(a) == ~Used(a) /\ \A b \in 1..(a - 1) : Used(b)

-----------------------------------------------------------------------------
\* _ensure_job_posting: by provider job id, else by title, else a new row.

OfJob(job) == {p \in Postings : job # NoJob /\ posting[p].job = job}
OfTitle(title) == {p \in Postings : posting[p].title = title}
FirstOf(p, S) == p \in S /\ \A q \in S : p <= q

IsPostingOf(p, id) ==
    IF OfJob(id.job) # {} THEN p \in OfJob(id.job)
    ELSE IF OfTitle(id.title) # {} THEN FirstOf(p, OfTitle(id.title))
    ELSE FirstOf(p, OfTitle(NoTitle))

\* The posting takes the title just seen, and the job id if it had none.
PostingSeen(p, id) ==
    [posting EXCEPT ![p] =
        [title |-> id.title, job |-> IF @.job = NoJob THEN id.job ELSE @.job]]

-----------------------------------------------------------------------------
\* reserve_submission at time "at" for the role id, whose posting is p.

\* Faulty variant of Matching: the title keys are not compared.
MatchesPostingOnly(p, id) == {a \in Apps : Used(a) /\ app[a].posting = p}

Matching(p, id) ==
    {a \in Apps : Used(a) /\ (app[a].posting = p \/ app[a].title = id.title)}

RecentSubmitted(p, id, at) ==
    {a \in Matching(p, id) :
        /\ app[a].state = "submitted"
        /\ \E t \in app[a].applied : t >= at - Window}

\* Faulty variant of RecentUnresolved: submission_unknown does not block.
RecentSubmitting(p, id, at) ==
    {a \in Matching(p, id) :
        /\ app[a].state = "submitting"
        /\ app[a].updated >= at - Window}

RecentUnresolved(p, id, at) ==
    {a \in Matching(p, id) :
        /\ app[a].state \in Unresolved
        /\ app[a].updated >= at - Window}

LastApplied(a, S) ==
    /\ a \in S
    /\ \A b \in S : \E t \in app[a].applied : \A u \in app[b].applied : u <= t
LastUpdated(a, S) == a \in S /\ \A b \in S : app[b].updated <= app[a].updated

MayReserve(p, id, at) ==
    /\ RecentSubmitted(p, id, at) = {}
    /\ RecentUnresolved(p, id, at) = {}

Insert(a, p, id, at) ==
    /\ NextApp(a)
    /\ app' = [app EXCEPT ![a] =
                 [NoApp EXCEPT !.state = "submitting", !.title = id.title,
                               !.posting = p, !.updated = at]]

\* RECENT_DUPLICATE names the last submission, UNRESOLVED_ATTEMPT the last
\* attempt without an outcome.
RefusedFor(a, p, id, at) ==
    IF RecentSubmitted(p, id, at) # {}
    THEN LastApplied(a, RecentSubmitted(p, id, at))
    ELSE LastUpdated(a, RecentUnresolved(p, id, at))

-----------------------------------------------------------------------------
\* _mark: state and confirmation source are overwritten whatever they were,
\* applied_at = COALESCE(new, old).

Mark(a, state, applied, sourced) ==
    /\ Used(a)
    /\ app' = [app EXCEPT ![a] =
                 [@ EXCEPT !.state = state,
                           !.applied = IF applied = {} THEN app[a].applied
                                        ELSE applied,
                           !.updated = now,
                           !.sourced = sourced]]

\* Faulty variants: the provider's word for the state is stored, and an
\* unknown outcome is stored as a failure.
MarkConfirmed(a, at) == Mark(a, "confirmed", {at}, TRUE)
MarkUnknownFailed(a) == Mark(a, "failed", {}, FALSE)

MarkSubmitted(a, at) == Mark(a, "submitted", {at}, TRUE)
MarkSubmissionUnknown(a) == Mark(a, "submission_unknown", {}, FALSE)
MarkFailed(a) == Mark(a, "failed", {}, FALSE)

-----------------------------------------------------------------------------
\* _reconcile_title_variant: a submitted row of the same provider job, else
\* the only row submitted on that day under a variant of the title, is renamed.

OfSameJob(id) ==
    {a \in Apps : /\ app[a].state = "submitted"
                  /\ app[a].posting \in OfJob(id.job)}

SameDayVariants(id, at) ==
    {a \in Apps : /\ app[a].state = "submitted"
                  /\ app[a].applied = {at}
                  /\ {app[a].title, id.title} \in Variants}

Renames(a, id, at) ==
    IF OfSameJob(id) # {} THEN a \in OfSameJob(id)
    ELSE SameDayVariants(id, at) = {a}

NothingToRename(id, at) ==
    /\ OfSameJob(id) = {}
    /\ Cardinality(SameDayVariants(id, at)) # 1

\* _update_application_identity: the posting is looked up under the old title,
\* then posting and row take the new one.
Rename(a, id) ==
    \E p \in Postings :
        /\ IsPostingOf(p, [title |-> app[a].title, job |-> id.job])
        /\ posting' = PostingSeen(p, id)
        /\ app' = [app EXCEPT ![a] =
                     [@ EXCEPT !.title = id.title, !.posting = p]]

-----------------------------------------------------------------------------
\* recordConfirmed of the event watcher: one transaction, and no age limit on
\* the unresolved row it resolves.

WatcherUnresolved(p, id) ==
    {a \in Matching(p, id) : app[a].state \in Unresolved}

RecordConfirmed(a, p, id) ==
    /\ IsPostingOf(p, id)
    /\ posting' = PostingSeen(p, id)
    /\ IF RecentSubmitted(p, id, now) # {}
       THEN /\ LastApplied(a, RecentSubmitted(p, id, now))
            /\ UNCHANGED app
       ELSE IF WatcherUnresolved(p, id) # {}
       THEN /\ LastUpdated(a, WatcherUnresolved(p, id))
            /\ app' = [app EXCEPT ![a] =
                         [@ EXCEPT !.state = "submitted", !.applied = {now},
                                   !.updated = now, !.sourced = TRUE,
                                   !.posting = p]]
       ELSE /\ NextApp(a)
            /\ app' = [app EXCEPT ![a] =
                         [state |-> "submitted", title |-> id.title,
                          posting |-> p, applied |-> {now}, updated |-> now,
                          sourced |-> TRUE]]
=============================================================================
