----------------------------- MODULE Onboarding -----------------------------
(***************************************************************************)
(* Setting up (web/onboarding.py over the profile store): a person answers *)
(* three corrections, one at a time, which become the verified identity,   *)
(* then saves preferences, which routes every resume; then the page asks   *)
(* the server to start a goal by itself, once for a revision of the        *)
(* preferences.  Requests run in threads, every table access is a          *)
(* transaction of its own, and the server may die between two of them.     *)
(* The goals are those of ApplicationGoals, here only live or not.         *)
(***************************************************************************)
EXTENDS Naturals, Sequences

CONSTANTS
    Threads,      \* threads of the web server
    Values,       \* values a person may answer a correction with
    Resumes,      \* resume artifacts, in the order of their names
    Preferred,    \* the resume whose role makes it the default route
    MaxRevisions, \* bound on the preferences saved
    MaxGoals      \* bound on the goals created

VARIABLES
    sound,        \* whether the resume artifacts can be read
    answers,      \* field -> the answer waiting, "none" when there is none
    identity,     \* the verified identity, each field "none" when there is no row
    revision,     \* revision of the saved preferences, 0 when there are none
    routes,       \* resume -> "none", "plain" or "default"
    goals,        \* created goals [by, of: revision, live]
    started,      \* revision -> the goal recorded as its auto-start, 0 when none
    lock,         \* the thread that holds the auto-start lock, 0 when none
    threads       \* what each thread does

onboardVars == <<sound, answers, identity, revision, routes, goals, started, lock,
                 threads>>
\* The resumes that have a row in routes once they have one.
Routed == {Resumes[i] : i \in DOMAIN Resumes}

\* Of the constants: 0 is no thread, "none" is no value.
OnboardingAssumption ==
    /\ 0 \notin Threads /\ "none" \notin Values
    /\ MaxRevisions \in Nat /\ MaxGoals \in Nat
    /\ Resumes \in Seq(Routed)

tables == <<sound, answers, identity, revision, routes, goals, started>>

Fields == {"name", "country", "phone"}
Empty == [f \in Fields |-> "none"]
Idle == [pc |-> "idle", field |-> "name", value |-> "none", got |-> Empty,
         known |-> {}, default |-> FALSE, at |-> 1, key |-> 0, prior |-> 0]
Go(t, pc) == threads' = [threads EXCEPT ![t].pc = pc]
Done(t) == threads' = [threads EXCEPT ![t] = Idle]
Verified == identity # Empty
Complete(given) == \A f \in Fields : given[f] # "none"
Active == {g \in DOMAIN goals : goals[g].live}
\* The first step still open is the one to correct.
Blocker == IF answers["name"] = "none" THEN "name"
           ELSE IF answers["country"] = "none" THEN "country" ELSE "phone"

\* Mutant: each request locks for itself.
Unlocked(t) == TRUE
\* One auto-start runs at a time.
Free(t) == lock = 0
-----------------------------------------------------------------------------
Receive(t) ==
    /\ threads[t].pc = "idle"
    /\ \E kind \in {"correct", "prefer", "auto", "person"}, f \in Fields, v \in Values :
         /\ kind # "correct" => f = "name" /\ v = CHOOSE w \in Values : TRUE
         /\ threads' = [threads EXCEPT ![t] = [Idle EXCEPT !.pc = kind, !.field = f,
                                                             !.value = v]]
    /\ UNCHANGED <<tables, lock>>

\* A correction is only for somebody not verified yet, whose artifacts are sound.
CorrectionOpen(t) ==
    /\ threads[t].pc = "correct"
    /\ IF sound /\ ~Verified THEN Go(t, "blocker") ELSE Done(t)
    /\ UNCHANGED <<tables, lock>>

\* ... and for the step that is open by then.
CheckBlocker(t) ==
    /\ threads[t].pc = "blocker"
    /\ IF Blocker = threads[t].field THEN Go(t, "save answer") ELSE Done(t)
    /\ UNCHANGED <<tables, lock>>

SaveAnswer(t) ==
    /\ threads[t].pc = "save answer"
    /\ answers' = [answers EXCEPT ![threads[t].field] = threads[t].value]
    /\ Go(t, "collect")
    /\ UNCHANGED <<sound, identity, revision, routes, goals, started, lock>>

\* Read, stored and cleared in three transactions.
CollectAnswers(t) ==
    /\ threads[t].pc = "collect"
    /\ IF Complete(answers)
       THEN threads' = [threads EXCEPT ![t].pc = "verify", ![t].got = answers]
       ELSE Done(t)
    /\ UNCHANGED <<tables, lock>>

SaveIdentity(t) ==
    /\ threads[t].pc = "verify"
    /\ identity' = threads[t].got
    /\ Go(t, "clear")
    /\ UNCHANGED <<sound, answers, revision, routes, goals, started, lock>>

ClearAnswers(t) ==
    /\ threads[t].pc = "clear"
    /\ answers' = Empty
    /\ Done(t)
    /\ UNCHANGED <<sound, identity, revision, routes, goals, started, lock>>
-----------------------------------------------------------------------------
PreferencesOpen(t) ==
    /\ threads[t].pc = "prefer"
    /\ IF sound /\ Verified /\ revision = 0 THEN Go(t, "routes") ELSE Done(t)
    /\ UNCHANGED <<tables, lock>>

ReadRoutes(t) ==
    /\ threads[t].pc = "routes"
    /\ threads' = [threads EXCEPT
         ![t].pc = "route", ![t].known = {r \in DOMAIN routes : routes[r] # "none"},
         ![t].default = \E r \in DOMAIN routes : routes[r] = "default"]
    /\ UNCHANGED <<tables, lock>>

Plain(route) == IF route = "default" THEN "plain" ELSE route
\* A resume that had a route keeps it; an unreadable one refuses the preferences; the
\* preferred one becomes the only default when there was none.
EnsureRoute(t) ==
    LET th == threads[t]
        r == Resumes[th.at]
        default == r = Preferred /\ ~th.default
    IN /\ th.pc = "route" /\ th.at <= Len(Resumes)
       /\ CASE r \in th.known -> threads' = [threads EXCEPT ![t].at = @ + 1]
                                 /\ UNCHANGED routes
            [] r \notin th.known /\ ~sound -> Done(t) /\ UNCHANGED routes
            [] r \notin th.known /\ sound ->
                 /\ threads' = [threads EXCEPT ![t].at = @ + 1, ![t].default = @ \/ default]
                 /\ routes' = IF default
                              THEN [q \in DOMAIN routes |-> IF q = r THEN "default"
                                                            ELSE Plain(routes[q])]
                              ELSE [routes EXCEPT ![r] = "plain"]
       /\ UNCHANGED <<sound, answers, identity, revision, goals, started, lock>>

SavePreferences(t) ==
    /\ threads[t].pc = "route" /\ threads[t].at > Len(Resumes)
    /\ revision < MaxRevisions
    /\ revision' = revision + 1
    /\ Done(t)
    /\ UNCHANGED <<sound, answers, identity, routes, goals, started, lock>>
-----------------------------------------------------------------------------
\* Under the lock: ready, and what this revision started before.
AutoStart(t) ==
    /\ threads[t].pc = "auto" /\ Free(t)
    /\ IF sound /\ Verified /\ revision > 0
       THEN /\ lock' = t
            /\ threads' = [threads EXCEPT ![t].pc = "active", ![t].key = revision,
                                          ![t].prior = started[revision]]
       ELSE Done(t) /\ UNCHANGED lock
    /\ UNCHANGED tables

\* The site session is not connected, a goal is active, or there was one before: not now.
NothingActive(t) ==
    /\ threads[t].pc = "active"
    /\ \E connected \in BOOLEAN :
         IF connected /\ Active = {} /\ threads[t].prior = 0
         THEN Go(t, "create") /\ UNCHANGED lock
         ELSE Done(t) /\ lock' = 0
    /\ UNCHANGED tables

\* A new goal ends every other one that is live.
Create(t, by) ==
    /\ Len(goals) < MaxGoals
    /\ goals' = Append([g \in DOMAIN goals |-> [goals[g] EXCEPT !.live = FALSE]],
                       [by |-> by, of |-> threads[t].key, live |-> TRUE])
    /\ UNCHANGED <<sound, answers, identity, revision, routes, started, lock>>

CreateGoal(t) ==
    /\ threads[t].pc = "create"
    /\ Create(t, "auto")
    /\ threads' = [threads EXCEPT ![t].pc = "mark", ![t].prior = Len(goals) + 1]

PersonStarts(t) ==
    /\ threads[t].pc = "person"
    /\ Create(t, "person")
    /\ Done(t)

\* Only the revision that was read is marked; a stale one is refused ...
MarkOpen(t) ==
    /\ threads[t].pc = "mark"
    /\ IF sound /\ revision = threads[t].key
       THEN Go(t, "record") /\ UNCHANGED lock
       ELSE Done(t) /\ lock' = 0
    /\ UNCHANGED tables

\* ... and the first mark stays.
RecordStarted(t) ==
    /\ threads[t].pc = "record"
    /\ started' = [started EXCEPT ![threads[t].key] = IF @ = 0 THEN threads[t].prior ELSE @]
    /\ lock' = 0
    /\ Done(t)
    /\ UNCHANGED <<sound, answers, identity, revision, routes, goals>>
-----------------------------------------------------------------------------
\* External: the artifacts are rebuilt, a goal ends.
ArtifactsChange ==
    /\ sound' = ~sound
    /\ UNCHANGED <<answers, identity, revision, routes, goals, started, lock, threads>>

GoalEnds ==
    /\ \E g \in Active : goals' = [goals EXCEPT ![g].live = FALSE]
    /\ UNCHANGED <<sound, answers, identity, revision, routes, started, lock, threads>>

\* A restart forgets requests and lock; the tables stay.
Restart ==
    /\ \E t \in Threads : threads[t].pc # "idle"
    /\ threads' = [t \in Threads |-> Idle] /\ lock' = 0
    /\ UNCHANGED tables

\* The identity may have been stored from the command line before.
Init ==
    /\ sound = TRUE /\ answers = Empty /\ revision = 0
    /\ \E v \in Values \cup {"none"} : identity = [f \in Fields |-> v]
    /\ routes = [r \in Routed |-> "none"]
    /\ goals = <<>> /\ started = [n \in 1..MaxRevisions |-> 0]
    /\ lock = 0 /\ threads = [t \in Threads |-> Idle]

Serve(t) ==
    \/ Receive(t) \/ CorrectionOpen(t) \/ CheckBlocker(t) \/ SaveAnswer(t)
    \/ CollectAnswers(t) \/ SaveIdentity(t) \/ ClearAnswers(t)
    \/ PreferencesOpen(t) \/ ReadRoutes(t) \/ EnsureRoute(t) \/ SavePreferences(t)
    \/ AutoStart(t) \/ NothingActive(t) \/ CreateGoal(t) \/ MarkOpen(t)
    \/ RecordStarted(t) \/ PersonStarts(t)

Next ==
    \/ \E t \in Threads : Serve(t)
    \/ ArtifactsChange \/ GoalEnds \/ Restart

Spec == Init /\ [][Next]_onboardVars

-----------------------------------------------------------------------------
\* Type invariant.
TypeOK ==
    /\ sound \in BOOLEAN
    /\ answers \in [Fields -> Values \cup {"none"}]
    /\ identity \in [Fields -> Values \cup {"none"}]
    /\ revision \in 0..MaxRevisions
    /\ routes \in [Routed -> {"none", "plain", "default"}]
    /\ goals \in Seq([by : {"auto", "person"}, of : 0..MaxRevisions, live : BOOLEAN])
    /\ started \in [1..MaxRevisions -> 0..MaxGoals]
    /\ lock \in {0} \cup Threads

\* Once a goal is recorded as the one a revision of the preferences started, that
\* revision starts no other, whatever requests overlap and wherever the server died;
\* and a revision only exists when every resume is routed, with at most one default,
\* for an identity that is whole.
OneGoalPerRevision ==
    /\ \A g, h \in DOMAIN goals :
         g < h /\ goals[g].by = "auto" /\ goals[h].by = "auto" /\ goals[h].of = goals[g].of
         => started[goals[g].of] # g
    /\ revision > 0 => Complete(identity) /\ \A r \in DOMAIN routes : routes[r] # "none"
    /\ \A q, r \in DOMAIN routes : routes[q] = "default" /\ routes[r] = "default" => q = r
=============================================================================
