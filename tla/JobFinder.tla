----------------------------- MODULE JobFinder ------------------------------
(***************************************************************************)
(* The control center (job_finder_supervisor.py and the handlers of        *)
(* app.py) beside the runner processes it starts and stops.  Handlers run  *)
(* in the threads of one server process; a handler is a sequence of steps, *)
(* each a critical section of _LOCK, a ledger transaction, a file access   *)
(* or a signal, and threads and runners interleave between them.           *)
(*                                                                         *)
(* The process table survives in two places: tracked, the server's         *)
(* _PROCESSES, lost when the server restarts, and metadata, the runner's   *)
(* own process.json.                                                       *)
(***************************************************************************)
EXTENDS GoalRunner, Sequences

CONSTANTS
    Threads,        \* handler threads of the control center
    RoleOf,         \* RoleOf[t]: the application reference of a task
    Requests,       \* the kinds of request the user makes
    MayRestart      \* may the control center restart?

VARIABLES
    tracked,        \* tracked[g]: _PROCESSES
    thread          \* thread[h]: the request a thread is serving

vars == <<goal, item, proc, metadata, seen, tracked, thread>>
files == <<metadata, seen>>

Roles == {RoleOf[t] : t \in Tasks}
RequestKinds == {"start", "resume", "cancel", "confirm", "release",
                 "approve", "retry", "clear"}

ASSUME RequestsAssumption == Requests \subseteq RequestKinds /\ MayRestart \in BOOLEAN

\* todo: the steps left; found: did process_status answer "running"?
\* rest: matched items still to be skipped; role: the cleared reference.
Idle == [kind |-> "none", todo |-> <<>>, goal |-> 0, task |-> NoTask,
         role |-> "none", found |-> FALSE, pid |-> None, owned |-> None,
         rest |-> {}]

Init ==
    /\ RunnerInit
    /\ tracked = [g \in Goals |-> None]
    /\ thread = [h \in Threads |-> Idle]

-----------------------------------------------------------------------------
\* Faulty variants: the forms some definitions below would take after a
\* plausible mistake.  The properties are tested against them.

Announced(p) == p # None /\ Alive(p) /\ \E g \in Goals : metadata[g] = p
OnlyUnowned(pid, owned) == Alive(pid) /\ owned = None

-----------------------------------------------------------------------------
\* Handlers as sequences of steps

Launch == <<"check", "spawn">>
Wake == <<"look", "file", "wake">>
Stop == <<"look", "file", "own", "term", "kill", "forget">>

Program(kind) ==
    CASE kind = "start" -> <<"previous">>
      [] kind = "resume" -> Launch
      [] kind = "cancel" ->
           <<"look", "file", "own", "term", "kill", "forget", "cancelled">>
      [] kind = "confirm" -> <<"confirm">>
      [] kind = "release" -> <<"release">>
      [] kind = "approve" -> <<"approve", "activate", "look", "file", "wake">>
      [] kind = "retry" -> <<"inspect", "queue", "activate", "look", "file", "wake">>
      [] kind = "clear" -> <<"match">>

At(h, step) == thread[h].todo # <<>> /\ Head(thread[h].todo) = step
Rest(h) == Tail(thread[h].todo)

\* The thread goes on as row, or is idle when nothing is left to do.
Become(h, row) ==
    thread' = [thread EXCEPT ![h] = IF row.todo = <<>> THEN Idle ELSE row]
Continue(h, todo) == Become(h, [thread[h] EXCEPT !.todo = todo])
Proceed(h) == Continue(h, Rest(h))
Finish(h) == Continue(h, <<>>)

Request(h, kind, g, t, role) ==
    /\ thread[h] = Idle
    /\ kind \in Requests
    /\ Become(h, [Idle EXCEPT !.kind = kind, !.todo = Program(kind),
                              !.goal = g, !.task = t, !.role = role])
    /\ UNCHANGED <<ledgerVars, proc, files, tracked>>

GoalRequest(h) ==
    \E kind \in {"resume", "cancel"}, g \in Goals :
        Ledger!Exists(g) /\ Request(h, kind, g, NoTask, "none")
ItemRequest(h) ==
    \E kind \in {"confirm", "release", "approve", "retry"},
       g \in Goals, t \in Tasks :
        Ledger!Known(g, t) /\ Request(h, kind, g, t, "none")
StartRequest(h) == Request(h, "start", 0, NoTask, "none")
ClearRequest(h) == \E role \in Roles : Request(h, "clear", 0, NoTask, role)

-----------------------------------------------------------------------------
\* launch_goal

CheckLaunch(h) ==
    /\ At(h, "check")
    /\ IF goal[thread[h].goal].status \in {"target_reached", "cancelled"}
       THEN Finish(h)
       ELSE Proceed(h)
    /\ UNCHANGED <<ledgerVars, proc, files, tracked>>

\* A slot no table and no thread still names.
Free(p, g) ==
    /\ ~Alive(p)
    /\ \A x \in Goals \ {g} : tracked[x] # p
    /\ \A h \in Threads : p \notin {thread[h].pid, thread[h].owned}

Running(p) == p # None /\ Alive(p)

Spawn(h) ==
    LET g == thread[h].goal
    IN /\ At(h, "spawn")
       /\ Proceed(h)
       /\ \/ /\ Running(tracked[g])
             /\ UNCHANGED <<proc, metadata, tracked>>
          \/ /\ ~Running(tracked[g])
             /\ \E p \in Procs :
                  /\ Free(p, g)
                  /\ proc' = [proc EXCEPT ![p] =
                                [Dead EXCEPT !.pc = "boot", !.goal = g]]
                  /\ tracked' = [tracked EXCEPT ![g] = p]
                  /\ metadata' = [x \in Goals |->
                       IF metadata[x] = p THEN None ELSE metadata[x]]
       /\ UNCHANGED <<ledgerVars, seen>>

-----------------------------------------------------------------------------
\* process_status: the tracked process, else the one process.json names.

LookAtTable(h) ==
    LET g == thread[h].goal
        p == tracked[g]
    IN /\ At(h, "look")
       /\ IF p = None
          THEN Proceed(h) /\ UNCHANGED tracked
          ELSE /\ Become(h, [thread[h] EXCEPT !.todo = Tail(Rest(h)),
                               !.found = Alive(p), !.pid = p])
               /\ tracked' = IF Alive(p) THEN tracked
                             ELSE [tracked EXCEPT ![g] = None]
       /\ UNCHANGED <<ledgerVars, proc, files>>

LookAtFile(h) ==
    LET p == metadata[thread[h].goal]
    IN /\ At(h, "file")
       /\ Become(h, [thread[h] EXCEPT !.todo = Rest(h),
                       !.found = Running(p),
                       !.pid = IF Running(p) THEN p ELSE None])
       /\ UNCHANGED <<ledgerVars, proc, files, tracked>>

\* if not process_status(goal_id)["running"]: launch_goal(goal_id)
WakeRunner(h) ==
    /\ At(h, "wake")
    /\ Become(h, [thread[h] EXCEPT !.found = FALSE, !.pid = None,
                    !.todo = IF thread[h].found THEN <<>> ELSE Launch])
    /\ UNCHANGED <<ledgerVars, proc, files, tracked>>

-----------------------------------------------------------------------------
\* stop_goal

\* owned_process; nothing to signal when nothing was running.
OwnProcess(h) ==
    /\ At(h, "own")
    /\ IF thread[h].found
       THEN Become(h, [thread[h] EXCEPT !.todo = Rest(h),
                         !.owned = tracked[thread[h].goal]])
       ELSE Continue(h, Tail(Tail(Rest(h))))
    /\ UNCHANGED <<ledgerVars, proc, files, tracked>>

Terminate(h) ==
    LET p == thread[h].pid
    IN /\ At(h, "term")
       /\ \E row \in AfterSigterm(proc[p]) : proc' = [proc EXCEPT ![p] = row]
       /\ Proceed(h)
       /\ UNCHANGED <<ledgerVars, files, tracked>>

\* _pid_is_running is false for a live pid when the owned process has ended.
SeenRunning(pid, owned) == Alive(pid) /\ (owned # None => Alive(owned))

\* The wait may end at any time; what is still seen running gets SIGKILL.
Kill(h) ==
    LET p == thread[h].pid
    IN /\ At(h, "kill")
       /\ proc' = IF SeenRunning(p, thread[h].owned)
                  THEN [proc EXCEPT ![p] = Dead] ELSE proc
       /\ Proceed(h)
       /\ UNCHANGED <<ledgerVars, files, tracked>>

Forget(h) ==
    /\ At(h, "forget")
    /\ tracked' = [tracked EXCEPT ![thread[h].goal] = None]
    /\ Become(h, [thread[h] EXCEPT !.todo = Rest(h), !.found = FALSE,
                                   !.pid = None, !.owned = None])
    /\ UNCHANGED <<ledgerVars, proc, files>>

\* Faulty variant of Cancelled: a cancelled goal gives its reserved tokens back.
CancelledFreesTokens(h) ==
    /\ At(h, "cancelled")
    /\ goal' = [goal EXCEPT ![thread[h].goal].status = "cancelled",
                            ![thread[h].goal].reserved = 0]
    /\ Proceed(h)
    /\ UNCHANGED <<item, proc, files, tracked>>

Cancelled(h) ==
    /\ At(h, "cancelled")
    /\ Ledger!SetStatus(thread[h].goal, "cancelled")
    /\ Proceed(h)
    /\ UNCHANGED <<proc, files, tracked>>

-----------------------------------------------------------------------------
\* start_goal

Previous(h) ==
    /\ At(h, "previous")
    /\ \/ \E g \in Goals :
            /\ Ledger!IsActiveGoal(g)
            /\ Become(h, [thread[h] EXCEPT !.goal = g,
                            !.todo = <<"look", "file", "own", "term", "kill",
                                       "forget", "cancelled", "create">>])
       \/ /\ ~\E g \in Goals : Ledger!IsActiveGoal(g)
          /\ Continue(h, <<"create">>)
    /\ UNCHANGED <<ledgerVars, proc, files, tracked>>

\* When MaxGoals have been created the request ends here.
CreateGoal(h) ==
    /\ At(h, "create")
    /\ \/ \E g \in Goals, plan \in Plans :
            /\ Ledger!Create(g, plan)
            /\ Become(h, [thread[h] EXCEPT !.goal = g, !.todo = Launch])
       \/ /\ \A g \in Goals : Ledger!Exists(g)
          /\ Finish(h)
          /\ UNCHANGED ledgerVars
    /\ UNCHANGED <<proc, files, tracked>>

-----------------------------------------------------------------------------
\* confirm_item, release_item, approve_item_review, retry_item

\* What the handler does with the goal row the ledger returned.
AfterToken(h, row) ==
    Continue(h,
        IF At(h, "confirm") /\ row.status = "target_reached" THEN Stop
        ELSE IF row.confirmed + row.reserved < row.target THEN Wake
        ELSE <<>>)

ConfirmItem(h) ==
    LET g == thread[h].goal
        t == thread[h].task
        confirmed == item[g][t].state = "confirmed"
    IN /\ At(h, "confirm")
       /\ \/ Ledger!Confirm(g, t) /\ AfterToken(h, goal'[g])
          \/ confirmed /\ UNCHANGED ledgerVars /\ AfterToken(h, goal'[g])
          \/ /\ ~confirmed /\ ~Ledger!CanConfirm(g, t)
             /\ Finish(h) /\ UNCHANGED ledgerVars
       /\ UNCHANGED <<proc, files, tracked>>

ReleaseItem(h) ==
    LET g == thread[h].goal
        t == thread[h].task
    IN /\ At(h, "release")
       /\ \/ Ledger!Release(g, t, "released")
          \/ ~Ledger!Releasable(g, t) /\ UNCHANGED ledgerVars
       /\ AfterToken(h, goal'[g])
       /\ UNCHANGED <<proc, files, tracked>>

ApproveReview(h) ==
    LET g == thread[h].goal
        t == thread[h].task
    IN /\ At(h, "approve")
       /\ \/ Ledger!ApproveHumanReview(g, t) /\ Proceed(h)
          \/ /\ item[g][t].state # "human_handoff" \/ ~item[g][t].reviewable
             /\ Finish(h) /\ UNCHANGED ledgerVars
       /\ UNCHANGED <<proc, files, tracked>>

Inspect(h) ==
    /\ At(h, "inspect")
    /\ IF item[thread[h].goal][thread[h].task].state = "human_handoff"
       THEN Proceed(h) ELSE Finish(h)
    /\ UNCHANGED <<ledgerVars, proc, files, tracked>>

\* observe with its default band.
Queue(h) ==
    /\ At(h, "queue")
    /\ Ledger!Observe(thread[h].goal, thread[h].task, "observed",
                      Ledger!Legacy, FALSE)
    /\ Proceed(h)
    /\ UNCHANGED <<proc, files, tracked>>

ReviveGoal(h) ==
    /\ At(h, "activate")
    /\ Ledger!SetStatus(thread[h].goal, "active")
    /\ Proceed(h)
    /\ UNCHANGED <<proc, files, tracked>>

-----------------------------------------------------------------------------
\* A cleared gate: retry_resolved_intervention, then the newest open goal's
\* runner is woken.

Matches(g, role) ==
    {t \in Tasks : RoleOf[t] = role /\ item[g][t].state = "human_handoff"}

Match(h) ==
    /\ At(h, "match")
    /\ \/ \E g \in Goals, t \in Tasks :
            LET matches == Matches(g, thread[h].role)
            IN /\ Ledger!IsActiveGoal(g)
               /\ t \in matches
               /\ Become(h, [thread[h] EXCEPT !.goal = g, !.task = t,
                               !.rest = matches \ {t},
                               !.todo = <<"queue", "skip", "newest",
                                          "look", "file", "wake">>])
       \/ /\ \A g \in Goals :
               Ledger!IsActiveGoal(g) => Matches(g, thread[h].role) = {}
          /\ Continue(h, <<"newest", "look", "file", "wake">>)
    /\ UNCHANGED <<ledgerVars, proc, files, tracked>>

SkipDuplicates(h) ==
    /\ At(h, "skip")
    /\ \/ \E t \in thread[h].rest :
            /\ Ledger!Observe(thread[h].goal, t, "skipped",
                              Ledger!Legacy, FALSE)
            /\ Become(h, [thread[h] EXCEPT !.rest = @ \ {t}])
       \/ thread[h].rest = {} /\ Proceed(h) /\ UNCHANGED ledgerVars
    /\ UNCHANGED <<proc, files, tracked>>

Newest(h) ==
    /\ At(h, "newest")
    /\ \/ \E g \in Goals :
            /\ Ledger!IsActiveGoal(g)
            /\ Become(h, [thread[h] EXCEPT !.goal = g, !.todo = Rest(h)])
       \/ /\ ~\E g \in Goals : Ledger!IsActiveGoal(g)
          /\ Finish(h)
    /\ UNCHANGED <<ledgerVars, proc, files, tracked>>

-----------------------------------------------------------------------------
\* The server process ends: its threads and its table are lost, the runners,
\* each in a session of its own, live on.
Restart ==
    /\ MayRestart
    /\ tracked' = [g \in Goals |-> None]
    /\ thread' = [h \in Threads |-> Idle]
    /\ UNCHANGED <<ledgerVars, proc, files>>

HandlerStep(h) ==
    \/ CheckLaunch(h) \/ Spawn(h)
    \/ LookAtTable(h) \/ LookAtFile(h) \/ WakeRunner(h)
    \/ OwnProcess(h) \/ Terminate(h) \/ Kill(h) \/ Forget(h) \/ Cancelled(h)
    \/ Previous(h) \/ CreateGoal(h)
    \/ ConfirmItem(h) \/ ReleaseItem(h) \/ ApproveReview(h)
    \/ Inspect(h) \/ Queue(h) \/ ReviveGoal(h)
    \/ Match(h) \/ SkipDuplicates(h) \/ Newest(h)

UserRequest(h) ==
    GoalRequest(h) \/ ItemRequest(h) \/ StartRequest(h) \/ ClearRequest(h)

Next ==
    \/ \E p \in Procs : RunnerStep(p) /\ UNCHANGED <<tracked, thread>>
    \/ \E h \in Threads : HandlerStep(h) \/ UserRequest(h)
    \/ Restart

Spec == Init /\ [][Next]_vars

\* Processes and threads that can go on do so: the operating system schedules
\* them, every worker and subprocess of a cycle ends, and a handler waits for
\* nothing but the _LOCK.  Users owe no request.
FairSpec ==
    /\ Spec
    /\ \A p \in Procs : WF_vars(RunnerStep(p) /\ UNCHANGED <<tracked, thread>>)
    /\ \A h \in Threads : WF_vars(HandlerStep(h))

-----------------------------------------------------------------------------
\* Properties

RunnerRow ==
    [pc : {"dead", "boot", "activate", "announce", "check", "collect",
           "reread", "judge", "write", "leave"} \cup ChildPc,
     goal : Goals \cup {0}, known : SUBSET Tasks, cycle : SUBSET Tasks,
     jobs : SUBSET Tasks, active : SUBSET Tasks, left : Nat,
     task : Tasks \cup {NoTask}, outcome : Outcomes \cup {"none"},
     handoff : BOOLEAN,
     want : {"none", "waiting_for_human", "waiting_for_candidates"}]
\* Type invariant: what a runner holds in memory, process.json, the process table and
\* the items a goal's runner has seen.
TypeOK ==
    /\ proc \in [Procs -> RunnerRow]
    /\ metadata \in [Goals -> Procs \cup {None}]
    /\ tracked \in [Goals -> Procs \cup {None}]
    /\ seen \in [Goals -> SUBSET Tasks]

RunnersOf(g) == {p \in Procs : Alive(p) /\ proc[p].goal = g}

\* No goal has two runners, whatever requests race to launch one.
OneRunner == \A g \in Goals : Cardinality(RunnersOf(g)) <= 1

\* A goal is cancelled only when its runner is gone, although that runner ignores
\* SIGTERM, and a cancelled goal gets no new one.  The exception is the creation of a
\* newer goal: it cancels every open goal, but only the newest one was stopped.
Superseding == \E n \in Goals : ~Ledger!Exists(n) /\ Ledger!Exists(n)'
CancelledIsQuiet ==
    [][\A g \in Goals :
         goal'[g].status = "cancelled" =>
           \/ Superseding
           \/ goal[g].status # "cancelled" /\ RunnersOf(g)' = {}
           \/ goal[g].status = "cancelled" /\ RunnersOf(g)' \subseteq RunnersOf(g)]_vars

\* Two actors never combine into a change of the ledger that none of its operations
\* makes: every step of a handler or a runner, between whichever steps of the others,
\* is one transaction of goal_store.py or leaves both tables alone.
LedgerContract == Ledger!Spec

\* Every runner ends, whatever happens to its goal meanwhile: a cycle neither
\* waits for a token nor for a human.
RunnersEnd == \A p \in Procs : Alive(p) ~> ~Alive(p)

\* "Reaching the target stops that process tree" (README.md:113-114).
ReachedStopsRunner ==
    \A g \in Goals : goal[g].status = "target_reached" ~> RunnersOf(g) = {}

\* "clearing the gate re-launches a bounded owned process group"
\* (README.md:113): when the request that cleared a gate ends, a runner
\* that has yet to look for queued items is there for the one it queued.
BeforeCollecting == {"boot", "activate", "announce", "check", "collect"}
ClearedGateIsReplayed ==
    [][\A h \in Threads :
         /\ thread[h].kind = "clear" /\ thread'[h] = Idle
         /\ \E t \in Tasks :
              /\ t = thread[h].task
              /\ item'[thread[h].goal][t].state = "observed"
         /\ goal'[thread[h].goal].status \in Ledger!OpenStatus
         => \E p \in Procs : /\ proc'[p].goal = thread[h].goal
                             /\ proc'[p].pc \in BeforeCollecting]_vars
=============================================================================
