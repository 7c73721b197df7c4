----------------------------- MODULE GoalRunner -----------------------------
(***************************************************************************)
(* The runner of a goal: the process run_application_goal.py and the site  *)
(* adapter it starts, run_indeed_unattended.py.  A runner performs one     *)
(* cycle: it finds candidates (items queued for replay, or jobs collected  *)
(* from the site), lets the adapter apply to them, and leaves the goal     *)
(* waiting for a human or for candidates.  Every transaction it makes on   *)
(* the goal ledger is a step of its own; between two of them anything may  *)
(* happen to the goal.                                                     *)
(***************************************************************************)
EXTENDS Naturals, FiniteSets

CONSTANTS
    MaxGoals, Tasks, Bands, Plans,  \* see ApplicationGoals
    Procs,          \* slots for runner processes
    None,           \* no process
    NoTask,         \* no task
    ListedBand,     \* ListedBand[t]: the salary band in the manifest
    RenderedBands   \* the bands a listing page may show

VARIABLES
    goal, item,     \* the ledger
    proc,           \* proc[p]: a runner process
    metadata,       \* metadata[g]: the process in the goal's process.json
    seen            \* seen[g]: attempted-task-ids.json

Ledger == INSTANCE ApplicationGoals

ledgerVars == <<goal, item>>
runnerVars == <<goal, item, proc, metadata, seen>>

Goals == Ledger!Goals

\* The ledger's assumptions on its constants, and the runner's.
ASSUME RunnerAssumption ==
    /\ MaxGoals \in Nat /\ IsFiniteSet(Tasks)
    /\ {Ledger!Unknown, Ledger!Legacy} \cap Bands = {}
    /\ Plans \subseteq [target : Nat \ {0}, quota : [Bands -> Nat]]
    /\ None \notin Procs /\ NoTask \notin Tasks
    /\ ListedBand \in [Tasks -> Ledger!AllBands]
    /\ RenderedBands \subseteq Ledger!AllBands

\* handoff: has the latest outcome of some job been a human gate?
Dead == [pc |-> "dead", goal |-> 0, known |-> {}, cycle |-> {}, jobs |-> {},
         active |-> {}, left |-> 0, task |-> NoTask, outcome |-> "none",
         handoff |-> FALSE, want |-> "none"]

Alive(p) == proc[p].pc # "dead"
ChildPc == {"child", "apply", "record", "finish"}

RunnerInit ==
    /\ Ledger!Init
    /\ proc = [p \in Procs |-> Dead]
    /\ metadata = [g \in Goals |-> None]
    /\ seen = [g \in Goals |-> {}]

GoTo(p, pc) == proc' = [proc EXCEPT ![p].pc = pc]

\* The status to leave the goal in is decided; what was read is forgotten.
Want(p, status) ==
    proc' = [proc EXCEPT ![p] = [Dead EXCEPT !.pc = "write",
                                             !.goal = proc[p].goal,
                                             !.want = status]]

\* The child died or ended: supervise continues after subprocess.run.
AfterChild(row) == [row EXCEPT !.pc = "reread", !.jobs = {}, !.active = {},
                               !.left = 0, !.task = NoTask,
                               !.outcome = "none", !.handoff = FALSE]

-----------------------------------------------------------------------------
\* Faulty variants: the forms some definitions below would take after a
\* plausible mistake.  The properties are tested against them.

TakeWithFreeToken(p, t) ==
    /\ proc[p].pc = "apply"
    /\ t \in proc[p].jobs
    /\ Cardinality(proc[p].active) < proc[p].left
    /\ Ledger!Available(proc[p].goal) > 0
    /\ proc' = [proc EXCEPT ![p].jobs = @ \ {t}, ![p].active = @ \cup {t}]

ItemStateVerdict(current, gated) ==
    IF current # {} /\ gated = current
    THEN "human_handoff" ELSE "waiting_for_candidates"

EndAfterAllJobs(p) ==
    /\ proc[p].pc = "apply"
    /\ proc[p].active = {} /\ proc[p].jobs = {}
    /\ proc' = [proc EXCEPT ![p] = AfterChild(@)]
    /\ UNCHANGED <<ledgerVars, metadata, seen>>

-----------------------------------------------------------------------------
\* supervise, before the child

Boot(p) ==
    /\ proc[p].pc = "boot"
    /\ proc' = [proc EXCEPT ![p] =
                  IF goal[@.goal].status = "target_reached" THEN Dead
                  ELSE [@ EXCEPT !.pc = "activate"]]
    /\ UNCHANGED <<ledgerVars, metadata, seen>>

Activate(p) ==
    /\ proc[p].pc = "activate"
    /\ Ledger!SetStatus(proc[p].goal, "active")
    /\ GoTo(p, "announce")
    /\ UNCHANGED <<metadata, seen>>

Announce(p) ==
    /\ proc[p].pc = "announce"
    /\ metadata' = [metadata EXCEPT ![proc[p].goal] = p]
    /\ proc' = [proc EXCEPT ![p].pc = "check",
                            ![p].known = seen[proc[p].goal]]
    /\ UNCHANGED <<ledgerVars, seen>>

Check(p) ==
    LET g == proc[p].goal
    IN /\ proc[p].pc = "check"
       /\ \/ /\ goal[g].status = "target_reached" \/ Ledger!Remaining(g) = 0
             /\ proc' = [proc EXCEPT ![p].pc = "leave", ![p].known = {}]
             /\ UNCHANGED seen
          \/ /\ goal[g].status # "target_reached" /\ Ledger!Remaining(g) > 0
             /\ Ledger!Available(g) = 0
             /\ Want(p, "waiting_for_human")
             /\ UNCHANGED seen
          \/ /\ goal[g].status # "target_reached"
             /\ Ledger!Available(g) > 0
             /\ seen' = [seen EXCEPT ![g] = proc[p].known]
             /\ GoTo(p, "collect")
       /\ UNCHANGED <<ledgerVars, metadata>>

StartCycle(p, jobs) ==
    /\ proc' = [proc EXCEPT ![p].pc = "child", ![p].known = {},
                            ![p].cycle = jobs]
    /\ seen' = [seen EXCEPT ![proc[p].goal] = proc[p].known \cup jobs]
    /\ UNCHANGED <<ledgerVars, metadata>>

\* _retry_jobs: the queued items whose manifest entry is still found.
Replay(p, jobs) ==
    /\ proc[p].pc = "collect"
    /\ jobs # {}
    /\ \A t \in jobs : item[proc[p].goal][t].state = "observed"
    /\ StartCycle(p, jobs)

\* The collector leaves out the tasks attempted before.
Collect(p, jobs) ==
    /\ proc[p].pc = "collect"
    /\ jobs # {} /\ jobs \cap proc[p].known = {}
    /\ StartCycle(p, jobs)

\* The collector needs a human, fails, or finds nothing new.
CollectNothing(p, want) ==
    /\ proc[p].pc = "collect"
    /\ Want(p, want)
    /\ UNCHANGED <<ledgerVars, metadata, seen>>

-----------------------------------------------------------------------------
\* run, the child: a pool of workers whose outcomes one thread records.

\* target_submissions is read once, here.
StartChild(p) ==
    /\ proc[p].pc = "child"
    /\ proc' = [proc EXCEPT ![p].pc = "apply",
                            ![p].jobs = proc[p].cycle,
                            ![p].left = Ledger!Available(proc[p].goal)]
    /\ UNCHANGED <<ledgerVars, metadata, seen>>

\* A worker takes a job while fewer than "left" are active (max_parallel, three
\* by default, is no smaller than the number of tasks modelled) ...
Take(p, t) ==
    /\ proc[p].pc = "apply"
    /\ t \in proc[p].jobs
    /\ Cardinality(proc[p].active) < proc[p].left
    /\ proc' = [proc EXCEPT ![p].jobs = @ \ {t}, ![p].active = @ \cup {t}]

\* ... and may stop before it has classified the rendered listing.
TakeUnclassified(p, t) ==
    /\ Take(p, t)
    /\ UNCHANGED <<ledgerVars, metadata, seen>>

TakeClassified(p, t, band) ==
    /\ Take(p, t)
    /\ Ledger!Observe(proc[p].goal, t, "observed", band, FALSE)
    /\ UNCHANGED <<metadata, seen>>

\* What a worker reports: submitted, skipped, failed, evidence the listing
\* lacks, a human gate worded with review, final submit or submit permission
\* ("at_review"), or any other human gate.
Outcomes == {"submitted", "skipped", "failed", "gate", "at_review",
             "evidence_gap"}
HumanOutcomes == {"gate", "at_review", "evidence_gap"}

ItemStateOf(outcome) ==
    IF outcome \in HumanOutcomes THEN "human_handoff"
    ELSE IF outcome = "submitted" THEN "observed" ELSE outcome

\* HUMAN_HANDOFF details with "review", "final submit" or "submit permission":
\* both evidence gaps are worded "... review required: ...".
MentionsReview(outcome) == outcome \in {"at_review", "evidence_gap"}

BandToRecord(g, t) ==
    IF ListedBand[t] = Ledger!Unknown /\ Ledger!Known(g, t)
    THEN item[g][t].band ELSE ListedBand[t]

\* _record_goal_outcome, first transaction.  An approved item has no gap.
Record(p, t, outcome) ==
    LET g == proc[p].goal
    IN /\ proc[p].pc = "apply"
       /\ t \in proc[p].active
       /\ outcome = "evidence_gap" => ~item[g][t].approved
       /\ Ledger!Observe(g, t, ItemStateOf(outcome), BandToRecord(g, t),
                         outcome = "evidence_gap")
       /\ proc' = [proc EXCEPT ![p] =
                     [proc[p] EXCEPT !.pc = "record", !.active = @ \ {t},
                                     !.task = t, !.outcome = outcome]]
       /\ UNCHANGED <<metadata, seen>>

Recorded(row) ==
    [row EXCEPT !.pc = "apply", !.task = NoTask, !.outcome = "none",
                !.left = IF row.outcome = "submitted" THEN @ - 1 ELSE @,
                !.handoff = @ \/ row.outcome \in HumanOutcomes]

\* _record_goal_outcome, second transaction: confirm, reserve or release.  An
\* error that confirm raises ends the child.
RecordToken(p) ==
    LET g == proc[p].goal
        t == proc[p].task
        outcome == proc[p].outcome
        recorded == proc' = [proc EXCEPT ![p] = Recorded(proc[p])]
    IN /\ proc[p].pc = "record"
       /\ \/ /\ outcome = "submitted"
             /\ Ledger!Confirm(g, t) /\ recorded
          \/ /\ outcome = "submitted" /\ item[g][t].state = "confirmed"
             /\ recorded /\ UNCHANGED ledgerVars
          \/ /\ outcome = "submitted" /\ item[g][t].state # "confirmed"
             /\ ~Ledger!CanConfirm(g, t)
             /\ proc' = [proc EXCEPT ![p] = AfterChild(@)]
             /\ UNCHANGED ledgerVars
          \/ /\ MentionsReview(outcome)
             /\ Ledger!Reserve(g, t) /\ recorded
          \/ /\ MentionsReview(outcome)
             /\ item[g][t].state \in Ledger!TokenState \/ ~Ledger!CanReserve(g, t)
             /\ recorded /\ UNCHANGED ledgerVars
          \/ /\ outcome \in {"skipped", "failed"}
             /\ Ledger!Release(g, t, outcome) /\ recorded
          \/ /\ outcome \in {"skipped", "failed"}
             /\ item[g][t].state = "confirmed"
             /\ recorded /\ UNCHANGED ledgerVars
          \/ /\ outcome = "gate"
             /\ recorded /\ UNCHANGED ledgerVars
       /\ UNCHANGED <<metadata, seen>>

\* All jobs done, or enough submissions: a look at the goal, and ...
EndChild(p) ==
    /\ proc[p].pc = "apply"
    /\ proc[p].active = {}
    /\ proc[p].jobs = {} \/ proc[p].left = 0
    /\ proc' = [proc EXCEPT ![p] =
                  IF goal[@.goal].status # "target_reached" /\ @.handoff
                  THEN [@ EXCEPT !.pc = "finish", !.jobs = {}]
                  ELSE AfterChild(@)]
    /\ UNCHANGED <<ledgerVars, metadata, seen>>

\* ... after a human gate, its status.
FinishChild(p) ==
    /\ proc[p].pc = "finish"
    /\ Ledger!SetStatus(proc[p].goal, "waiting_for_human")
    /\ proc' = [proc EXCEPT ![p] = AfterChild(@)]
    /\ UNCHANGED <<metadata, seen>>

-----------------------------------------------------------------------------
\* supervise, after the child

Reread(p) ==
    /\ proc[p].pc = "reread"
    /\ GoTo(p, IF goal[proc[p].goal].status = "target_reached"
               THEN "leave" ELSE "judge")
    /\ UNCHANGED <<ledgerVars, metadata, seen>>

Verdict(current, gated) ==
    IF current # {} /\ gated = current
    THEN "waiting_for_human" ELSE "waiting_for_candidates"

Judge(p) ==
    LET g == proc[p].goal
        current == {t \in proc[p].cycle : Ledger!Known(g, t)}
        gated == {t \in current : item[g][t].state \in {"human_handoff", "reserved"}}
    IN /\ proc[p].pc = "judge"
       /\ Want(p, Verdict(current, gated))
       /\ UNCHANGED <<ledgerVars, metadata, seen>>

Write(p) ==
    /\ proc[p].pc = "write"
    /\ Ledger!SetStatus(proc[p].goal, proc[p].want)
    /\ GoTo(p, "leave")
    /\ UNCHANGED <<metadata, seen>>

\* The finally clause unlinks process.json, whoever wrote it.
Leave(p) ==
    /\ proc[p].pc = "leave"
    /\ metadata' = [metadata EXCEPT ![proc[p].goal] = None]
    /\ proc' = [proc EXCEPT ![p] = Dead]
    /\ UNCHANGED <<ledgerVars, seen>>

RunnerStep(p) ==
    \/ Boot(p) \/ Activate(p) \/ Announce(p) \/ Check(p)
    \/ \E jobs \in SUBSET Tasks : Replay(p, jobs) \/ Collect(p, jobs)
    \/ \E want \in {"waiting_for_human", "waiting_for_candidates"} :
         CollectNothing(p, want)
    \/ StartChild(p)
    \/ \E t \in Tasks :
         \/ TakeUnclassified(p, t)
         \/ \E band \in RenderedBands : TakeClassified(p, t, band)
         \/ \E outcome \in Outcomes : Record(p, t, outcome)
    \/ RecordToken(p) \/ EndChild(p) \/ FinishChild(p)
    \/ Reread(p) \/ Judge(p) \/ Write(p) \/ Leave(p)

-----------------------------------------------------------------------------
\* Signals

\* SIGTERM to the process group ends the child.  The runner notes the request
\* and goes on, unless it has not installed its handler yet.
AfterSigterm(row) ==
    IF row.pc = "boot" THEN {row, Dead}
    ELSE IF row.pc \in ChildPc THEN {AfterChild(row)}
    ELSE {row}
=============================================================================
