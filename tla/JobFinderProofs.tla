--------------------------- MODULE JobFinderProofs ---------------------------
(***************************************************************************)
(* Proofs about the runners and the control center, for any number of      *)
(* goals, tasks, processes and handler threads.  The types hold through    *)
(* every restart.  A goal has one runner, and a cancelled goal is quiet,   *)
(* when the control center serves one request at a time and is not         *)
(* restarted; with any number of requests at a time and any restarts, a    *)
(* goal has one runner until the server's table drops a live one.          *)
(***************************************************************************)
EXTENDS JobFinder, FiniteSetTheorems, TLAPS

-----------------------------------------------------------------------------
\* The ledger, as far as a runner and a handler read it: the goals' rows.

GoalTable == goal \in [Goals -> Ledger!GoalRow]

\* A transaction that cancels no goal.
Calm == /\ GoalTable'
        /\ \A g \in Goals : goal'[g].status = "cancelled" => goal[g].status = "cancelled"

LEMMA AvailableIsNatural ==
    ASSUME GoalTable, NEW g \in Goals
    PROVE Ledger!Available(g) \in Nat
<1>1. goal[g] \in Ledger!GoalRow
  BY DEF GoalTable
<1> QED  BY <1>1 DEF Ledger!Available, Ledger!GoalRow

\* One row is replaced by a row of a goal that is not cancelled.
LEMMA CalmUpdate ==
    ASSUME GoalTable, NEW g \in Goals, NEW row \in Ledger!GoalRow,
           row.status # "cancelled" \/ goal[g].status = "cancelled",
           goal' = [goal EXCEPT ![g] = row]
    PROVE Calm
  BY DEF GoalTable, Calm

LEMMA UnchangedCalm == ASSUME GoalTable, UNCHANGED goal PROVE Calm
  BY DEF GoalTable, Calm

LEMMA ObserveCalm ==
    ASSUME GoalTable, NEW g, NEW t, NEW state, NEW band, NEW reviewable,
           Ledger!Observe(g, t, state, band, reviewable)
    PROVE Calm
  BY UnchangedCalm DEF Ledger!Observe

LEMMA StatusTyped ==
    ASSUME GoalTable, NEW g \in Goals, NEW status, Ledger!SetStatus(g, status)
    PROVE /\ GoalTable'
          /\ status # "cancelled" => Calm
          /\ \A x \in Goals \ {g} : goal'[x] = goal[x]
<1>1. PICK row : row = [goal[g] EXCEPT !.status = status]
  OBVIOUS
<1>2. row \in Ledger!GoalRow /\ row.status = status /\ goal' = [goal EXCEPT ![g] = row]
  BY <1>1 DEF GoalTable, Ledger!GoalRow, Ledger!SetStatus, Ledger!Status, Ledger!OpenStatus
<1>3. GoalTable' /\ \A x \in Goals \ {g} : goal'[x] = goal[x]
  BY <1>2 DEF GoalTable
<1>4. status # "cancelled" => Calm
  BY <1>2, CalmUpdate
<1> QED  BY <1>3, <1>4

LEMMA ReserveCalm ==
    ASSUME GoalTable, NEW g \in Goals, NEW t, Ledger!Reserve(g, t)
    PROVE Calm
<1>1. goal[g] \in Ledger!GoalRow /\ goal[g].reserved + 1 \in Nat
  BY DEF GoalTable, Ledger!GoalRow
<1>2. PICK row : row = [goal[g] EXCEPT !.reserved = goal[g].reserved + 1]
  OBVIOUS
<1>3. row \in Ledger!GoalRow /\ row.status = goal[g].status
  BY <1>1, <1>2 DEF Ledger!GoalRow
<1>4. goal' = [goal EXCEPT ![g] = row]
  BY <1>2 DEF Ledger!Reserve
<1> QED  BY <1>3, <1>4, CalmUpdate

LEMMA ConfirmCalm ==
    ASSUME GoalTable, NEW g \in Goals, NEW t, Ledger!Confirm(g, t)
    PROVE Calm
<1> DEFINE n == goal[g].confirmed + Ledger!Bit(Ledger!Counts(g, t))
           m == Ledger!MinusToZero(goal[g].reserved, item[g][t].state = "reserved")
           kept == [goal[g] EXCEPT !.confirmed = n, !.reserved = m]
           row == [kept EXCEPT !.status = Ledger!StatusAfterConfirm(kept)]
<1>1. goal[g] \in Ledger!GoalRow
  BY DEF GoalTable
<1>2. n \in Nat /\ m \in Nat
  BY <1>1 DEF Ledger!GoalRow, Ledger!Bit, Ledger!MinusToZero
<1>3. kept \in Ledger!GoalRow
  BY <1>1, <1>2 DEF Ledger!GoalRow
<1>4. Ledger!StatusAfterConfirm(kept) \in {"active", "target_reached"}
  BY DEF Ledger!StatusAfterConfirm
<1>5. row \in Ledger!GoalRow /\ row.status # "cancelled"
  BY <1>3, <1>4 DEF Ledger!GoalRow, Ledger!Status, Ledger!OpenStatus
<1>6. goal' = [goal EXCEPT ![g] = row]
  BY DEF Ledger!Confirm
<1> HIDE DEF row
<1> QED  BY <1>5, <1>6, CalmUpdate

LEMMA ReleaseCalm ==
    ASSUME GoalTable, NEW g \in Goals, NEW t, NEW state, Ledger!Release(g, t, state)
    PROVE Calm
<1> DEFINE m == Ledger!MinusToZero(goal[g].reserved, item[g][t].state = "reserved")
           status == IF goal[g].status = "target_reached" THEN goal[g].status ELSE "active"
           row == [goal[g] EXCEPT !.reserved = m, !.status = status]
<1>1. goal[g] \in Ledger!GoalRow
  BY DEF GoalTable
<1>2. m \in Nat
  BY <1>1 DEF Ledger!GoalRow, Ledger!MinusToZero
<1>3. status \in {"active", "target_reached"}
  OBVIOUS
<1>4. row \in Ledger!GoalRow /\ row.status # "cancelled"
  BY <1>1, <1>2, <1>3 DEF Ledger!GoalRow, Ledger!Status, Ledger!OpenStatus
<1>5. goal' = [goal EXCEPT ![g] = row]
  BY DEF Ledger!Release
<1> HIDE DEF row
<1> QED  BY <1>4, <1>5, CalmUpdate

LEMMA CreateTyped ==
    ASSUME GoalTable, NEW g \in Goals, NEW plan \in Plans, Ledger!Create(g, plan)
    PROVE GoalTable' /\ goal'[g].status = "active"
<1>1. PICK row : row = [Ledger!NoGoal EXCEPT !.target = plan.target, !.quota = plan.quota,
                                             !.status = "active"]
  OBVIOUS
<1>2. row \in Ledger!GoalRow /\ row.status = "active"
  BY <1>1, RunnerAssumption
  DEF RunnerAssumption, Ledger!NoGoal, Ledger!GoalRow, Ledger!Status, Ledger!OpenStatus
<1>3. \A h \in Goals : [goal[h] EXCEPT !.status = "cancelled"] \in Ledger!GoalRow
  BY DEF GoalTable, Ledger!GoalRow, Ledger!Status
<1>4. goal' = [h \in Goals |-> IF h = g THEN row
                 ELSE IF goal[h].status \in Ledger!OpenStatus
                      THEN [goal[h] EXCEPT !.status = "cancelled"] ELSE goal[h]]
  BY <1>1 DEF Ledger!Create, Goals
<1> QED  BY <1>2, <1>3, <1>4 DEF GoalTable
-----------------------------------------------------------------------------
\* Runners

\* The pcs of a runner whose pool of workers is empty.
Quiet == {"dead", "boot", "activate", "announce", "check", "collect", "reread",
          "judge", "write", "leave", "child", "finish"}

\* A runner that is alive has a goal, and tokens left for the workers of its pool.
SoundRow(row) ==
    /\ row.pc # "dead" => row.goal \in Goals
    /\ row.pc \in Quiet => row.active = {}
    /\ row.pc = "apply" => Cardinality(row.active) <= row.left
    /\ row.pc = "record" => /\ Cardinality(row.active) + 1 <= row.left
                            /\ row.task \in Tasks /\ row.outcome \in Outcomes
SoundRows == {row \in RunnerRow : SoundRow(row)}
RunnersTyped == proc \in [Procs -> SoundRows]

\* A runner's row after a step: it may end, but neither revives nor changes its goal.
Follows(row, old) == row \in SoundRows /\ (row.pc # "dead" => old.pc # "dead" /\ row.goal = old.goal)

LEMMA DeadRow == Dead \in SoundRows /\ Dead.pc = "dead"
  BY DEF Dead, SoundRows, SoundRow, RunnerRow, Quiet

LEMMA SoundParts ==
    ASSUME NEW row \in SoundRows
    PROVE row \in RunnerRow /\ SoundRow(row)
  BY DEF SoundRows

LEMMA QuietFollows ==
    ASSUME NEW old \in SoundRows, old.pc \in Quiet \ {"dead"}, NEW pc \in Quiet
    PROVE Follows([old EXCEPT !.pc = pc], old)
  BY SoundParts DEF Follows, SoundRows, SoundRow, RunnerRow, Quiet, ChildPc

LEMMA WantFollows ==
    ASSUME NEW old \in SoundRows, old.pc # "dead",
           NEW want \in {"waiting_for_human", "waiting_for_candidates"}
    PROVE Follows([Dead EXCEPT !.pc = "write", !.goal = old.goal, !.want = want], old)
  BY SoundParts, ZenonT(40) DEF Follows, SoundRows, SoundRow, RunnerRow, Quiet, Dead

LEMMA AfterChildFollows ==
    ASSUME NEW old \in SoundRows, old.pc # "dead"
    PROVE Follows(AfterChild(old), old)
  BY SoundParts, ZenonT(40) DEF Follows, SoundRows, SoundRow, RunnerRow, Quiet, AfterChild

LEMMA FilesFollow ==
    ASSUME NEW old \in SoundRows, old.pc \in Quiet \ {"dead"}, NEW pc \in Quiet \ {"dead"},
           NEW known \in SUBSET Tasks, NEW cycle \in SUBSET Tasks
    PROVE /\ Follows([old EXCEPT !.pc = pc, !.known = known], old)
          /\ Follows([old EXCEPT !.pc = pc, !.known = known, !.cycle = cycle], old)
<1>1. old \in RunnerRow /\ SoundRow(old) /\ old.active = {}
  BY SoundParts DEF SoundRow
<1>2. pc \in {"boot", "activate", "announce", "check", "collect", "reread", "judge", "write",
             "leave", "child", "finish"}
  BY DEF Quiet
<1>3. Follows([old EXCEPT !.pc = pc, !.known = known], old)
  <2>1. PICK row : row = [old EXCEPT !.pc = pc, !.known = known]
    OBVIOUS
  <2>2. row \in RunnerRow /\ row.pc = pc /\ row.goal = old.goal /\ row.active = {}
    BY <1>1, <1>2, <2>1 DEF RunnerRow, ChildPc
  <2> QED  BY <1>1, <1>2, <2>1, <2>2 DEF Follows, SoundRows, SoundRow, Quiet
<1>4. Follows([old EXCEPT !.pc = pc, !.known = known, !.cycle = cycle], old)
  <2>1. PICK row : row = [old EXCEPT !.pc = pc, !.known = known, !.cycle = cycle]
    OBVIOUS
  <2>2. row \in RunnerRow /\ row.pc = pc /\ row.goal = old.goal /\ row.active = {}
    BY <1>1, <1>2, <2>1 DEF RunnerRow, ChildPc
  <2> QED  BY <1>1, <1>2, <2>1, <2>2 DEF Follows, SoundRows, SoundRow, Quiet
<1> QED  BY <1>3, <1>4

LEMMA PoolFollows ==
    ASSUME NEW old \in SoundRows, old.pc = "child", NEW left \in Nat
    PROVE Follows([old EXCEPT !.pc = "apply", !.jobs = old.cycle, !.left = left], old)
<1>1. Cardinality({}) = 0
  BY FS_EmptySet
<1>2. old \in RunnerRow /\ SoundRow(old) /\ old.active = {}
  BY SoundParts DEF SoundRow, Quiet
<1>3. PICK row : row = [old EXCEPT !.pc = "apply", !.jobs = old.cycle, !.left = left]
  OBVIOUS
<1>4. /\ row \in RunnerRow /\ row.pc = "apply" /\ row.goal = old.goal
      /\ row.active = {} /\ row.left = left
  BY <1>2, <1>3 DEF RunnerRow, ChildPc
<1>5. Cardinality(row.active) <= row.left
  BY <1>1, <1>4
<1>6. Follows(row, old)
  BY <1>2, <1>4, <1>5 DEF Follows, SoundRows, SoundRow, Quiet
<1> QED  BY <1>3, <1>6

LEMMA TakeFollows ==
    ASSUME NEW old \in SoundRows, old.pc = "apply", NEW t \in old.jobs,
           Cardinality(old.active) < old.left
    PROVE Follows([old EXCEPT !.jobs = old.jobs \ {t}, !.active = old.active \cup {t}], old)
<1>1. old \in RunnerRow /\ SoundRow(old)
  BY SoundParts
<1>2. old.active \subseteq Tasks /\ t \in Tasks /\ old.left \in Nat
  BY <1>1 DEF RunnerRow
<1>3. IsFiniteSet(old.active)
  BY <1>2, RunnerAssumption, FS_Subset DEF RunnerAssumption
<1>4. /\ Cardinality(old.active) \in Nat
      /\ Cardinality(old.active \cup {t}) \in {Cardinality(old.active), Cardinality(old.active) + 1}
  BY <1>3, FS_CardinalityType, FS_AddElement
<1>5. Cardinality(old.active \cup {t}) <= old.left
  BY <1>2, <1>4
<1> QED  BY <1>1, <1>2, <1>5 DEF Follows, SoundRows, SoundRow, RunnerRow, Quiet, ChildPc

LEMMA RecordFollows ==
    ASSUME NEW old \in SoundRows, old.pc = "apply", NEW t \in old.active,
           NEW outcome \in Outcomes
    PROVE Follows([old EXCEPT !.pc = "record", !.active = old.active \ {t}, !.task = t,
                              !.outcome = outcome], old)
<1>1. old \in RunnerRow /\ SoundRow(old)
  BY SoundParts
<1>2. old.active \subseteq Tasks /\ t \in Tasks /\ old.left \in Nat
  BY <1>1 DEF RunnerRow
<1>3. IsFiniteSet(old.active)
  BY <1>2, RunnerAssumption, FS_Subset DEF RunnerAssumption
<1>4. /\ Cardinality(old.active) \in Nat
      /\ Cardinality(old.active \ {t}) = Cardinality(old.active) - 1
  BY <1>3, FS_CardinalityType, FS_RemoveElement
<1>5. Cardinality(old.active \ {t}) + 1 <= old.left
  BY <1>1, <1>2, <1>4 DEF SoundRow
<1> QED  BY <1>1, <1>2, <1>5 DEF Follows, SoundRows, SoundRow, RunnerRow, Quiet, ChildPc

LEMMA RecordedFollows ==
    ASSUME NEW old \in SoundRows, old.pc = "record"
    PROVE Follows(Recorded(old), old)
<1>1. old \in RunnerRow /\ SoundRow(old)
  BY SoundParts
<1>2. IsFiniteSet(old.active)
  BY <1>1, RunnerAssumption, FS_Subset DEF RunnerAssumption, RunnerRow
<1>3. Cardinality(old.active) \in Nat /\ old.left \in Nat /\ Cardinality(old.active) + 1 <= old.left
  BY <1>1, <1>2, FS_CardinalityType DEF SoundRow, RunnerRow
<1>4. PICK left : left = IF old.outcome = "submitted" THEN old.left - 1 ELSE old.left
  OBVIOUS
<1>5. left \in Nat /\ Cardinality(old.active) <= left
  BY <1>3, <1>4
<1>6. PICK handoff \in BOOLEAN : handoff = (old.handoff \/ old.outcome \in HumanOutcomes)
  OBVIOUS
<1>7. Recorded(old) = [old EXCEPT !.pc = "apply", !.task = NoTask, !.outcome = "none",
                                  !.left = left, !.handoff = handoff]
  BY <1>4, <1>6 DEF Recorded
<1>8. PICK row : row = Recorded(old)
  OBVIOUS
<1>9. row \in RunnerRow
  BY <1>1, <1>5, <1>7, <1>8 DEF RunnerRow, ChildPc
<1>10. row.pc = "apply" /\ row.goal = old.goal /\ row.active = old.active /\ row.left = left
  BY <1>1, <1>7, <1>8 DEF RunnerRow
<1>11. old.pc # "dead" /\ old.goal \in Goals
  BY <1>1 DEF SoundRow
<1>12. SoundRow(row)
  BY <1>5, <1>10, <1>11 DEF SoundRow, Quiet
<1> QED  BY <1>8, <1>9, <1>10, <1>11, <1>12 DEF Follows, SoundRows

-----------------------------------------------------------------------------
\* What a step of runner p does: its row follows the old one, no goal is cancelled,
\* and a process.json that changes is its own goal's.

FilesTyped ==
    /\ metadata \in [Goals -> Procs \cup {None}]
    /\ seen \in [Goals -> SUBSET Tasks]
RunnerMoves(p) ==
    \E row : Follows(row, proc[p]) /\ proc' = [proc EXCEPT ![p] = row]
MetadataMoves(p) ==
    \A g \in Goals : \/ metadata'[g] \in {metadata[g], None}
                     \/ metadata'[g] = p /\ g = proc[p].goal
RunnerEffects(p) == Calm /\ RunnerMoves(p) /\ MetadataMoves(p) /\ FilesTyped'

LEMMA AliveRow ==
    ASSUME RunnersTyped, NEW p \in Procs
    PROVE proc[p] \in SoundRows /\ proc[p] \in RunnerRow /\ SoundRow(proc[p])
  BY DEF RunnersTyped, SoundRows

LEMMA MovesTyped ==
    ASSUME RunnersTyped, NEW p \in Procs, RunnerMoves(p)
    PROVE /\ RunnersTyped' /\ \A q \in Procs \ {p} : proc'[q] = proc[q]
          /\ Follows(proc'[p], proc[p])
  BY DEF RunnersTyped, RunnerMoves, Follows

\* A step that leaves the files alone.
LEMMA OnlyRow ==
    ASSUME FilesTyped, NEW p \in Procs, NEW row, Follows(row, proc[p]),
           proc' = [proc EXCEPT ![p] = row], Calm, UNCHANGED <<metadata, seen>>
    PROVE RunnerEffects(p)
  BY DEF RunnerEffects, RunnerMoves, MetadataMoves, FilesTyped

LEMMA OnlyRunner ==
    ASSUME GoalTable, FilesTyped, NEW p \in Procs, NEW row, Follows(row, proc[p]),
           proc' = [proc EXCEPT ![p] = row], UNCHANGED <<ledgerVars, metadata, seen>>
    PROVE RunnerEffects(p)
<1>1. Calm
  BY UnchangedCalm DEF ledgerVars
<1> QED  BY <1>1, OnlyRow

LEMMA BeforeTheChild ==
    ASSUME GoalTable, RunnersTyped, FilesTyped, NEW p \in Procs,
           Boot(p) \/ Activate(p) \/ Announce(p) \/ Check(p)
    PROVE RunnerEffects(p)
<1>1. CASE Boot(p)
  <2>1. Follows(Dead, proc[p]) /\ Follows([proc[p] EXCEPT !.pc = "activate"], proc[p])
    BY <1>1, DeadRow, AliveRow, QuietFollows DEF Boot, Quiet, Follows
  <2> QED  BY <1>1, <2>1, OnlyRunner DEF Boot
<1>2. CASE Activate(p)
  <2>1. proc[p].goal \in Goals /\ Follows([proc[p] EXCEPT !.pc = "announce"], proc[p])
    BY <1>2, AliveRow, QuietFollows DEF Activate, Quiet, SoundRow
  <2>2. Calm
    BY <1>2, <2>1, StatusTyped DEF Activate
  <2>3. proc' = [proc EXCEPT ![p] = [proc[p] EXCEPT !.pc = "announce"]]
    BY <1>2 DEF Activate, GoTo
  <2> QED  BY <1>2, <2>1, <2>2, <2>3, OnlyRow DEF Activate
<1>3. CASE Announce(p)
  <2>1. proc[p].goal \in Goals /\ proc[p].pc = "announce"
    BY <1>3, AliveRow DEF Announce, SoundRow
  <2>2. Follows([proc[p] EXCEPT !.pc = "check", !.known = seen[proc[p].goal]], proc[p])
    BY <2>1, AliveRow, FilesFollow DEF Quiet, FilesTyped
  <2>3. proc' = [proc EXCEPT ![p] = [proc[p] EXCEPT !.pc = "check", !.known = seen[proc[p].goal]]]
    BY <1>3, AliveRow DEF Announce, RunnersTyped, RunnerRow
  <2>4. Calm
    BY <1>3, UnchangedCalm DEF Announce, ledgerVars
  <2>5. MetadataMoves(p) /\ FilesTyped'
    BY <1>3, <2>1 DEF Announce, MetadataMoves, FilesTyped
  <2> QED  BY <2>2, <2>3, <2>4, <2>5 DEF RunnerEffects, RunnerMoves
<1>4. CASE Check(p)
  <2>1. proc[p].goal \in Goals /\ proc[p].pc = "check"
    BY <1>4, AliveRow DEF Check, SoundRow
  <2>2. Calm
    BY <1>4, UnchangedCalm DEF Check, ledgerVars
  <2>3. CASE proc' = [proc EXCEPT ![p].pc = "leave", ![p].known = {}] /\ UNCHANGED seen
    <3>1. Follows([proc[p] EXCEPT !.pc = "leave", !.known = {}], proc[p])
      BY <2>1, AliveRow, FilesFollow DEF Quiet
    <3>2. proc' = [proc EXCEPT ![p] = [proc[p] EXCEPT !.pc = "leave", !.known = {}]]
      BY <2>3, AliveRow DEF RunnersTyped, RunnerRow
    <3> QED  BY <1>4, <2>2, <2>3, <3>1, <3>2, OnlyRow DEF Check
  <2>4. CASE Want(p, "waiting_for_human") /\ UNCHANGED seen
    BY <1>4, <2>1, <2>2, <2>4, AliveRow, WantFollows, OnlyRow DEF Check, Want
  <2>5. CASE seen' = [seen EXCEPT ![proc[p].goal] = proc[p].known] /\ GoTo(p, "collect")
    <3>1. Follows([proc[p] EXCEPT !.pc = "collect"], proc[p])
      BY <2>1, AliveRow, QuietFollows DEF Quiet
    <3>2. proc' = [proc EXCEPT ![p] = [proc[p] EXCEPT !.pc = "collect"]]
      BY <2>5 DEF GoTo
    <3>3. proc[p].known \in SUBSET Tasks
      BY AliveRow DEF RunnerRow
    <3>4. MetadataMoves(p) /\ FilesTyped'
      BY <1>4, <2>1, <2>5, <3>3 DEF Check, MetadataMoves, FilesTyped
    <3> QED  BY <2>2, <3>1, <3>2, <3>4 DEF RunnerEffects, RunnerMoves
  <2> QED  BY <1>4, <2>3, <2>4, <2>5 DEF Check
<1> QED  BY <1>1, <1>2, <1>3, <1>4

LEMMA CycleStarts ==
    ASSUME GoalTable, RunnersTyped, FilesTyped, NEW p \in Procs, NEW jobs \in SUBSET Tasks,
           NEW want \in {"waiting_for_human", "waiting_for_candidates"},
           Replay(p, jobs) \/ Collect(p, jobs) \/ CollectNothing(p, want) \/ StartChild(p)
    PROVE RunnerEffects(p)
<1>1. CASE Replay(p, jobs) \/ Collect(p, jobs)
  <2>1. proc[p].pc = "collect" /\ proc[p].goal \in Goals /\ proc[p].known \in SUBSET Tasks
    BY <1>1, AliveRow DEF Replay, Collect, SoundRow, RunnerRow
  <2>2. StartCycle(p, jobs)
    BY <1>1 DEF Replay, Collect
  <2>3. Follows([proc[p] EXCEPT !.pc = "child", !.known = {}, !.cycle = jobs], proc[p])
    BY <2>1, AliveRow, FilesFollow DEF Quiet
  <2>4. proc' = [proc EXCEPT ![p] = [proc[p] EXCEPT !.pc = "child", !.known = {}, !.cycle = jobs]]
    BY <2>2, AliveRow DEF StartCycle, RunnersTyped, RunnerRow
  <2>5. Calm
    BY <2>2, UnchangedCalm DEF StartCycle, ledgerVars
  <2>6. MetadataMoves(p) /\ FilesTyped'
    BY <2>1, <2>2 DEF StartCycle, MetadataMoves, FilesTyped
  <2> QED  BY <2>3, <2>4, <2>5, <2>6 DEF RunnerEffects, RunnerMoves
<1>2. CASE CollectNothing(p, want)
  BY <1>2, AliveRow, WantFollows, OnlyRunner DEF CollectNothing, Want
<1>3. CASE StartChild(p)
  <2>1. proc[p].pc = "child" /\ proc[p].goal \in Goals
    BY <1>3, AliveRow DEF StartChild, SoundRow
  <2>2. PICK left \in Nat : left = Ledger!Available(proc[p].goal)
    BY <2>1, AvailableIsNatural
  <2>3. Follows([proc[p] EXCEPT !.pc = "apply", !.jobs = proc[p].cycle, !.left = left], proc[p])
    BY <2>1, AliveRow, PoolFollows
  <2>4. proc' = [proc EXCEPT ![p] = [proc[p] EXCEPT !.pc = "apply", !.jobs = proc[p].cycle,
                                                    !.left = left]]
    BY <1>3, <2>2, AliveRow DEF StartChild, RunnersTyped, RunnerRow
  <2> QED  BY <1>3, <2>3, <2>4, OnlyRunner DEF StartChild
<1> QED  BY <1>1, <1>2, <1>3

LEMMA TakeStep ==
    ASSUME GoalTable, RunnersTyped, FilesTyped, NEW p \in Procs, NEW t \in Tasks,
           \/ TakeUnclassified(p, t)
           \/ \E band \in RenderedBands : TakeClassified(p, t, band)
    PROVE RunnerEffects(p)
<1>1. Take(p, t) /\ UNCHANGED <<metadata, seen>>
  BY DEF TakeUnclassified, TakeClassified
<1>2. Calm
  BY UnchangedCalm, ObserveCalm DEF TakeUnclassified, TakeClassified, ledgerVars
<1>3. PICK row : row = [proc[p] EXCEPT !.jobs = proc[p].jobs \ {t},
                                       !.active = proc[p].active \cup {t}]
  OBVIOUS
<1>4. Follows(row, proc[p])
  BY <1>1, <1>3, AliveRow, TakeFollows DEF Take
<1>5. proc[p].pc = "apply" /\ proc[p].jobs \cup proc[p].active \subseteq Tasks
  BY <1>1, AliveRow DEF Take, RunnerRow
<1>6. proc' = [proc EXCEPT ![p] = row]
  BY <1>1, <1>3, AliveRow DEF Take, RunnersTyped, SoundRows, RunnerRow
<1> QED  BY <1>1, <1>2, <1>4, <1>6, OnlyRow

LEMMA RecordStep ==
    ASSUME GoalTable, RunnersTyped, FilesTyped, NEW p \in Procs, NEW t \in Tasks,
           NEW outcome \in Outcomes, Record(p, t, outcome)
    PROVE RunnerEffects(p)
<1>1. PICK row : row = [proc[p] EXCEPT !.pc = "record", !.active = proc[p].active \ {t},
                                       !.task = t, !.outcome = outcome]
  OBVIOUS
<1>2. Follows(row, proc[p])
  BY <1>1, AliveRow, RecordFollows DEF Record
<1>3. proc' = [proc EXCEPT ![p] = row] /\ UNCHANGED <<metadata, seen>>
  BY <1>1 DEF Record
<1>4. Calm
  BY ObserveCalm DEF Record
<1> QED  BY <1>2, <1>3, <1>4, OnlyRow

LEMMA TokenStep ==
    ASSUME GoalTable, RunnersTyped, FilesTyped, NEW p \in Procs, RecordToken(p)
    PROVE RunnerEffects(p)
<1>1. proc[p].pc = "record" /\ proc[p].goal \in Goals
  BY AliveRow DEF RecordToken, SoundRow
<1>2. Follows(Recorded(proc[p]), proc[p]) /\ Follows(AfterChild(proc[p]), proc[p])
  BY <1>1, AliveRow, RecordedFollows, AfterChildFollows
<1>3. Calm
  BY <1>1, ConfirmCalm, ReserveCalm, ReleaseCalm, UnchangedCalm DEF RecordToken, ledgerVars
<1>4. \/ proc' = [proc EXCEPT ![p] = Recorded(proc[p])]
      \/ proc' = [proc EXCEPT ![p] = AfterChild(proc[p])]
  BY DEF RecordToken
<1>5. UNCHANGED <<metadata, seen>>
  BY DEF RecordToken
<1> QED  BY <1>2, <1>3, <1>4, <1>5, OnlyRow

LEMMA AfterTheChild ==
    ASSUME GoalTable, RunnersTyped, FilesTyped, NEW p \in Procs,
           EndChild(p) \/ FinishChild(p) \/ Reread(p) \/ Judge(p) \/ Write(p) \/ Leave(p)
    PROVE RunnerEffects(p)
<1>1. CASE EndChild(p)
  <2>1. proc[p].pc = "apply" /\ proc[p].active = {}
    BY <1>1 DEF EndChild
  <2>2. PICK row : row = [proc[p] EXCEPT !.pc = "finish", !.jobs = {}]
    OBVIOUS
  <2>3. row \in RunnerRow /\ row.pc = "finish" /\ row.goal = proc[p].goal /\ row.active = {}
    <3>1. proc[p] \in RunnerRow
      BY AliveRow
    <3>2. row.pc = "finish" /\ row.goal = proc[p].goal /\ row.active = {}
      BY <2>1, <2>2, <3>1 DEF RunnerRow
    <3>3. row \in RunnerRow
      BY <2>2, <3>1 DEF RunnerRow, ChildPc
    <3> QED  BY <3>2, <3>3
  <2>4. Follows(row, proc[p]) /\ Follows(AfterChild(proc[p]), proc[p])
    BY <2>1, <2>3, AliveRow, AfterChildFollows DEF Follows, SoundRows, SoundRow, Quiet
  <2>5. proc' = [proc EXCEPT ![p] = row] \/ proc' = [proc EXCEPT ![p] = AfterChild(proc[p])]
    BY <1>1, <2>2 DEF EndChild
  <2> QED  BY <1>1, <2>4, <2>5, OnlyRunner DEF EndChild
<1>2. CASE FinishChild(p)
  <2>1. proc[p].pc = "finish" /\ proc[p].goal \in Goals
    BY <1>2, AliveRow DEF FinishChild, SoundRow
  <2>2. Calm
    BY <1>2, <2>1, StatusTyped DEF FinishChild
  <2> QED  BY <1>2, <2>1, <2>2, AliveRow, AfterChildFollows, OnlyRow DEF FinishChild
<1>3. CASE Reread(p)
  <2>1. PICK pc \in {"leave", "judge"} : GoTo(p, pc)
    BY <1>3 DEF Reread
  <2>2. Follows([proc[p] EXCEPT !.pc = pc], proc[p])
    BY <1>3, AliveRow, QuietFollows DEF Reread, Quiet
  <2>3. proc' = [proc EXCEPT ![p] = [proc[p] EXCEPT !.pc = pc]]
    BY <2>1 DEF GoTo
  <2> QED  BY <1>3, <2>2, <2>3, OnlyRunner DEF Reread
<1>4. CASE Judge(p)
  <2>1. PICK want \in {"waiting_for_human", "waiting_for_candidates"} : Want(p, want)
    BY <1>4 DEF Judge, Verdict
  <2> QED  BY <1>4, <2>1, AliveRow, WantFollows, OnlyRunner DEF Judge, Want
<1>5. CASE Write(p)
  <2>1. proc[p].pc = "write" /\ proc[p].goal \in Goals /\ proc[p].want # "cancelled"
    BY <1>5, AliveRow DEF Write, SoundRow, RunnerRow
  <2>2. Calm
    BY <1>5, <2>1, StatusTyped DEF Write
  <2>3. Follows([proc[p] EXCEPT !.pc = "leave"], proc[p])
    BY <2>1, AliveRow, QuietFollows DEF Quiet
  <2>4. proc' = [proc EXCEPT ![p] = [proc[p] EXCEPT !.pc = "leave"]]
    BY <1>5 DEF Write, GoTo
  <2> QED  BY <1>5, <2>2, <2>3, <2>4, OnlyRow DEF Write
<1>6. CASE Leave(p)
  <2>1. proc[p].pc = "leave" /\ proc[p].goal \in Goals
    BY <1>6, AliveRow DEF Leave, SoundRow
  <2>2. Follows(Dead, proc[p])
    BY DeadRow DEF Follows
  <2>3. Calm
    BY <1>6, UnchangedCalm DEF Leave, ledgerVars
  <2>4. MetadataMoves(p) /\ FilesTyped'
    BY <1>6, <2>1 DEF Leave, MetadataMoves, FilesTyped
  <2> QED  BY <1>6, <2>2, <2>3, <2>4 DEF Leave, RunnerEffects, RunnerMoves
<1> QED  BY <1>1, <1>2, <1>3, <1>4, <1>5, <1>6

LEMMA RunnerStepEffects ==
    ASSUME GoalTable, RunnersTyped, FilesTyped, NEW p \in Procs, RunnerStep(p)
    PROVE RunnerEffects(p)
<1>1. PICK want \in {"waiting_for_human", "waiting_for_candidates"} : TRUE
  OBVIOUS
<1>2. ASSUME NEW jobs \in SUBSET Tasks, Replay(p, jobs) \/ Collect(p, jobs)
      PROVE RunnerEffects(p)
  BY <1>1, <1>2, CycleStarts
<1>3. ASSUME NEW w \in {"waiting_for_human", "waiting_for_candidates"}, CollectNothing(p, w)
      PROVE RunnerEffects(p)
  BY <1>3, CycleStarts
<1>4. CASE StartChild(p)
  BY <1>1, <1>4, CycleStarts
<1>5. CASE Boot(p) \/ Activate(p) \/ Announce(p) \/ Check(p)
  BY <1>5, BeforeTheChild
<1>6. ASSUME NEW t \in Tasks,
             \/ TakeUnclassified(p, t)
             \/ \E band \in RenderedBands : TakeClassified(p, t, band)
             \/ \E outcome \in Outcomes : Record(p, t, outcome)
      PROVE RunnerEffects(p)
  BY <1>6, TakeStep, RecordStep
<1>7. CASE RecordToken(p)
  BY <1>7, TokenStep
<1>8. CASE EndChild(p) \/ FinishChild(p) \/ Reread(p) \/ Judge(p) \/ Write(p) \/ Leave(p)
  BY <1>8, AfterTheChild
<1> QED  BY <1>2, <1>3, <1>4, <1>5, <1>6, <1>7, <1>8 DEF RunnerStep

-----------------------------------------------------------------------------
\* The lists of steps a handler can have left, by their first step.

Ends == {<<>>,
         <<"cancelled">>,
         <<"cancelled", "create">>}
Forgets == {<<"forget">>,
            <<"forget", "cancelled">>,
            <<"forget", "cancelled", "create">>}
Kills == {<<"kill", "forget">>,
          <<"kill", "forget", "cancelled">>,
          <<"kill", "forget", "cancelled", "create">>}
Terms == {<<"term", "kill", "forget">>,
          <<"term", "kill", "forget", "cancelled">>,
          <<"term", "kill", "forget", "cancelled", "create">>}
Owns == {<<"own", "term", "kill", "forget">>,
         <<"own", "term", "kill", "forget", "cancelled">>,
         <<"own", "term", "kill", "forget", "cancelled", "create">>}
Files == {<<"file", "own", "term", "kill", "forget">>,
          <<"file", "own", "term", "kill", "forget", "cancelled">>,
          <<"file", "own", "term", "kill", "forget", "cancelled", "create">>,
          <<"file", "wake">>}
Looks == {<<"look", "file", "own", "term", "kill", "forget">>,
          <<"look", "file", "own", "term", "kill", "forget", "cancelled">>,
          <<"look", "file", "own", "term", "kill", "forget", "cancelled", "create">>,
          <<"look", "file", "wake">>}
Others == {<<"check", "spawn">>,
           <<"spawn">>,
           <<"wake">>,
           <<"create">>,
           <<"previous">>,
           <<"confirm">>,
           <<"release">>,
           <<"match">>,
           <<"activate", "look", "file", "wake">>,
           <<"approve", "activate", "look", "file", "wake">>,
           <<"inspect", "queue", "activate", "look", "file", "wake">>,
           <<"queue", "activate", "look", "file", "wake">>,
           <<"queue", "skip", "newest", "look", "file", "wake">>,
           <<"skip", "newest", "look", "file", "wake">>,
           <<"newest", "look", "file", "wake">>}
Todos == Ends \cup Forgets \cup Kills \cup Terms \cup Owns \cup Files \cup Looks \cup Others

\* What each list begins and goes on with.
LEMMA StopLists ==
    /\ \A s \in Ends : s = <<>> \/ (Head(s) = "cancelled" /\ Tail(s) \in {<<>>, <<"create">>})
    /\ \A s \in Forgets : s # <<>> /\ Head(s) = "forget" /\ Tail(s) \in Ends
    /\ \A s \in Kills : s # <<>> /\ Head(s) = "kill" /\ Tail(s) \in Forgets
    /\ \A s \in Terms : s # <<>> /\ Head(s) = "term" /\ Tail(s) \in Kills
    /\ \A s \in Owns : s # <<>> /\ Head(s) = "own" /\ Tail(s) \in Terms /\ Tail(Tail(Tail(s))) \in Forgets
    /\ \A s \in Files : s # <<>> /\ Head(s) = "file" /\ Tail(s) \in Owns \cup {<<"wake">>}
    /\ \A s \in Looks : s # <<>> /\ Head(s) = "look" /\ Tail(s) \in Files /\ Tail(Tail(s)) \in Owns \cup {<<"wake">>}
<1>1. \A s \in Ends : s = <<>> \/ (Head(s) = "cancelled" /\ Tail(s) \in {<<>>, <<"create">>})
  <2> SUFFICES ASSUME NEW s \in Ends
               PROVE s = <<>> \/ (Head(s) = "cancelled" /\ Tail(s) \in {<<>>, <<"create">>})
    OBVIOUS
  <2>1. CASE s = <<>>
    BY <2>1
  <2>2. CASE s = <<"cancelled">>
    BY <2>2
  <2>3. CASE s = <<"cancelled", "create">>
    BY <2>3
  <2> QED  BY <2>1, <2>2, <2>3, Zenon DEF Ends
<1>2. \A s \in Forgets : s # <<>> /\ Head(s) = "forget" /\ Tail(s) \in Ends
  <2>1. /\ <<"forget">> # <<>> /\ Head(<<"forget">>) = "forget"
        /\ Tail(<<"forget">>) = <<>>
    OBVIOUS
  <2>2. /\ <<"forget", "cancelled">> # <<>> /\ Head(<<"forget", "cancelled">>) = "forget"
        /\ Tail(<<"forget", "cancelled">>) = <<"cancelled">>
    OBVIOUS
  <2>3. /\ <<"forget", "cancelled", "create">> # <<>> /\ Head(<<"forget", "cancelled", "create">>) = "forget"
        /\ Tail(<<"forget", "cancelled", "create">>) = <<"cancelled", "create">>
    OBVIOUS
  <2> QED  BY <2>1, <2>2, <2>3, Zenon DEF Forgets, Ends
<1>3. \A s \in Kills : s # <<>> /\ Head(s) = "kill" /\ Tail(s) \in Forgets
  <2>1. /\ <<"kill", "forget">> # <<>> /\ Head(<<"kill", "forget">>) = "kill"
        /\ Tail(<<"kill", "forget">>) = <<"forget">>
    OBVIOUS
  <2>2. /\ <<"kill", "forget", "cancelled">> # <<>> /\ Head(<<"kill", "forget", "cancelled">>) = "kill"
        /\ Tail(<<"kill", "forget", "cancelled">>) = <<"forget", "cancelled">>
    OBVIOUS
  <2>3. /\ <<"kill", "forget", "cancelled", "create">> # <<>> /\ Head(<<"kill", "forget", "cancelled", "create">>) = "kill"
        /\ Tail(<<"kill", "forget", "cancelled", "create">>) = <<"forget", "cancelled", "create">>
    OBVIOUS
  <2> QED  BY <2>1, <2>2, <2>3, Zenon DEF Kills, Forgets
<1>4. \A s \in Terms : s # <<>> /\ Head(s) = "term" /\ Tail(s) \in Kills
  <2>1. /\ <<"term", "kill", "forget">> # <<>> /\ Head(<<"term", "kill", "forget">>) = "term"
        /\ Tail(<<"term", "kill", "forget">>) = <<"kill", "forget">>
    OBVIOUS
  <2>2. /\ <<"term", "kill", "forget", "cancelled">> # <<>> /\ Head(<<"term", "kill", "forget", "cancelled">>) = "term"
        /\ Tail(<<"term", "kill", "forget", "cancelled">>) = <<"kill", "forget", "cancelled">>
    OBVIOUS
  <2>3. /\ <<"term", "kill", "forget", "cancelled", "create">> # <<>> /\ Head(<<"term", "kill", "forget", "cancelled", "create">>) = "term"
        /\ Tail(<<"term", "kill", "forget", "cancelled", "create">>) = <<"kill", "forget", "cancelled", "create">>
    OBVIOUS
  <2> QED  BY <2>1, <2>2, <2>3, Zenon DEF Terms, Kills
<1>5. \A s \in Owns : s # <<>> /\ Head(s) = "own" /\ Tail(s) \in Terms /\ Tail(Tail(Tail(s))) \in Forgets
  <2>1. /\ <<"own", "term", "kill", "forget">> # <<>> /\ Head(<<"own", "term", "kill", "forget">>) = "own"
        /\ Tail(<<"own", "term", "kill", "forget">>) = <<"term", "kill", "forget">>
        /\ Tail(Tail(Tail(<<"own", "term", "kill", "forget">>))) = <<"forget">>
    OBVIOUS
  <2>2. /\ <<"own", "term", "kill", "forget", "cancelled">> # <<>> /\ Head(<<"own", "term", "kill", "forget", "cancelled">>) = "own"
        /\ Tail(<<"own", "term", "kill", "forget", "cancelled">>) = <<"term", "kill", "forget", "cancelled">>
        /\ Tail(Tail(Tail(<<"own", "term", "kill", "forget", "cancelled">>))) = <<"forget", "cancelled">>
    OBVIOUS
  <2>3. /\ <<"own", "term", "kill", "forget", "cancelled", "create">> # <<>> /\ Head(<<"own", "term", "kill", "forget", "cancelled", "create">>) = "own"
        /\ Tail(<<"own", "term", "kill", "forget", "cancelled", "create">>) = <<"term", "kill", "forget", "cancelled", "create">>
        /\ Tail(Tail(Tail(<<"own", "term", "kill", "forget", "cancelled", "create">>))) = <<"forget", "cancelled", "create">>
    OBVIOUS
  <2> QED  BY <2>1, <2>2, <2>3, Zenon DEF Owns, Terms, Forgets
<1>6. \A s \in Files : s # <<>> /\ Head(s) = "file" /\ Tail(s) \in Owns \cup {<<"wake">>}
  <2>1. /\ <<"file", "own", "term", "kill", "forget">> # <<>> /\ Head(<<"file", "own", "term", "kill", "forget">>) = "file"
        /\ Tail(<<"file", "own", "term", "kill", "forget">>) = <<"own", "term", "kill", "forget">>
    OBVIOUS
  <2>2. /\ <<"file", "own", "term", "kill", "forget", "cancelled">> # <<>> /\ Head(<<"file", "own", "term", "kill", "forget", "cancelled">>) = "file"
        /\ Tail(<<"file", "own", "term", "kill", "forget", "cancelled">>) = <<"own", "term", "kill", "forget", "cancelled">>
    OBVIOUS
  <2>3. /\ <<"file", "own", "term", "kill", "forget", "cancelled", "create">> # <<>> /\ Head(<<"file", "own", "term", "kill", "forget", "cancelled", "create">>) = "file"
        /\ Tail(<<"file", "own", "term", "kill", "forget", "cancelled", "create">>) = <<"own", "term", "kill", "forget", "cancelled", "create">>
    OBVIOUS
  <2>4. /\ <<"file", "wake">> # <<>> /\ Head(<<"file", "wake">>) = "file"
        /\ Tail(<<"file", "wake">>) = <<"wake">>
    OBVIOUS
  <2> QED  BY <2>1, <2>2, <2>3, <2>4, Zenon DEF Files, Owns
<1>7. \A s \in Looks : s # <<>> /\ Head(s) = "look" /\ Tail(s) \in Files /\ Tail(Tail(s)) \in Owns \cup {<<"wake">>}
  <2>1. /\ <<"look", "file", "own", "term", "kill", "forget">> # <<>> /\ Head(<<"look", "file", "own", "term", "kill", "forget">>) = "look"
        /\ Tail(<<"look", "file", "own", "term", "kill", "forget">>) = <<"file", "own", "term", "kill", "forget">>
        /\ Tail(Tail(<<"look", "file", "own", "term", "kill", "forget">>)) = <<"own", "term", "kill", "forget">>
    OBVIOUS
  <2>2. /\ <<"look", "file", "own", "term", "kill", "forget", "cancelled">> # <<>> /\ Head(<<"look", "file", "own", "term", "kill", "forget", "cancelled">>) = "look"
        /\ Tail(<<"look", "file", "own", "term", "kill", "forget", "cancelled">>) = <<"file", "own", "term", "kill", "forget", "cancelled">>
        /\ Tail(Tail(<<"look", "file", "own", "term", "kill", "forget", "cancelled">>)) = <<"own", "term", "kill", "forget", "cancelled">>
    OBVIOUS
  <2>3. /\ <<"look", "file", "own", "term", "kill", "forget", "cancelled", "create">> # <<>> /\ Head(<<"look", "file", "own", "term", "kill", "forget", "cancelled", "create">>) = "look"
        /\ Tail(<<"look", "file", "own", "term", "kill", "forget", "cancelled", "create">>) = <<"file", "own", "term", "kill", "forget", "cancelled", "create">>
        /\ Tail(Tail(<<"look", "file", "own", "term", "kill", "forget", "cancelled", "create">>)) = <<"own", "term", "kill", "forget", "cancelled", "create">>
    OBVIOUS
  <2>4. /\ <<"look", "file", "wake">> # <<>> /\ Head(<<"look", "file", "wake">>) = "look"
        /\ Tail(<<"look", "file", "wake">>) = <<"file", "wake">>
        /\ Tail(Tail(<<"look", "file", "wake">>)) = <<"wake">>
    OBVIOUS
  <2> QED  BY <2>1, <2>2, <2>3, <2>4, Zenon DEF Looks, Files, Owns
<1> QED  BY <1>1, <1>2, <1>3, <1>4, <1>5, <1>6, <1>7

LEMMA OtherLists ==
    ASSUME NEW s \in Others
    PROVE /\ s # <<>>
          /\ Head(s) \in {"check", "spawn", "wake", "create", "previous", "confirm", "release", "match",
                         "activate", "approve", "inspect", "queue", "skip", "newest"}
          /\ Head(s) = "check" => Tail(s) = <<"spawn">>
          /\ Head(s) = "spawn" => Tail(s) = <<>>
          /\ Head(s) = "wake" => Tail(s) = <<>>
          /\ Head(s) = "create" => Tail(s) = <<>>
          /\ Head(s) = "previous" => Tail(s) = <<>>
          /\ Head(s) = "confirm" => Tail(s) = <<>>
          /\ Head(s) = "release" => Tail(s) = <<>>
          /\ Head(s) = "match" => Tail(s) = <<>>
          /\ Head(s) = "activate" => Tail(s) = <<"look", "file", "wake">>
          /\ Head(s) = "approve" => Tail(s) = <<"activate", "look", "file", "wake">>
          /\ Head(s) = "inspect" => Tail(s) = <<"queue", "activate", "look", "file", "wake">>
          /\ Head(s) = "queue" => Tail(s) \in {<<"activate", "look", "file", "wake">>,
                                              <<"skip", "newest", "look", "file", "wake">>}
          /\ Head(s) = "skip" => Tail(s) = <<"newest", "look", "file", "wake">>
          /\ Head(s) = "newest" => Tail(s) = <<"look", "file", "wake">>
<1>1. CASE s = <<"check", "spawn">>
  BY <1>1
<1>2. CASE s = <<"spawn">>
  BY <1>2
<1>3. CASE s = <<"wake">>
  BY <1>3
<1>4. CASE s = <<"create">>
  BY <1>4
<1>5. CASE s = <<"previous">>
  BY <1>5
<1>6. CASE s = <<"confirm">>
  BY <1>6
<1>7. CASE s = <<"release">>
  BY <1>7
<1>8. CASE s = <<"match">>
  BY <1>8
<1>9. CASE s = <<"activate", "look", "file", "wake">>
  BY <1>9
<1>10. CASE s = <<"approve", "activate", "look", "file", "wake">>
  BY <1>10
<1>11. CASE s = <<"inspect", "queue", "activate", "look", "file", "wake">>
  BY <1>11
<1>12. CASE s = <<"queue", "activate", "look", "file", "wake">>
  BY <1>12
<1>13. CASE s = <<"queue", "skip", "newest", "look", "file", "wake">>
  BY <1>13
<1>14. CASE s = <<"skip", "newest", "look", "file", "wake">>
  BY <1>14
<1>15. CASE s = <<"newest", "look", "file", "wake">>
  BY <1>15
<1> QED  BY <1>1, <1>2, <1>3, <1>4, <1>5, <1>6, <1>7, <1>8, <1>9, <1>10, <1>11, <1>12, <1>13, <1>14, <1>15, Zenon DEF Others

\* A list goes on as a list: what is left after each step.
LEMMA TodoSteps ==
    ASSUME NEW s \in Todos, s # <<>>
    PROVE /\ Head(s) = "look" => Tail(s) \in Files /\ Tail(Tail(s)) \in Owns \cup {<<"wake">>}
          /\ Head(s) = "file" => Tail(s) \in Owns \cup {<<"wake">>}
          /\ Head(s) = "own" => Tail(s) \in Terms /\ Tail(Tail(Tail(s))) \in Forgets
          /\ Head(s) = "term" => Tail(s) \in Kills
          /\ Head(s) = "kill" => Tail(s) \in Forgets
          /\ Head(s) = "forget" => Tail(s) \in Ends
          /\ Head(s) = "cancelled" => Tail(s) \in {<<>>, <<"create">>}
          /\ Head(s) = "check" => Tail(s) = <<"spawn">>
          /\ Head(s) = "spawn" => Tail(s) = <<>>
          /\ Head(s) = "approve" => Tail(s) = <<"activate", "look", "file", "wake">>
          /\ Head(s) = "inspect" => Tail(s) = <<"queue", "activate", "look", "file", "wake">>
          /\ Head(s) = "queue" => Tail(s) \in {<<"activate", "look", "file", "wake">>,
                                               <<"skip", "newest", "look", "file", "wake">>}
          /\ Head(s) = "activate" => Tail(s) = <<"look", "file", "wake">>
          /\ Head(s) = "skip" => Tail(s) = <<"newest", "look", "file", "wake">>
          /\ Head(s) = "newest" => Tail(s) = <<"look", "file", "wake">>
<1>1. CASE s \in Others
  BY <1>1, OtherLists
<1>2. CASE s \in Looks
  BY <1>2, StopLists
<1>3. CASE s \in Files
  BY <1>3, StopLists
<1>4. CASE s \in Owns
  BY <1>4, StopLists
<1>5. CASE s \in Terms
  BY <1>5, StopLists
<1>6. CASE s \in Kills
  BY <1>6, StopLists
<1>7. CASE s \in Forgets
  BY <1>7, StopLists
<1>8. CASE s \in Ends
  BY <1>8, StopLists
<1> QED  BY <1>1, <1>2, <1>3, <1>4, <1>5, <1>6, <1>7, <1>8 DEF Todos

\* The lists a handler begins or goes on with as a whole.
LEMMA WholeLists ==
    /\ {<<>>, <<"wake">>, <<"create">>, <<"spawn">>, Launch, Wake, Stop} \subseteq Todos
    /\ {<<"look", "file", "own", "term", "kill", "forget", "cancelled">>,
        <<"look", "file", "own", "term", "kill", "forget", "cancelled", "create">>} \subseteq Looks
    /\ Looks \subseteq Todos
  BY Zenon DEF Launch, Wake, Stop, Todos, Ends, Looks, Others
LEMMA ReplayLists ==
    {<<"activate", "look", "file", "wake">>, <<"queue", "activate", "look", "file", "wake">>,
     <<"queue", "skip", "newest", "look", "file", "wake">>,
     <<"skip", "newest", "look", "file", "wake">>, <<"newest", "look", "file", "wake">>}
    \subseteq Others
  BY Zenon DEF Others
LEMMA OthersFirst ==
    /\ Launch # <<>> /\ Head(Launch) = "check"
    /\ Wake # <<>> /\ Head(Wake) = "look"
    /\ Stop # <<>> /\ Head(Stop) = "look"
    /\ Head(<<"wake">>) = "wake" /\ Head(<<"create">>) = "create" /\ Head(<<"spawn">>) = "spawn"
    /\ Head(<<"activate", "look", "file", "wake">>) = "activate"
    /\ Head(<<"queue", "activate", "look", "file", "wake">>) = "queue"
    /\ Head(<<"queue", "skip", "newest", "look", "file", "wake">>) = "queue"
    /\ Head(<<"skip", "newest", "look", "file", "wake">>) = "skip"
    /\ Head(<<"newest", "look", "file", "wake">>) = "newest"
  BY DEF Launch, Wake, Stop

\* The list of every kind of request.
LEMMA ProgramLists ==
    ASSUME NEW kind \in RequestKinds
    PROVE /\ Program(kind) \in Todos /\ Program(kind) # <<>>
          /\ Head(Program(kind)) \in {"previous", "check", "look", "confirm", "release",
                                      "approve", "inspect", "match"}
          /\ kind \notin {"start", "clear"} => Head(Program(kind)) \notin {"previous", "match"}
          /\ kind = "start" => Head(Program(kind)) = "previous"
          /\ kind = "clear" => Head(Program(kind)) = "match"
<1>1. CASE kind \in {"start", "confirm", "release", "clear"}
  <2>1. {<<"previous">>, <<"confirm">>, <<"release">>, <<"match">>} \subseteq Todos
    BY Zenon DEF Todos, Others
  <2>2. CASE kind = "start"
    BY <2>1, <2>2 DEF Program
  <2>3. CASE kind = "confirm"
    BY <2>1, <2>3 DEF Program
  <2>4. CASE kind = "release"
    BY <2>1, <2>4 DEF Program
  <2>5. CASE kind = "clear"
    BY <2>1, <2>5 DEF Program
  <2> QED  BY <1>1, <2>2, <2>3, <2>4, <2>5
<1>2. CASE kind = "resume"
  BY <1>2, WholeLists, OthersFirst DEF Program
<1>3. CASE kind = "cancel"
  BY <1>3, WholeLists, StopLists DEF Program
<1>4. CASE kind = "approve"
  <2>1. <<"approve", "activate", "look", "file", "wake">> \in Others
    BY Zenon DEF Others
  <2>2. Head(<<"approve", "activate", "look", "file", "wake">>) = "approve"
    OBVIOUS
  <2>3. Program(kind) = <<"approve", "activate", "look", "file", "wake">>
    BY <1>4 DEF Program
  <2> QED  BY <1>4, <2>1, <2>2, <2>3, OtherLists DEF Todos
<1>5. CASE kind = "retry"
  <2>1. <<"inspect", "queue", "activate", "look", "file", "wake">> \in Others
    BY Zenon DEF Others
  <2>2. Head(<<"inspect", "queue", "activate", "look", "file", "wake">>) = "inspect"
    OBVIOUS
  <2>3. Program(kind) = <<"inspect", "queue", "activate", "look", "file", "wake">>
    BY <1>5 DEF Program
  <2> QED  BY <1>5, <2>1, <2>2, <2>3, OtherLists DEF Todos
<1> QED  BY <1>1, <1>2, <1>3, <1>4, <1>5 DEF RequestKinds

-----------------------------------------------------------------------------
\* Handlers

\* Only these first steps are taken before the request has a goal.
Goalless == {"previous", "create", "match", "newest"}

ThreadRow == [kind : RequestKinds \cup {"none"}, todo : Todos, goal : Goals \cup {0},
              task : Tasks \cup {NoTask}, role : Roles \cup {"none"}, found : BOOLEAN,
              pid : Procs \cup {None}, owned : Procs \cup {None}, rest : SUBSET Tasks]
HasGoal(row) == row.todo # <<>> => Head(row.todo) \in Goalless \/ row.goal \in Goals
ThreadRows == {row \in ThreadRow : HasGoal(row)}
ThreadsTyped == thread \in [Threads -> ThreadRows]

TableTyped == tracked \in [Goals -> Procs \cup {None}]
Typed == GoalTable /\ RunnersTyped /\ FilesTyped /\ TableTyped /\ ThreadsTyped

\* The thread's row is what the handler made it, and idle when nothing is left.
Became(h, row) ==
    /\ ThreadsTyped'
    /\ thread'[h] = IF row.todo = <<>> THEN Idle ELSE row
    /\ \A k \in Threads \ {h} : thread'[k] = thread[k]

LEMMA IdleRow == Idle \in ThreadRows /\ Idle.todo = <<>>
  BY WholeLists DEF Idle, ThreadRows, ThreadRow, HasGoal

LEMMA ThreadParts ==
    ASSUME ThreadsTyped, NEW h \in Threads
    PROVE /\ thread[h] \in ThreadRow
          /\ thread[h].todo \in Todos
          /\ thread[h].todo # <<>> =>
               Head(thread[h].todo) \in Goalless \/ thread[h].goal \in Goals
  BY DEF ThreadsTyped, ThreadRows, ThreadRow, HasGoal

LEMMA BecomeTyped ==
    ASSUME ThreadsTyped, NEW h \in Threads, NEW row \in ThreadRow, HasGoal(row), Become(h, row)
    PROVE Became(h, row)
  BY IdleRow DEF ThreadsTyped, Become, Became, ThreadRows

LEMMA ContinueTyped ==
    ASSUME ThreadsTyped, NEW h \in Threads, NEW todo \in Todos,
           todo # <<>> => Head(todo) \in Goalless \/ thread[h].goal \in Goals,
           Continue(h, todo)
    PROVE /\ ThreadsTyped'
          /\ \A k \in Threads \ {h} : thread'[k] = thread[k]
          /\ thread'[h].todo = todo
          /\ todo # <<>> => /\ thread'[h].goal = thread[h].goal
                            /\ thread'[h].found = thread[h].found
                            /\ thread'[h].pid = thread[h].pid
                            /\ thread'[h].owned = thread[h].owned
<1>1. PICK row : row = [thread[h] EXCEPT !.todo = todo]
  OBVIOUS
<1>2. /\ row \in ThreadRow /\ row.todo = todo /\ row.goal = thread[h].goal
      /\ row.found = thread[h].found /\ row.pid = thread[h].pid /\ row.owned = thread[h].owned
  BY <1>1, ThreadParts DEF ThreadRow
<1>3. Became(h, row)
  BY <1>1, <1>2, BecomeTyped DEF Continue, HasGoal
<1> QED  BY <1>2, <1>3, IdleRow DEF Became

\* Steps that rely on what the steps before them found.
Careful == {"file", "own", "term", "kill", "forget", "cancelled", "spawn"}
Relies(h) == thread[h].todo # <<>> /\ Head(thread[h].todo) \in Careful

\* A step that leaves runners, files and table alone, and whose next step relies
\* on nothing.
Plain(h) ==
    /\ Calm /\ UNCHANGED <<proc, files, tracked>>
    /\ ThreadsTyped' /\ ~Relies(h)'

LEMMA FinishTyped ==
    ASSUME ThreadsTyped, NEW h \in Threads, Finish(h)
    PROVE ThreadsTyped' /\ ~Relies(h)'
  BY WholeLists, ContinueTyped DEF Finish, Relies

LEMMA PlainContinue ==
    ASSUME ThreadsTyped, NEW h \in Threads, NEW todo \in Todos, Continue(h, todo),
           todo # <<>> => /\ Head(todo) \notin Careful
                          /\ Head(todo) \in Goalless \/ thread[h].goal \in Goals
    PROVE ThreadsTyped' /\ ~Relies(h)'
  BY ContinueTyped DEF Relies

LEMMA PlainBecome ==
    ASSUME ThreadsTyped, NEW h \in Threads, NEW row \in ThreadRow, HasGoal(row), Become(h, row),
           row.todo # <<>> => Head(row.todo) \notin Careful
    PROVE ThreadsTyped' /\ ~Relies(h)'
  BY BecomeTyped, IdleRow DEF Became, Relies

LEMMA RequestMade ==
    ASSUME Typed, NEW h \in Threads, NEW kind \in RequestKinds, NEW g \in Goals \cup {0},
           NEW t \in Tasks \cup {NoTask}, NEW role \in Roles \cup {"none"},
           kind \notin {"start", "clear"} => g \in Goals,
           Request(h, kind, g, t, role)
    PROVE Plain(h)
<1>1. PICK row : row = [Idle EXCEPT !.kind = kind, !.todo = Program(kind), !.goal = g,
                                    !.task = t, !.role = role]
  OBVIOUS
<1>2. row \in ThreadRow /\ row.todo = Program(kind) /\ row.goal = g
  BY <1>1, IdleRow, ProgramLists DEF ThreadRows, ThreadRow, Idle
<1>3. HasGoal(row) /\ Head(row.todo) \notin Careful
  BY <1>2, ProgramLists DEF HasGoal, Goalless, Careful
<1>4. Become(h, row) /\ UNCHANGED <<ledgerVars, proc, files, tracked>>
  BY <1>1 DEF Request
<1>5. Calm
  BY <1>4, UnchangedCalm DEF Typed, ledgerVars
<1>6. ThreadsTyped' /\ ~Relies(h)'
  BY <1>2, <1>3, <1>4, PlainBecome DEF Typed
<1> QED  BY <1>4, <1>5, <1>6 DEF Plain

LEMMA RequestPlain ==
    ASSUME Typed, NEW h \in Threads, UserRequest(h)
    PROVE Plain(h)
<1>1. Requests \subseteq RequestKinds
  BY RequestsAssumption DEF RequestsAssumption
<1>2. CASE GoalRequest(h)
  <2>1. PICK kind \in {"resume", "cancel"}, g \in Goals : Request(h, kind, g, NoTask, "none")
    BY <1>2 DEF GoalRequest
  <2>2. kind \in RequestKinds
    BY DEF RequestKinds
  <2> QED  BY <2>1, <2>2, RequestMade
<1>3. CASE ItemRequest(h)
  <2>1. PICK kind \in {"confirm", "release", "approve", "retry"}, g \in Goals, t \in Tasks :
          Request(h, kind, g, t, "none")
    BY <1>3 DEF ItemRequest
  <2>2. kind \in RequestKinds
    BY DEF RequestKinds
  <2> QED  BY <2>1, <2>2, RequestMade
<1>4. CASE StartRequest(h)
  BY <1>1, <1>4, RequestMade DEF StartRequest, Request
<1>5. CASE ClearRequest(h)
  BY <1>1, <1>5, RequestMade DEF ClearRequest, Request
<1> QED  BY <1>2, <1>3, <1>4, <1>5 DEF UserRequest

\* A list that begins with step At(h, step): its goal, and what is left.
LEMMA AtStep ==
    ASSUME Typed, NEW h \in Threads, NEW step, At(h, step)
    PROVE /\ thread[h].todo \in Todos /\ thread[h].todo # <<>> /\ Head(thread[h].todo) = step
          /\ step \notin Goalless => thread[h].goal \in Goals
          /\ thread[h] \in ThreadRow
  BY ThreadParts DEF Typed, At

LEMMA LedgerHandlers ==
    ASSUME Typed, NEW h \in Threads,
           ReviveGoal(h) \/ Queue(h) \/ ApproveReview(h) \/ Inspect(h)
    PROVE Plain(h)
<1>1. CASE ReviveGoal(h)
  <2>1. thread[h].goal \in Goals /\ Rest(h) = <<"look", "file", "wake">>
    <3>1. At(h, "activate")
      BY <1>1 DEF ReviveGoal
    <3>2. /\ thread[h].todo \in Todos /\ thread[h].todo # <<>>
          /\ Head(thread[h].todo) = "activate" /\ thread[h].goal \in Goals
      BY <3>1, AtStep DEF Goalless
    <3>3. PICK s : s = thread[h].todo
      OBVIOUS
    <3>4. s \in Todos /\ s # <<>> /\ Head(s) = "activate"
      BY <3>2, <3>3
    <3> QED  BY <3>2, <3>3, <3>4, TodoSteps DEF Rest
  <2>2. Calm
    BY <1>1, <2>1, StatusTyped DEF ReviveGoal, Typed
  <2>3. ThreadsTyped' /\ ~Relies(h)'
    BY <1>1, <2>1, WholeLists, OthersFirst, PlainContinue
    DEF ReviveGoal, Proceed, Typed, Careful, Wake
  <2> QED  BY <1>1, <2>2, <2>3 DEF ReviveGoal, Plain
<1>2. CASE Queue(h)
  <2>1. /\ thread[h].goal \in Goals
        /\ Rest(h) \in {<<"activate", "look", "file", "wake">>,
                        <<"skip", "newest", "look", "file", "wake">>}
    <3>1. At(h, "queue")
      BY <1>2 DEF Queue
    <3>2. /\ thread[h].todo \in Todos /\ thread[h].todo # <<>>
          /\ Head(thread[h].todo) = "queue" /\ thread[h].goal \in Goals
      BY <3>1, AtStep DEF Goalless
    <3>3. PICK s : s = thread[h].todo
      OBVIOUS
    <3>4. s \in Todos /\ s # <<>> /\ Head(s) = "queue"
      BY <3>2, <3>3
    <3> QED  BY <3>2, <3>3, <3>4, TodoSteps DEF Rest
  <2>2. Calm
    BY <1>2, <2>1, ObserveCalm DEF Queue, Typed
  <2>3. Rest(h) \in Todos /\ Head(Rest(h)) \in {"activate", "skip"}
    BY <2>1, ReplayLists, OthersFirst DEF Todos
  <2>4. ThreadsTyped' /\ ~Relies(h)'
    BY <1>2, <2>1, <2>3, PlainContinue DEF Queue, Proceed, Typed, Careful
  <2> QED  BY <1>2, <2>2, <2>4 DEF Queue, Plain
<1>3. CASE ApproveReview(h)
  <2>1. thread[h].goal \in Goals /\ Rest(h) = <<"activate", "look", "file", "wake">>
    <3>1. At(h, "approve")
      BY <1>3 DEF ApproveReview
    <3>2. /\ thread[h].todo \in Todos /\ thread[h].todo # <<>>
          /\ Head(thread[h].todo) = "approve" /\ thread[h].goal \in Goals
      BY <3>1, AtStep DEF Goalless
    <3>3. PICK s : s = thread[h].todo
      OBVIOUS
    <3>4. s \in Todos /\ s # <<>> /\ Head(s) = "approve"
      BY <3>2, <3>3
    <3> QED  BY <3>2, <3>3, <3>4, TodoSteps DEF Rest
  <2>2. Rest(h) \in Todos /\ Head(Rest(h)) = "activate"
    BY <2>1, ReplayLists, OthersFirst DEF Todos
  <2>3. Calm
    BY <1>3, UnchangedCalm DEF ApproveReview, Typed, ledgerVars, Ledger!ApproveHumanReview
  <2>4. Proceed(h) \/ Finish(h)
    BY <1>3 DEF ApproveReview
  <2>5. ThreadsTyped' /\ ~Relies(h)'
    BY <2>1, <2>2, <2>4, PlainContinue, FinishTyped DEF Proceed, Typed, Careful
  <2> QED  BY <1>3, <2>3, <2>5 DEF ApproveReview, Plain
<1>4. CASE Inspect(h)
  <2>1. thread[h].goal \in Goals /\ Rest(h) = <<"queue", "activate", "look", "file", "wake">>
    <3>1. At(h, "inspect")
      BY <1>4 DEF Inspect
    <3>2. /\ thread[h].todo \in Todos /\ thread[h].todo # <<>>
          /\ Head(thread[h].todo) = "inspect" /\ thread[h].goal \in Goals
      BY <3>1, AtStep DEF Goalless
    <3>3. PICK s : s = thread[h].todo
      OBVIOUS
    <3>4. s \in Todos /\ s # <<>> /\ Head(s) = "inspect"
      BY <3>2, <3>3
    <3> QED  BY <3>2, <3>3, <3>4, TodoSteps DEF Rest
  <2>2. Rest(h) \in Todos /\ Head(Rest(h)) = "queue"
    BY <2>1, ReplayLists, OthersFirst DEF Todos
  <2>3. Calm
    BY <1>4, UnchangedCalm DEF Inspect, Typed, ledgerVars
  <2>4. Proceed(h) \/ Finish(h)
    BY <1>4 DEF Inspect
  <2>5. ThreadsTyped' /\ ~Relies(h)'
    BY <2>1, <2>2, <2>4, PlainContinue, FinishTyped DEF Proceed, Typed, Careful
  <2> QED  BY <1>4, <2>3, <2>5 DEF Inspect, Plain
<1> QED  BY <1>1, <1>2, <1>3, <1>4

LEMMA TokenHandlers ==
    ASSUME Typed, NEW h \in Threads, ConfirmItem(h) \/ ReleaseItem(h)
    PROVE Plain(h)
<1>1. thread[h].goal \in Goals
  BY AtStep DEF ConfirmItem, ReleaseItem, Goalless
<1>2. Calm
  BY <1>1, ConfirmCalm, ReleaseCalm, UnchangedCalm DEF ConfirmItem, ReleaseItem, Typed, ledgerVars
<1>3. \E todo \in {Stop, Wake, <<>>} : Continue(h, todo)
  BY DEF ConfirmItem, ReleaseItem, AfterToken, Finish
<1>4. ThreadsTyped' /\ ~Relies(h)'
  BY <1>1, <1>3, WholeLists, OthersFirst, PlainContinue DEF Typed, Careful
<1> QED  BY <1>2, <1>4 DEF Plain, ConfirmItem, ReleaseItem

LEMMA GateHandlers ==
    ASSUME Typed, NEW h \in Threads, Match(h) \/ SkipDuplicates(h) \/ Newest(h)
    PROVE Plain(h)
<1>1. thread[h] \in ThreadRow
  BY ThreadParts DEF Typed
<1>2. Calm
  BY UnchangedCalm, ObserveCalm DEF Match, SkipDuplicates, Newest, Typed, ledgerVars
<1>3. UNCHANGED <<proc, files, tracked>>
  BY DEF Match, SkipDuplicates, Newest
<1>4. CASE Match(h)
  <2>1. ASSUME NEW g \in Goals, NEW t \in Tasks,
               Become(h, [thread[h] EXCEPT !.goal = g, !.task = t,
                            !.rest = Matches(g, thread[h].role) \ {t},
                            !.todo = <<"queue", "skip", "newest", "look", "file", "wake">>])
        PROVE ThreadsTyped' /\ ~Relies(h)'
    <3>1. PICK row : row = [thread[h] EXCEPT !.goal = g, !.task = t,
                              !.rest = Matches(g, thread[h].role) \ {t},
                              !.todo = <<"queue", "skip", "newest", "look", "file", "wake">>]
      OBVIOUS
    <3>2. <<"queue", "skip", "newest", "look", "file", "wake">> \in Todos
      BY ReplayLists DEF Todos
    <3>3. /\ row \in ThreadRow /\ row.goal = g
          /\ row.todo = <<"queue", "skip", "newest", "look", "file", "wake">>
      BY <1>1, <3>1, <3>2 DEF ThreadRow, Matches
    <3>4. HasGoal(row) /\ Head(row.todo) \notin Careful
      BY <3>3, OthersFirst DEF HasGoal, Careful
    <3> QED  BY <2>1, <3>1, <3>3, <3>4, PlainBecome DEF Typed
  <2>2. ASSUME Continue(h, <<"newest", "look", "file", "wake">>)
        PROVE ThreadsTyped' /\ ~Relies(h)'
    BY <2>2, ReplayLists, OthersFirst, PlainContinue DEF Typed, Careful, Goalless, Todos
  <2>3. ThreadsTyped' /\ ~Relies(h)'
    BY <1>4, <2>1, <2>2 DEF Match
  <2> QED  BY <1>2, <1>3, <2>3 DEF Plain
<1>5. CASE SkipDuplicates(h)
  <2>1. thread[h].goal \in Goals /\ Rest(h) = <<"newest", "look", "file", "wake">>
    BY <1>5, AtStep, TodoSteps DEF SkipDuplicates, Goalless, Rest
  <2>2. ASSUME NEW t, Become(h, [thread[h] EXCEPT !.rest = @ \ {t}])
        PROVE ThreadsTyped' /\ ~Relies(h)'
    <3>1. PICK row : row = [thread[h] EXCEPT !.rest = @ \ {t}]
      OBVIOUS
    <3>2. row \in ThreadRow /\ row.goal = thread[h].goal /\ row.todo = thread[h].todo
      BY <1>1, <3>1 DEF ThreadRow
    <3>3. HasGoal(row) /\ Head(row.todo) \notin Careful
      BY <1>5, <2>1, <3>2 DEF SkipDuplicates, At, HasGoal, Careful
    <3> QED  BY <2>2, <3>1, <3>2, <3>3, PlainBecome DEF Typed
  <2>3. ASSUME Proceed(h) PROVE ThreadsTyped' /\ ~Relies(h)'
    BY <2>1, <2>3, ReplayLists, OthersFirst, PlainContinue DEF Typed, Careful, Proceed, Todos
  <2>4. ThreadsTyped' /\ ~Relies(h)'
    BY <1>5, <2>2, <2>3 DEF SkipDuplicates
  <2> QED  BY <1>2, <1>3, <2>4 DEF Plain
<1>6. CASE Newest(h)
  <2>1. Rest(h) = <<"look", "file", "wake">>
    BY <1>6, AtStep, TodoSteps DEF Newest, Rest
  <2>2. ASSUME NEW g \in Goals, Become(h, [thread[h] EXCEPT !.goal = g, !.todo = Rest(h)])
        PROVE ThreadsTyped' /\ ~Relies(h)'
    <3>1. PICK row : row = [thread[h] EXCEPT !.goal = g, !.todo = Rest(h)]
      OBVIOUS
    <3>2. row \in ThreadRow /\ row.goal = g /\ row.todo = Wake
      BY <1>1, <2>1, <3>1, WholeLists DEF ThreadRow, Wake
    <3>3. HasGoal(row) /\ Head(row.todo) \notin Careful
      BY <3>2, OthersFirst DEF HasGoal, Careful
    <3> QED  BY <2>2, <3>1, <3>2, <3>3, PlainBecome DEF Typed
  <2>3. ThreadsTyped' /\ ~Relies(h)'
    BY <1>6, <2>2, FinishTyped DEF Newest, Typed
  <2> QED  BY <1>2, <1>3, <2>3 DEF Plain
<1> QED  BY <1>4, <1>5, <1>6

\* No runner is revived, and none changes its goal.
ProcsFollow == RunnersTyped' /\ \A p \in Procs : Follows(proc'[p], proc[p])

LEMMA SameProcsFollow == ASSUME RunnersTyped, UNCHANGED proc PROVE ProcsFollow
  BY DEF RunnersTyped, ProcsFollow, Follows

LEMMA OneRowFollows ==
    ASSUME RunnersTyped, NEW p \in Procs \cup {None}, NEW row,
           p \in Procs => Follows(row, proc[p]), proc' = [proc EXCEPT ![p] = row]
    PROVE ProcsFollow
<1>1. CASE p \in Procs
  BY <1>1 DEF RunnersTyped, ProcsFollow, Follows
<1>2. CASE p \notin Procs
  BY <1>2, SameProcsFollow DEF RunnersTyped
<1> QED  BY <1>1, <1>2

LEMMA SigtermFollows ==
    ASSUME NEW old \in SoundRows, NEW row \in AfterSigterm(old)
    PROVE Follows(row, old)
<1>1. CASE row = old
  BY <1>1 DEF Follows
<1>2. CASE row = Dead
  BY <1>2, DeadRow DEF Follows
<1>3. CASE row = AfterChild(old) /\ old.pc \in ChildPc
  BY <1>3, AfterChildFollows DEF ChildPc
<1> QED  BY <1>1, <1>2, <1>3 DEF AfterSigterm

LEMMA RunnersShrink ==
    ASSUME ProcsFollow, NEW g
    PROVE RunnersOf(g)' \subseteq RunnersOf(g)
  BY DEF ProcsFollow, Follows, RunnersOf, Alive

LEMMA PlainTyped == ASSUME Typed, NEW h \in Threads, Plain(h) PROVE Typed'
  BY DEF Typed, Plain, Calm, GoalTable, RunnersTyped, FilesTyped, TableTyped, files

LEMMA CheckStep ==
    ASSUME Typed, NEW h \in Threads, CheckLaunch(h)
    PROVE /\ Calm /\ UNCHANGED <<proc, files, tracked>> /\ ThreadsTyped'
          /\ \/ ~Relies(h)'
             \/ /\ thread'[h].todo = <<"spawn">>
                /\ goal'[thread'[h].goal].status # "cancelled"
<1>1. thread[h].goal \in Goals /\ Rest(h) = <<"spawn">>
  BY AtStep, TodoSteps DEF CheckLaunch, Goalless, Rest
<1>2. Calm
  BY UnchangedCalm DEF CheckLaunch, Typed, ledgerVars
<1>3. CASE Finish(h)
  BY <1>2, <1>3, FinishTyped DEF CheckLaunch, Typed
<1>4. CASE goal[thread[h].goal].status # "cancelled" /\ Continue(h, <<"spawn">>)
  <2>1. /\ ThreadsTyped' /\ thread'[h].todo = <<"spawn">>
        /\ thread'[h].goal = thread[h].goal
    BY <1>1, <1>4, WholeLists, ContinueTyped DEF Typed
  <2> QED  BY <1>2, <1>4, <2>1 DEF CheckLaunch, ledgerVars
<1> QED  BY <1>1, <1>3, <1>4 DEF CheckLaunch, Proceed

LEMMA WakeStep == ASSUME Typed, NEW h \in Threads, WakeRunner(h) PROVE Plain(h)
<1>1. PICK row : row = [thread[h] EXCEPT !.found = FALSE, !.pid = None,
                          !.todo = IF thread[h].found THEN <<>> ELSE Launch]
  OBVIOUS
<1>2. thread[h] \in ThreadRow /\ thread[h].goal \in Goals
  BY AtStep DEF WakeRunner, Goalless
<1>3. row \in ThreadRow /\ row.goal = thread[h].goal /\ row.todo \in {<<>>, Launch}
  BY <1>1, <1>2, WholeLists DEF ThreadRow
<1>4. HasGoal(row) /\ (row.todo # <<>> => Head(row.todo) \notin Careful)
  BY <1>2, <1>3, OthersFirst DEF HasGoal, Careful
<1>5. ThreadsTyped' /\ ~Relies(h)'
  BY <1>1, <1>3, <1>4, PlainBecome DEF WakeRunner, Typed
<1>6. Calm
  BY UnchangedCalm DEF WakeRunner, Typed, ledgerVars
<1> QED  BY <1>5, <1>6 DEF WakeRunner, Plain

LEMMA PreviousStep == ASSUME Typed, NEW h \in Threads, Previous(h) PROVE Plain(h)
<1> DEFINE stop == <<"look", "file", "own", "term", "kill", "forget", "cancelled", "create">>
<1>1. thread[h] \in ThreadRow
  BY AtStep DEF Previous
<1>2. stop \in Todos /\ stop # <<>> /\ Head(stop) = "look"
  BY WholeLists, StopLists
<1> HIDE DEF stop
<1>3. ASSUME NEW g \in Goals, Become(h, [thread[h] EXCEPT !.goal = g, !.todo = stop])
      PROVE ThreadsTyped' /\ ~Relies(h)'
  <2>1. PICK row : row = [thread[h] EXCEPT !.goal = g, !.todo = stop]
    OBVIOUS
  <2>2. row \in ThreadRow /\ row.goal = g /\ row.todo = stop
    BY <1>1, <1>2, <2>1 DEF ThreadRow
  <2> QED  BY <1>2, <1>3, <2>1, <2>2, PlainBecome DEF Typed, HasGoal, Careful
<1>4. ASSUME Continue(h, <<"create">>) PROVE ThreadsTyped' /\ ~Relies(h)'
  BY <1>4, WholeLists, OthersFirst, PlainContinue DEF Typed, Careful, Goalless
<1>5. ThreadsTyped' /\ ~Relies(h)'
  BY <1>3, <1>4 DEF Previous, stop
<1>6. Calm
  BY UnchangedCalm DEF Previous, Typed, ledgerVars
<1> QED  BY <1>5, <1>6 DEF Previous, Plain

LEMMA CreateStep ==
    ASSUME Typed, NEW h \in Threads, CreateGoal(h)
    PROVE /\ GoalTable' /\ UNCHANGED <<proc, files, tracked>>
          /\ ThreadsTyped' /\ ~Relies(h)'
          /\ Calm \/ Superseding
<1>1. thread[h] \in ThreadRow
  BY AtStep DEF CreateGoal
<1>2. CASE Finish(h) /\ UNCHANGED ledgerVars
  BY <1>2, FinishTyped, UnchangedCalm DEF CreateGoal, Typed, Calm, ledgerVars
<1>3. ASSUME NEW g \in Goals, NEW plan \in Plans, Ledger!Create(g, plan),
             Become(h, [thread[h] EXCEPT !.goal = g, !.todo = Launch])
      PROVE GoalTable' /\ ThreadsTyped' /\ ~Relies(h)' /\ Superseding
  <2>1. PICK row : row = [thread[h] EXCEPT !.goal = g, !.todo = Launch]
    OBVIOUS
  <2>2. row \in ThreadRow /\ row.goal = g /\ row.todo = Launch
    BY <1>1, <2>1, WholeLists DEF ThreadRow
  <2>3. ThreadsTyped' /\ ~Relies(h)'
    BY <1>3, <2>1, <2>2, OthersFirst, PlainBecome DEF Typed, HasGoal, Careful
  <2>4. GoalTable' /\ goal'[g].status = "active"
    BY <1>3, CreateTyped DEF Typed
  <2>5. Superseding
    BY <1>3, <2>4 DEF Superseding, Ledger!Create, Ledger!Exists
  <2> QED  BY <2>3, <2>4, <2>5
<1> QED  BY <1>2, <1>3 DEF CreateGoal

LEMMA SpawnStep ==
    ASSUME Typed, NEW h \in Threads, Spawn(h)
    PROVE /\ Calm /\ RunnersTyped' /\ FilesTyped' /\ TableTyped' /\ UNCHANGED <<ledgerVars, seen>>
          /\ ThreadsTyped' /\ ~Relies(h)'
<1>1. thread[h].goal \in Goals /\ Rest(h) = <<>>
  BY AtStep, TodoSteps DEF Spawn, Goalless, Rest
<1>2. ThreadsTyped' /\ ~Relies(h)'
  BY <1>1, WholeLists, PlainContinue DEF Spawn, Proceed, Typed
<1>3. Calm
  BY UnchangedCalm DEF Spawn, Typed, ledgerVars
<1>4. ASSUME NEW p \in Procs,
             proc' = [proc EXCEPT ![p] = [Dead EXCEPT !.pc = "boot", !.goal = thread[h].goal]]
      PROVE RunnersTyped'
  <2>1. PICK row : row = [Dead EXCEPT !.pc = "boot", !.goal = thread[h].goal]
    OBVIOUS
  <2>2. row \in RunnerRow /\ row.pc = "boot" /\ row.goal \in Goals /\ row.active = {}
    BY <1>1, <2>1, DeadRow DEF SoundRows, RunnerRow, Dead
  <2>3. row \in SoundRows
    BY <2>2 DEF SoundRows, SoundRow
  <2> QED  BY <1>4, <2>1, <2>3 DEF Typed, RunnersTyped
<1>5. RunnersTyped' /\ FilesTyped' /\ TableTyped'
  BY <1>1, <1>4 DEF Spawn, Typed, RunnersTyped, FilesTyped, TableTyped
<1> QED  BY <1>2, <1>3, <1>5 DEF Spawn

\* The answer of process_status is taken to the step after it.
LEMMA TableStep ==
    ASSUME Typed, NEW h \in Threads, LookAtTable(h)
    PROVE /\ Calm /\ UNCHANGED <<proc, files>> /\ TableTyped' /\ ThreadsTyped'
          /\ thread'[h].goal = thread[h].goal /\ thread[h].goal \in Goals
          /\ \/ /\ tracked[thread[h].goal] = None /\ UNCHANGED tracked
                /\ thread'[h].todo \in Files
             \/ /\ tracked[thread[h].goal] # None
                /\ tracked' = IF Alive(tracked[thread[h].goal]) THEN tracked
                              ELSE [tracked EXCEPT ![thread[h].goal] = None]
                /\ thread'[h].todo \in Owns \cup {<<"wake">>}
                /\ thread'[h].found = Alive(tracked[thread[h].goal])
                /\ thread'[h].pid = tracked[thread[h].goal]
<1>1. /\ thread[h] \in ThreadRow /\ thread[h].goal \in Goals
      /\ Rest(h) \in Files /\ Tail(Rest(h)) \in Owns \cup {<<"wake">>}
  BY AtStep, TodoSteps DEF LookAtTable, Goalless, Rest
<1>2. /\ \A s \in Files : s \in Todos /\ s # <<>>
      /\ \A s \in Owns \cup {<<"wake">>} : s \in Todos /\ s # <<>>
  BY StopLists, WholeLists DEF Todos
<1>3. Calm
  BY UnchangedCalm DEF LookAtTable, Typed, ledgerVars
<1>4. CASE tracked[thread[h].goal] = None
  <2>1. Continue(h, Rest(h))
    BY <1>4 DEF LookAtTable, Proceed
  <2>2. ThreadsTyped' /\ thread'[h].todo = Rest(h) /\ thread'[h].goal = thread[h].goal
    BY <1>1, <1>2, <2>1, ContinueTyped DEF Typed
  <2>3. UNCHANGED tracked
    BY <1>4 DEF LookAtTable
  <2> QED  BY <1>1, <1>3, <1>4, <2>2, <2>3 DEF LookAtTable, Typed, TableTyped
<1>5. CASE tracked[thread[h].goal] # None
  <2>1. PICK found \in BOOLEAN, p \in Procs \cup {None} :
          found = Alive(tracked[thread[h].goal]) /\ p = tracked[thread[h].goal]
    BY <1>1 DEF Typed, TableTyped, Alive
  <2>2. PICK row : row = [thread[h] EXCEPT !.todo = Tail(Rest(h)), !.found = found, !.pid = p]
    OBVIOUS
  <2>3. /\ row \in ThreadRow /\ row.goal = thread[h].goal /\ row.todo = Tail(Rest(h))
        /\ row.found = found /\ row.pid = p
    BY <1>1, <1>2, <2>2 DEF ThreadRow
  <2>4. Become(h, row)
    BY <1>5, <2>1, <2>2 DEF LookAtTable
  <2>5. ThreadsTyped' /\ thread'[h] = row
    BY <1>1, <1>2, <2>3, <2>4, BecomeTyped DEF Typed, HasGoal, Became
  <2>6. tracked' = IF found THEN tracked ELSE [tracked EXCEPT ![thread[h].goal] = None]
    BY <1>5, <2>1 DEF LookAtTable
  <2>7. TableTyped'
    BY <1>1, <2>6 DEF Typed, TableTyped
  <2> QED  BY <1>1, <1>3, <1>5, <2>1, <2>3, <2>5, <2>6, <2>7 DEF LookAtTable
<1> QED  BY <1>4, <1>5

LEMMA FileStep ==
    ASSUME Typed, NEW h \in Threads, LookAtFile(h)
    PROVE /\ Calm /\ UNCHANGED <<proc, files, tracked>> /\ ThreadsTyped'
          /\ thread'[h].goal = thread[h].goal /\ thread[h].goal \in Goals
          /\ thread'[h].todo \in Owns \cup {<<"wake">>}
          /\ thread'[h].found = Running(metadata[thread[h].goal])
<1>1. /\ thread[h] \in ThreadRow /\ thread[h].goal \in Goals
      /\ Rest(h) \in Owns \cup {<<"wake">>}
  BY AtStep, TodoSteps DEF LookAtFile, Goalless, Rest
<1>2. Rest(h) \in Todos /\ Rest(h) # <<>>
  BY <1>1, StopLists, WholeLists DEF Todos
<1>3. Calm
  BY UnchangedCalm DEF LookAtFile, Typed, ledgerVars
<1>4. PICK found \in BOOLEAN, p \in Procs \cup {None} :
        /\ found = Running(metadata[thread[h].goal])
        /\ p = IF found THEN metadata[thread[h].goal] ELSE None
  BY <1>1 DEF Typed, FilesTyped, Running
<1>5. PICK row : row = [thread[h] EXCEPT !.todo = Rest(h), !.found = found, !.pid = p]
  OBVIOUS
<1>6. /\ row \in ThreadRow /\ row.goal = thread[h].goal /\ row.todo = Rest(h)
      /\ row.found = found
  BY <1>1, <1>2, <1>5 DEF ThreadRow
<1>7. Become(h, row)
  BY <1>4, <1>5 DEF LookAtFile
<1>8. ThreadsTyped' /\ thread'[h] = row
  BY <1>1, <1>2, <1>6, <1>7, BecomeTyped DEF Typed, HasGoal, Became
<1> QED  BY <1>1, <1>3, <1>4, <1>6, <1>8 DEF LookAtFile

LEMMA OwnStep ==
    ASSUME Typed, NEW h \in Threads, OwnProcess(h)
    PROVE /\ Calm /\ UNCHANGED <<proc, files, tracked>> /\ ThreadsTyped'
          /\ thread'[h].goal = thread[h].goal /\ thread[h].goal \in Goals
          /\ \/ /\ thread[h].found /\ thread'[h].todo \in Terms
                /\ thread'[h].pid = thread[h].pid
                /\ thread'[h].owned = tracked[thread[h].goal]
             \/ ~thread[h].found /\ thread'[h].todo \in Forgets
<1>1. /\ thread[h] \in ThreadRow /\ thread[h].goal \in Goals
      /\ Rest(h) \in Terms /\ Tail(Tail(Rest(h))) \in Forgets
  BY AtStep, TodoSteps DEF OwnProcess, Goalless, Rest
<1>2. \A s \in Terms \cup Forgets : s \in Todos /\ s # <<>>
  BY StopLists DEF Todos
<1>3. Calm
  BY UnchangedCalm DEF OwnProcess, Typed, ledgerVars
<1>4. CASE thread[h].found
  <2>1. PICK p \in Procs \cup {None} : p = tracked[thread[h].goal]
    BY <1>1 DEF Typed, TableTyped
  <2>2. PICK row : row = [thread[h] EXCEPT !.todo = Rest(h), !.owned = p]
    OBVIOUS
  <2>3. /\ row \in ThreadRow /\ row.goal = thread[h].goal /\ row.todo = Rest(h)
        /\ row.owned = p /\ row.pid = thread[h].pid
    BY <1>1, <1>2, <2>2 DEF ThreadRow
  <2>4. Become(h, row)
    BY <1>4, <2>1, <2>2 DEF OwnProcess
  <2>5. ThreadsTyped' /\ thread'[h] = row
    BY <1>1, <1>2, <2>3, <2>4, BecomeTyped DEF Typed, HasGoal, Became
  <2> QED  BY <1>1, <1>3, <1>4, <2>1, <2>3, <2>5 DEF OwnProcess
<1>5. CASE ~thread[h].found
  <2>1. Continue(h, Tail(Tail(Rest(h))))
    BY <1>5 DEF OwnProcess
  <2>2. /\ ThreadsTyped' /\ thread'[h].todo = Tail(Tail(Rest(h)))
        /\ thread'[h].goal = thread[h].goal
    BY <1>1, <1>2, <2>1, ContinueTyped DEF Typed
  <2> QED  BY <1>1, <1>3, <1>5, <2>2 DEF OwnProcess
<1> QED  BY <1>4, <1>5

LEMMA SignalSteps ==
    ASSUME Typed, NEW h \in Threads, Terminate(h) \/ Kill(h)
    PROVE /\ Calm /\ UNCHANGED <<files, tracked>> /\ ProcsFollow /\ ThreadsTyped'
          /\ thread'[h].goal = thread[h].goal /\ thread[h].goal \in Goals
          /\ Terminate(h) => /\ thread'[h].todo \in Kills
                             /\ thread'[h].pid = thread[h].pid
                             /\ thread'[h].owned = thread[h].owned
          /\ Kill(h) => thread'[h].todo \in Forgets
<1>1. thread[h] \in ThreadRow /\ thread[h].goal \in Goals /\ thread[h].pid \in Procs \cup {None}
  BY AtStep DEF Terminate, Kill, Goalless, ThreadRow
<1>2. \A s \in Kills \cup Forgets : s \in Todos /\ s # <<>>
  BY StopLists DEF Todos
<1>3. Calm
  BY UnchangedCalm DEF Terminate, Kill, Typed, ledgerVars
<1>4. Continue(h, Rest(h)) /\ UNCHANGED <<files, tracked>>
  BY DEF Terminate, Kill, Proceed
<1>5. CASE Terminate(h)
  <2>1. Rest(h) \in Kills
    BY <1>5, AtStep, TodoSteps DEF Terminate, Rest
  <2>2. PICK row \in AfterSigterm(proc[thread[h].pid]) :
          proc' = [proc EXCEPT ![thread[h].pid] = row]
    BY <1>5 DEF Terminate
  <2>3. thread[h].pid \in Procs => Follows(row, proc[thread[h].pid])
    BY <2>2, SigtermFollows DEF Typed, RunnersTyped
  <2>4. ProcsFollow
    BY <1>1, <2>2, <2>3, OneRowFollows DEF Typed
  <2>5. /\ ThreadsTyped' /\ thread'[h].todo = Rest(h) /\ thread'[h].goal = thread[h].goal
        /\ thread'[h].pid = thread[h].pid /\ thread'[h].owned = thread[h].owned
    BY <1>1, <1>2, <1>4, <2>1, ContinueTyped DEF Typed
  <2>6. ~Kill(h)
    BY <1>5 DEF Terminate, Kill, At
  <2> QED  BY <1>1, <1>3, <1>4, <2>1, <2>4, <2>5, <2>6
<1>6. CASE Kill(h)
  <2>1. Rest(h) \in Forgets
    BY <1>6, AtStep, TodoSteps DEF Kill, Rest
  <2>2. ProcsFollow
    <3>1. Follows(Dead, proc[thread[h].pid])
      BY DeadRow DEF Follows
    <3> QED  BY <1>1, <1>6, <3>1, OneRowFollows, SameProcsFollow DEF Kill, Typed
  <2>3. ThreadsTyped' /\ thread'[h].todo = Rest(h) /\ thread'[h].goal = thread[h].goal
    BY <1>1, <1>2, <1>4, <2>1, ContinueTyped DEF Typed
  <2>4. ~Terminate(h)
    BY <1>6 DEF Terminate, Kill, At
  <2> QED  BY <1>1, <1>3, <1>4, <2>1, <2>2, <2>3, <2>4
<1> QED  BY <1>5, <1>6

LEMMA ForgetStep ==
    ASSUME Typed, NEW h \in Threads, Forget(h)
    PROVE /\ Calm /\ UNCHANGED <<proc, files>> /\ TableTyped' /\ ThreadsTyped'
          /\ thread[h].goal \in Goals
          /\ tracked' = [tracked EXCEPT ![thread[h].goal] = None]
          /\ thread'[h].todo \in Ends
          /\ thread'[h].todo # <<>> => thread'[h].goal = thread[h].goal
<1>1. thread[h] \in ThreadRow /\ thread[h].goal \in Goals /\ Rest(h) \in Ends
  BY AtStep, TodoSteps DEF Forget, Goalless, Rest
<1>2. PICK row : row = [thread[h] EXCEPT !.todo = Rest(h), !.found = FALSE,
                                         !.pid = None, !.owned = None]
  OBVIOUS
<1>3. row \in ThreadRow /\ row.goal = thread[h].goal /\ row.todo = Rest(h)
  BY <1>1, <1>2 DEF ThreadRow, Todos
<1>4. Became(h, row)
  BY <1>1, <1>2, <1>3, BecomeTyped DEF Forget, Typed, HasGoal
<1>5. /\ ThreadsTyped' /\ thread'[h].todo \in Ends
      /\ thread'[h].todo # <<>> => thread'[h].goal = thread[h].goal
  BY <1>1, <1>3, <1>4, IdleRow DEF Became
<1>6. TableTyped'
  BY <1>1 DEF Forget, Typed, TableTyped
<1>7. Calm
  BY UnchangedCalm DEF Forget, Typed, ledgerVars
<1> QED  BY <1>1, <1>5, <1>6, <1>7 DEF Forget

LEMMA CancelledStep ==
    ASSUME Typed, NEW h \in Threads, Cancelled(h)
    PROVE /\ GoalTable' /\ UNCHANGED <<proc, files, tracked>>
          /\ \A g \in Goals \ {thread[h].goal} : goal'[g] = goal[g]
          /\ ThreadsTyped' /\ ~Relies(h)'
<1>1. thread[h].goal \in Goals /\ Rest(h) \in {<<>>, <<"create">>}
  BY AtStep, TodoSteps DEF Cancelled, Goalless, Rest
<1>2. ThreadsTyped' /\ ~Relies(h)'
  BY <1>1, WholeLists, OthersFirst, PlainContinue DEF Cancelled, Proceed, Typed, Careful
<1>3. GoalTable' /\ \A g \in Goals \ {thread[h].goal} : goal'[g] = goal[g]
  BY <1>1, StatusTyped DEF Cancelled, Typed
<1> QED  BY <1>2, <1>3 DEF Cancelled

-----------------------------------------------------------------------------
\* The types, for any number of handler threads and any number of restarts

LEMMA InitTyped == Init => Typed
<1> SUFFICES ASSUME Init PROVE Typed
  OBVIOUS
<1>1. PICK row : row = Ledger!NoGoal
  OBVIOUS
<1>2. row \in Ledger!GoalRow
  BY <1>1 DEF Ledger!NoGoal, Ledger!GoalRow
<1>3. goal = [g \in Goals |-> row]
  BY <1>1 DEF Init, RunnerInit, Ledger!Init, Goals
<1>4. GoalTable
  BY <1>2, <1>3 DEF GoalTable
<1>5. RunnersTyped
  BY DeadRow DEF Init, RunnerInit, RunnersTyped
<1>6. FilesTyped /\ TableTyped
  BY DEF Init, RunnerInit, FilesTyped, TableTyped
<1>7. ThreadsTyped
  BY IdleRow DEF Init, ThreadsTyped
<1> QED  BY <1>4, <1>5, <1>6, <1>7 DEF Typed

\* The handlers' steps, by what they leave.
LEMMA PlainHandlers ==
    ASSUME Typed, NEW h \in Threads, HandlerStep(h) \/ UserRequest(h)
    PROVE \/ Plain(h)
          \/ CheckLaunch(h) \/ Spawn(h) \/ LookAtTable(h) \/ LookAtFile(h) \/ OwnProcess(h)
          \/ Terminate(h) \/ Kill(h) \/ Forget(h) \/ Cancelled(h) \/ CreateGoal(h)
  BY RequestPlain, LedgerHandlers, TokenHandlers, GateHandlers, WakeStep, PreviousStep
  DEF HandlerStep

LEMMA HandlerTyped ==
    ASSUME Typed, NEW h \in Threads, HandlerStep(h) \/ UserRequest(h)
    PROVE Typed'
<1> USE DEF files
<1>1. CASE Plain(h)
  BY <1>1, PlainTyped
<1>2. CASE CheckLaunch(h)
  BY <1>2, CheckStep DEF Typed, Calm, GoalTable, RunnersTyped, FilesTyped, TableTyped
<1>3. CASE Spawn(h)
  BY <1>3, SpawnStep DEF Typed, Calm
<1>4. CASE LookAtTable(h)
  BY <1>4, TableStep DEF Typed, Calm, RunnersTyped, FilesTyped
<1>5. CASE LookAtFile(h)
  BY <1>5, FileStep DEF Typed, Calm, RunnersTyped, FilesTyped, TableTyped
<1>6. CASE OwnProcess(h)
  BY <1>6, OwnStep DEF Typed, Calm, RunnersTyped, FilesTyped, TableTyped
<1>7. CASE Terminate(h) \/ Kill(h)
  BY <1>7, SignalSteps DEF Typed, Calm, ProcsFollow, FilesTyped, TableTyped
<1>8. CASE Forget(h)
  BY <1>8, ForgetStep DEF Typed, Calm, RunnersTyped, FilesTyped
<1>9. CASE Cancelled(h)
  BY <1>9, CancelledStep DEF Typed, RunnersTyped, FilesTyped, TableTyped
<1>10. CASE CreateGoal(h)
  BY <1>10, CreateStep DEF Typed, RunnersTyped, FilesTyped, TableTyped
<1> QED  BY <1>1, <1>2, <1>3, <1>4, <1>5, <1>6, <1>7, <1>8, <1>9, <1>10, PlainHandlers

LEMMA RunnerTyped ==
    ASSUME Typed, NEW p \in Procs, RunnerStep(p), UNCHANGED <<tracked, thread>>
    PROVE Typed' /\ Calm /\ ProcsFollow /\ MetadataMoves(p)
<1>1. Calm /\ RunnerMoves(p) /\ MetadataMoves(p) /\ FilesTyped'
  BY RunnerStepEffects DEF RunnerEffects, Typed
<1>2. ProcsFollow
  BY <1>1, OneRowFollows DEF RunnerMoves, Typed
<1> QED  BY <1>1, <1>2 DEF Typed, Calm, ProcsFollow, TableTyped, ThreadsTyped

LEMMA NextTyped == Typed /\ [Next]_vars => Typed'
<1> SUFFICES ASSUME Typed, [Next]_vars PROVE Typed'
  OBVIOUS
<1>1. ASSUME NEW p \in Procs, RunnerStep(p), UNCHANGED <<tracked, thread>> PROVE Typed'
  BY <1>1, RunnerTyped
<1>2. ASSUME NEW h \in Threads, HandlerStep(h) \/ UserRequest(h) PROVE Typed'
  BY <1>2, HandlerTyped
<1>3. CASE Restart
  BY <1>3, IdleRow
  DEF Restart, Typed, GoalTable, RunnersTyped, FilesTyped, TableTyped, ThreadsTyped, ledgerVars, files
<1>4. CASE UNCHANGED vars
  BY <1>4 DEF vars, Typed, GoalTable, RunnersTyped, FilesTyped, TableTyped, ThreadsTyped
<1> QED  BY <1>1, <1>2, <1>3, <1>4 DEF Next

\* Runners, process.json files and the server's table keep their shape, whatever
\* requests, steps of runners and restarts of the server interleave.
THEOREM TypesHold == Spec => []TypeOK
<1>1. Typed => TypeOK
  BY DEF Typed, TypeOK, RunnersTyped, SoundRows, FilesTyped, TableTyped
<1> QED  BY <1>1, InitTyped, NextTyped, PTL DEF Spec

-----------------------------------------------------------------------------
\* One request at a time, and no restart

\* The table names every runner, and a process.json that names a live process
\* is its goal's.
TablesAgree ==
    /\ \A p \in Procs : Alive(p) => tracked[proc[p].goal] = p
    /\ \A g \in Goals : metadata[g] # None /\ Alive(metadata[g]) => proc[metadata[g]].goal = g

\* What a step relies on is still so when it is taken.
StillSo(h) ==
    LET g == thread[h].goal
        step == Head(thread[h].todo)
    IN thread[h].todo # <<>> =>
         /\ step = "file" => tracked[g] = None
         /\ step = "own" => IF thread[h].found
                            THEN thread[h].pid = tracked[g] /\ tracked[g] # None
                            ELSE RunnersOf(g) = {}
         /\ step \in {"term", "kill"} => /\ thread[h].pid = tracked[g] /\ tracked[g] # None
                                         /\ thread[h].owned = tracked[g]
         /\ step \in {"forget", "cancelled"} => RunnersOf(g) = {}
         /\ step = "spawn" => goal[g].status # "cancelled"

Agreement == Typed /\ TablesAgree /\ \A h \in Threads : StillSo(h)

OneAtATime == (\A h, k \in Threads : h = k) /\ ~MayRestart

LEMMA NothingToRelyOn == ASSUME NEW h, ~Relies(h) PROVE StillSo(h)
  BY DEF Relies, StillSo, Careful

LEMMA NoRunnerUntracked ==
    ASSUME Typed, TablesAgree, NEW g \in Goals, tracked[g] = None \/ ~Alive(tracked[g])
    PROVE RunnersOf(g) = {}
  BY RunnerAssumption DEF TablesAgree, RunnersOf, RunnerAssumption, Alive

\* What runners do to the agreement: nothing, when no goal is cancelled.
LEMMA TablesStillAgree ==
    ASSUME Agreement, ProcsFollow, UNCHANGED <<metadata, tracked>>
    PROVE TablesAgree'
<1>1. \A p \in Procs : Alive(p)' => Alive(p) /\ proc'[p].goal = proc[p].goal
  BY DEF ProcsFollow, Follows, Alive
<1>2. \A g \in Goals : metadata[g] \in Procs \cup {None}
  BY DEF Agreement, Typed, FilesTyped
<1>3. \A p \in Procs : Alive(p)' => tracked'[proc'[p].goal] = p
  BY <1>1 DEF Agreement, TablesAgree
<1>4. \A g \in Goals : metadata'[g] # None /\ Alive(metadata[g])' => proc'[metadata'[g]].goal = g
  BY <1>1, <1>2 DEF Agreement, TablesAgree
<1> QED  BY <1>3, <1>4 DEF TablesAgree

LEMMA StillSoStable ==
    ASSUME Agreement, ProcsFollow, Calm, UNCHANGED <<tracked, thread>>, NEW h \in Threads
    PROVE StillSo(h)'
<1>1. \A g : RunnersOf(g)' \subseteq RunnersOf(g)
  BY RunnersShrink
<1>2. thread[h].todo # <<>> /\ Head(thread[h].todo) = "spawn" => thread[h].goal \in Goals
  BY ThreadParts DEF Agreement, Typed, Goalless
<1> QED  BY <1>1, <1>2 DEF Agreement, StillSo, Calm

\* What CancelledIsQuiet says of a step.
QuietStep ==
    \A g \in Goals :
        goal'[g].status = "cancelled" =>
          \/ Superseding
          \/ goal[g].status # "cancelled" /\ RunnersOf(g)' = {}
          \/ goal[g].status = "cancelled" /\ RunnersOf(g)' \subseteq RunnersOf(g)

LEMMA CalmIsQuiet == ASSUME Calm, ProcsFollow PROVE QuietStep
  BY RunnersShrink DEF QuietStep, Calm

LEMMA AgreedParts == ASSUME Agreement PROVE Typed /\ TablesAgree /\ GoalTable /\ RunnersTyped
  BY DEF Agreement, Typed

\* A plain step, and the ones that only decide how the thread goes on.
LEMMA TablesUntouched ==
    ASSUME Agreement, Calm, UNCHANGED <<proc, files, tracked>>
    PROVE TablesAgree' /\ QuietStep
<1>1. ProcsFollow
  BY AgreedParts, SameProcsFollow
<1> QED  BY <1>1, TablesStillAgree, CalmIsQuiet DEF files

LEMMA SpawnAgrees ==
    ASSUME Agreement, NEW h \in Threads, Spawn(h)
    PROVE TablesAgree' /\ StillSo(h)' /\ QuietStep
<1> DEFINE g == thread[h].goal
<1>1. g \in Goals /\ StillSo(h) /\ At(h, "spawn")
  BY AgreedParts, AtStep DEF Agreement, Spawn, Goalless
<1>2. goal[g].status # "cancelled"
  BY <1>1 DEF StillSo, At
<1>3. StillSo(h)'
  BY AgreedParts, SpawnStep, NothingToRelyOn DEF Relies, StillSo, Careful
<1>4. UNCHANGED goal
  BY DEF Spawn, ledgerVars
<1>5. CASE UNCHANGED <<proc, metadata, tracked>>
  <2>1. UNCHANGED <<proc, files, tracked>> /\ Calm
    BY <1>5, AgreedParts, SpawnStep DEF files
  <2> QED  BY <1>3, <2>1, TablesUntouched
<1>6. CASE ~UNCHANGED <<proc, metadata, tracked>>
  <2>1. ~Running(tracked[g])
    BY <1>6 DEF Spawn
  <2>2. PICK p \in Procs :
          /\ Free(p, g)
          /\ proc' = [proc EXCEPT ![p] = [Dead EXCEPT !.pc = "boot", !.goal = g]]
          /\ tracked' = [tracked EXCEPT ![g] = p]
          /\ metadata' = [x \in Goals |-> IF metadata[x] = p THEN None ELSE metadata[x]]
    BY <1>6 DEF Spawn
  <2>3. proc'[p].goal = g /\ \A q \in Procs \ {p} : proc'[q] = proc[q]
    BY <2>2, AgreedParts DEF RunnersTyped, Dead
  <2>4. tracked'[g] = p /\ \A x \in Goals \ {g} : tracked'[x] = tracked[x]
    BY <1>1, <2>2, AgreedParts DEF Typed, TableTyped
  <2>5. RunnersOf(g) = {}
    BY <1>1, <2>1, AgreedParts, NoRunnerUntracked DEF Running
  <2>6. ASSUME NEW q \in Procs, Alive(q)' PROVE tracked'[proc'[q].goal] = q
    <3>1. CASE q = p
      BY <2>3, <2>4, <3>1
    <3>2. CASE q # p
      <4>1. Alive(q) /\ proc'[q] = proc[q]
        BY <2>3, <2>6, <3>2 DEF Alive
      <4>2. proc[q].goal # g /\ proc[q].goal \in Goals
        BY <2>5, <4>1, AgreedParts, AliveRow DEF RunnersOf, SoundRow, Alive
      <4> QED  BY <2>4, <4>1, <4>2, AgreedParts DEF TablesAgree
    <3> QED  BY <3>1, <3>2
  <2>7. ASSUME NEW x \in Goals, metadata'[x] # None, Alive(metadata[x])'
        PROVE proc'[metadata'[x]].goal = x
    <3>1. metadata'[x] = metadata[x] /\ metadata[x] # p /\ metadata[x] \in Procs
      BY <2>2, <2>7, AgreedParts DEF Typed, FilesTyped
    <3> QED  BY <2>3, <2>7, <3>1, AgreedParts DEF TablesAgree, Alive
  <2>8. TablesAgree'
    BY <2>6, <2>7 DEF TablesAgree
  <2>9. QuietStep
    <3> SUFFICES ASSUME NEW x \in Goals, goal'[x].status = "cancelled"
                 PROVE goal[x].status = "cancelled" /\ RunnersOf(x)' \subseteq RunnersOf(x)
      BY DEF QuietStep
    <3>1. x # g /\ goal[x].status = "cancelled"
      BY <1>2, <1>4
    <3> QED  BY <2>3, <3>1 DEF RunnersOf, Alive
  <2> QED  BY <1>3, <2>8, <2>9
<1> QED  BY <1>5, <1>6

LEMMA TableAgrees ==
    ASSUME Agreement, NEW h \in Threads, LookAtTable(h)
    PROVE TablesAgree' /\ StillSo(h)' /\ QuietStep
<1> DEFINE g == thread[h].goal
<1>1. /\ Calm /\ UNCHANGED <<proc, files>> /\ g \in Goals /\ thread'[h].goal = g
      /\ ProcsFollow
  BY AgreedParts, TableStep, SameProcsFollow
<1>2. CASE tracked[g] = None
  <2>1. UNCHANGED tracked /\ thread'[h].todo \in Files
    BY <1>2, AgreedParts, TableStep
  <2>2. thread'[h].todo # <<>> /\ Head(thread'[h].todo) = "file"
    BY <2>1, StopLists
  <2>3. StillSo(h)'
    BY <1>1, <1>2, <2>1, <2>2 DEF StillSo
  <2> QED  BY <1>1, <2>1, <2>3, TablesUntouched
<1>3. CASE tracked[g] # None
  <2>1. /\ tracked' = IF Alive(tracked[g]) THEN tracked ELSE [tracked EXCEPT ![g] = None]
        /\ thread'[h].todo \in Owns \cup {<<"wake">>}
        /\ thread'[h].found = Alive(tracked[g]) /\ thread'[h].pid = tracked[g]
    BY <1>3, AgreedParts, TableStep
  <2>2. Head(thread'[h].todo) \in {"own", "wake"}
    BY <2>1, StopLists, OthersFirst
  <2>3. CASE Alive(tracked[g])
    <3>1. UNCHANGED tracked /\ thread'[h].found
      BY <2>1, <2>3
    <3>2. StillSo(h)'
      BY <1>1, <1>3, <2>1, <2>2, <3>1 DEF StillSo
    <3> QED  BY <1>1, <3>1, <3>2, TablesUntouched
  <2>4. CASE ~Alive(tracked[g])
    <3>1. RunnersOf(g) = {} /\ RunnersOf(g)' = {}
      BY <1>1, <2>4, AgreedParts, NoRunnerUntracked DEF RunnersOf, Alive
    <3>2. ~thread'[h].found
      BY <2>1, <2>4
    <3>3. StillSo(h)'
      BY <1>1, <2>2, <3>1, <3>2 DEF StillSo
    <3>4. \A x \in Goals \ {g} : tracked'[x] = tracked[x]
      BY <2>1, AgreedParts DEF Typed, TableTyped
    <3>5. ASSUME NEW p \in Procs, Alive(p)' PROVE tracked'[proc'[p].goal] = p
      <4>1. Alive(p) /\ proc'[p] = proc[p]
        BY <1>1, <3>5 DEF Alive
      <4>2. proc[p].goal # g /\ proc[p].goal \in Goals
        BY <3>1, <4>1, AgreedParts, AliveRow DEF RunnersOf, SoundRow, Alive
      <4> QED  BY <3>4, <4>1, <4>2, AgreedParts DEF TablesAgree
    <3>6. TablesAgree'
      BY <1>1, <3>5, AgreedParts DEF TablesAgree, Alive, files
    <3> QED  BY <1>1, <3>3, <3>6, CalmIsQuiet
  <2> QED  BY <2>3, <2>4
<1> QED  BY <1>2, <1>3

LEMMA FileAgrees ==
    ASSUME Agreement, NEW h \in Threads, LookAtFile(h)
    PROVE TablesAgree' /\ StillSo(h)' /\ QuietStep
<1> DEFINE g == thread[h].goal
<1>1. /\ Calm /\ UNCHANGED <<proc, files, tracked>> /\ g \in Goals /\ thread'[h].goal = g
      /\ thread'[h].todo \in Owns \cup {<<"wake">>}
      /\ thread'[h].found = Running(metadata[g])
  BY AgreedParts, FileStep
<1>2. tracked[g] = None
  BY DEF Agreement, LookAtFile, At, StillSo
<1>3. RunnersOf(g) = {} /\ RunnersOf(g)' = {}
  BY <1>1, <1>2, AgreedParts, NoRunnerUntracked DEF RunnersOf, Alive
<1>4. ~Running(metadata[g])
  BY <1>1, <1>3, AgreedParts DEF Running, TablesAgree, RunnersOf, Typed, FilesTyped
<1>5. Head(thread'[h].todo) \in {"own", "wake"}
  BY <1>1, StopLists, OthersFirst
<1>6. StillSo(h)'
  BY <1>1, <1>3, <1>4, <1>5 DEF StillSo
<1> QED  BY <1>1, <1>6, TablesUntouched

LEMMA OwnAgrees ==
    ASSUME Agreement, NEW h \in Threads, OwnProcess(h)
    PROVE TablesAgree' /\ StillSo(h)' /\ QuietStep
<1> DEFINE g == thread[h].goal
<1>1. Calm /\ UNCHANGED <<proc, files, tracked>> /\ g \in Goals /\ thread'[h].goal = g
  BY AgreedParts, OwnStep
<1>2. StillSo(h) /\ thread[h].todo # <<>> /\ Head(thread[h].todo) = "own"
  BY DEF Agreement, OwnProcess, At
<1>3. CASE thread[h].found
  <2>1. /\ thread'[h].todo \in Terms /\ thread'[h].pid = thread[h].pid
        /\ thread'[h].owned = tracked[g]
    BY <1>3, AgreedParts, OwnStep
  <2>2. Head(thread'[h].todo) = "term"
    BY <2>1, StopLists
  <2>3. StillSo(h)'
    BY <1>1, <1>2, <1>3, <2>1, <2>2 DEF StillSo
  <2> QED  BY <1>1, <2>3, TablesUntouched
<1>4. CASE ~thread[h].found
  <2>1. thread'[h].todo \in Forgets
    BY <1>4, AgreedParts, OwnStep
  <2>2. Head(thread'[h].todo) = "forget"
    BY <2>1, StopLists
  <2>3. RunnersOf(g)' = {}
    BY <1>1, <1>2, <1>4 DEF StillSo, RunnersOf, Alive
  <2>4. StillSo(h)'
    BY <1>1, <2>2, <2>3 DEF StillSo
  <2> QED  BY <1>1, <2>4, TablesUntouched
<1> QED  BY <1>3, <1>4

LEMMA SignalAgrees ==
    ASSUME Agreement, NEW h \in Threads, Terminate(h) \/ Kill(h)
    PROVE TablesAgree' /\ StillSo(h)' /\ QuietStep
<1> DEFINE g == thread[h].goal
<1>1. /\ Calm /\ UNCHANGED <<files, tracked>> /\ ProcsFollow
      /\ g \in Goals /\ thread'[h].goal = g
  BY AgreedParts, SignalSteps
<1>2. /\ StillSo(h) /\ thread[h].todo # <<>> /\ Head(thread[h].todo) \in {"term", "kill"}
  BY DEF Agreement, Terminate, Kill, At
<1>3. thread[h].pid = tracked[g] /\ tracked[g] # None /\ thread[h].owned = tracked[g]
  BY <1>2 DEF StillSo
<1>4. TablesAgree' /\ QuietStep
  BY <1>1, TablesStillAgree, CalmIsQuiet DEF files
<1>5. CASE Terminate(h)
  <2>1. /\ thread'[h].todo \in Kills /\ thread'[h].pid = thread[h].pid
        /\ thread'[h].owned = thread[h].owned
    BY <1>5, AgreedParts, SignalSteps
  <2>2. Head(thread'[h].todo) = "kill"
    BY <2>1, StopLists
  <2>3. StillSo(h)'
    BY <1>1, <1>3, <2>1, <2>2 DEF StillSo
  <2> QED  BY <1>4, <2>3
<1>6. CASE Kill(h)
  <2>1. thread'[h].todo \in Forgets
    BY <1>6, AgreedParts, SignalSteps
  <2>2. Head(thread'[h].todo) = "forget"
    BY <2>1, StopLists
  <2>3. tracked[g] \in Procs
    BY <1>1, <1>3, AgreedParts DEF Typed, TableTyped
  <2>4. ~Alive(tracked[g])'
    BY <1>1, <1>3, <1>6, <2>3, AgreedParts, DeadRow
    DEF Kill, SeenRunning, Alive, RunnersTyped
  <2>5. RunnersOf(g)' \subseteq RunnersOf(g) /\ RunnersOf(g) \subseteq {tracked[g]}
    BY <1>1, RunnersShrink, AgreedParts DEF RunnersOf, TablesAgree
  <2>6. RunnersOf(g)' = {}
    BY <1>1, <2>4, <2>5 DEF RunnersOf, Alive
  <2>7. StillSo(h)'
    BY <1>1, <2>2, <2>6 DEF StillSo
  <2> QED  BY <1>4, <2>7
<1> QED  BY <1>5, <1>6

LEMMA ForgetAgrees ==
    ASSUME Agreement, NEW h \in Threads, Forget(h)
    PROVE TablesAgree' /\ StillSo(h)' /\ QuietStep
<1> DEFINE g == thread[h].goal
<1>1. /\ Calm /\ UNCHANGED <<proc, files>> /\ g \in Goals
      /\ tracked' = [tracked EXCEPT ![g] = None]
      /\ thread'[h].todo \in Ends
      /\ thread'[h].todo # <<>> => thread'[h].goal = g
  BY AgreedParts, ForgetStep
<1>2. RunnersOf(g) = {}
  BY DEF Agreement, Forget, At, StillSo
<1>3. \A x : RunnersOf(x)' = RunnersOf(x)
  BY <1>1 DEF RunnersOf, Alive
<1>4. thread'[h].todo # <<>> => Head(thread'[h].todo) = "cancelled"
  BY <1>1, StopLists
<1>5. StillSo(h)'
  BY <1>1, <1>2, <1>3, <1>4 DEF StillSo
<1>6. ASSUME NEW p \in Procs, Alive(p)' PROVE tracked'[proc'[p].goal] = p
  <2>1. Alive(p) /\ proc'[p] = proc[p]
    BY <1>1, <1>6 DEF Alive
  <2>2. proc[p].goal # g /\ proc[p].goal \in Goals
    BY <1>2, <2>1, AgreedParts, AliveRow DEF RunnersOf, SoundRow, Alive
  <2> QED  BY <1>1, <2>1, <2>2, AgreedParts DEF TablesAgree, Typed, TableTyped
<1>7. TablesAgree'
  BY <1>1, <1>6, AgreedParts DEF TablesAgree, Alive, files
<1>8. QuietStep
  BY <1>1, <1>3 DEF QuietStep, Calm
<1> QED  BY <1>5, <1>7, <1>8

LEMMA CancelledAgrees ==
    ASSUME Agreement, NEW h \in Threads, Cancelled(h)
    PROVE TablesAgree' /\ StillSo(h)' /\ QuietStep
<1> DEFINE g == thread[h].goal
<1>1. /\ UNCHANGED <<proc, files, tracked>> /\ ~Relies(h)'
      /\ \A x \in Goals \ {g} : goal'[x] = goal[x]
  BY AgreedParts, CancelledStep
<1>2. RunnersOf(g) = {}
  BY DEF Agreement, Cancelled, At, StillSo
<1>3. \A x : RunnersOf(x)' = RunnersOf(x)
  BY <1>1 DEF RunnersOf, Alive
<1>4. StillSo(h)'
  BY <1>1 DEF Relies, StillSo, Careful
<1>5. TablesAgree'
  BY <1>1, AgreedParts DEF TablesAgree, Alive, files
<1>6. QuietStep
  BY <1>1, <1>2, <1>3 DEF QuietStep
<1> QED  BY <1>4, <1>5, <1>6

LEMMA CreateAgrees ==
    ASSUME Agreement, NEW h \in Threads, CreateGoal(h)
    PROVE TablesAgree' /\ StillSo(h)' /\ QuietStep
<1>1. UNCHANGED <<proc, files, tracked>> /\ ~Relies(h)' /\ (Calm \/ Superseding)
  BY AgreedParts, CreateStep
<1>2. StillSo(h)'
  BY <1>1 DEF Relies, StillSo, Careful
<1>3. TablesAgree'
  BY <1>1, AgreedParts DEF TablesAgree, Alive, files
<1>4. QuietStep
  BY <1>1, AgreedParts, SameProcsFollow, CalmIsQuiet DEF QuietStep
<1> QED  BY <1>2, <1>3, <1>4

LEMMA CheckAgrees ==
    ASSUME Agreement, NEW h \in Threads, CheckLaunch(h)
    PROVE TablesAgree' /\ StillSo(h)' /\ QuietStep
<1>1. /\ Calm /\ UNCHANGED <<proc, files, tracked>>
      /\ \/ ~Relies(h)'
         \/ thread'[h].todo = <<"spawn">> /\ goal'[thread'[h].goal].status # "cancelled"
  BY AgreedParts, CheckStep
<1>2. Head(<<"spawn">>) = "spawn"
  BY OthersFirst
<1>3. StillSo(h)'
  BY <1>1, <1>2 DEF Relies, StillSo, Careful
<1> QED  BY <1>1, <1>3, TablesUntouched

LEMMA HandlerAgrees ==
    ASSUME Agreement, OneAtATime, NEW h \in Threads, HandlerStep(h) \/ UserRequest(h)
    PROVE Agreement' /\ QuietStep
<1>1. Typed'
  BY AgreedParts, HandlerTyped
<1>2. ASSUME Plain(h) PROVE TablesAgree' /\ StillSo(h)' /\ QuietStep
  <2>1. StillSo(h)'
    BY <1>2 DEF Plain, Relies, StillSo, Careful
  <2> QED  BY <1>2, <2>1, TablesUntouched DEF Plain
<1>3. TablesAgree' /\ StillSo(h)' /\ QuietStep
  BY <1>2, AgreedParts, PlainHandlers, CheckAgrees, SpawnAgrees, TableAgrees, FileAgrees, OwnAgrees,
     SignalAgrees, ForgetAgrees, CancelledAgrees, CreateAgrees
<1>4. \A k \in Threads : k = h
  BY DEF OneAtATime
<1> QED  BY <1>1, <1>3, <1>4 DEF Agreement

LEMMA RunnerAgrees ==
    ASSUME Agreement, NEW p \in Procs, RunnerStep(p), UNCHANGED <<tracked, thread>>
    PROVE Agreement' /\ QuietStep
<1>1. Typed' /\ Calm /\ ProcsFollow /\ MetadataMoves(p)
  BY AgreedParts, RunnerTyped
<1>2. \A h \in Threads : StillSo(h)'
  BY <1>1, StillSoStable
<1>3. \A q \in Procs : Alive(q)' => Alive(q) /\ proc'[q].goal = proc[q].goal
  BY <1>1 DEF ProcsFollow, Follows, Alive
<1>4. \A q \in Procs : Alive(q)' => tracked'[proc'[q].goal] = q
  BY <1>3, AgreedParts DEF TablesAgree
<1>5. ASSUME NEW g \in Goals, metadata'[g] # None, Alive(metadata[g])'
      PROVE proc'[metadata'[g]].goal = g
  <2>1. metadata'[g] \in Procs
    BY <1>1, <1>5 DEF Typed, FilesTyped
  <2>2. CASE metadata'[g] = metadata[g]
    BY <1>3, <1>5, <2>1, <2>2, AgreedParts DEF TablesAgree, Alive
  <2>3. CASE metadata'[g] = p /\ g = proc[p].goal
    BY <1>3, <1>5, <2>3
  <2> QED  BY <1>1, <1>5, <2>2, <2>3 DEF MetadataMoves
<1>6. QuietStep
  BY <1>1, CalmIsQuiet
<1> QED  BY <1>1, <1>2, <1>4, <1>5, <1>6 DEF Agreement, TablesAgree

LEMMA InitAgrees == Init => Agreement
<1> SUFFICES ASSUME Init PROVE Agreement
  OBVIOUS
<1>1. Typed
  BY InitTyped
<1>2. \A p \in Procs : ~Alive(p)
  BY DEF Init, RunnerInit, Alive, Dead
<1>3. \A g \in Goals : metadata[g] = None
  BY DEF Init, RunnerInit
<1>4. \A h \in Threads : StillSo(h)
  BY IdleRow DEF Init, StillSo
<1> QED  BY <1>1, <1>2, <1>3, <1>4 DEF Agreement, TablesAgree

LEMMA NextAgrees ==
    ASSUME OneAtATime, Agreement, [Next]_vars
    PROVE Agreement' /\ (Next => QuietStep)
<1>1. ASSUME NEW p \in Procs, RunnerStep(p), UNCHANGED <<tracked, thread>>
      PROVE Agreement' /\ QuietStep
  BY <1>1, RunnerAgrees
<1>2. ASSUME NEW h \in Threads, HandlerStep(h) \/ UserRequest(h)
      PROVE Agreement' /\ QuietStep
  BY <1>2, HandlerAgrees
<1>3. ~Restart
  BY DEF Restart, OneAtATime
<1>4. CASE Next
  BY <1>1, <1>2, <1>3, <1>4 DEF Next
<1>5. CASE UNCHANGED vars
  <2>1. Typed'
    BY <1>5, AgreedParts, NextTyped
  <2>2. TablesAgree' /\ \A h \in Threads : StillSo(h)'
    BY <1>5 DEF vars, Agreement, TablesAgree, StillSo, RunnersOf, Alive
  <2>3. Agreement'
    BY <2>1, <2>2 DEF Agreement
  <2>4. Next => QuietStep
    BY <1>4, <2>3
  <2> QED  BY <2>3, <2>4
<1> QED  BY <1>4, <1>5

\* A goal has one runner at most when the control center serves one request at a
\* time: the runner that the table names.
THEOREM OneRunnerPerGoal == ASSUME OneAtATime PROVE Spec => []OneRunner
<1>1. Agreement => OneRunner
  <2> SUFFICES ASSUME Agreement, NEW g \in Goals PROVE Cardinality(RunnersOf(g)) <= 1
    BY DEF OneRunner
  <2>1. RunnersOf(g) \subseteq {tracked[g]}
    BY AgreedParts DEF TablesAgree, RunnersOf
  <2>2. IsFiniteSet({tracked[g]}) /\ Cardinality({tracked[g]}) = 1
    BY FS_Singleton
  <2> QED  BY <2>1, <2>2, FS_Subset, FS_CardinalityType
<1>2. Agreement /\ [Next]_vars => Agreement'
  BY NextAgrees
<1> QED  BY <1>1, <1>2, InitAgrees, PTL DEF Spec

\* Only a stopped goal is cancelled, unless a newer goal cancels it, and no runner is
\* started for a goal that is cancelled: the stop of job_finder_supervisor.py holds
\* although the runner ignores SIGTERM.
THEOREM CancelledStaysQuiet == ASSUME OneAtATime PROVE Spec => CancelledIsQuiet
<1>1. Agreement /\ [Next]_vars => Agreement'
  BY NextAgrees
<1>2. Agreement /\ [Next]_vars => [QuietStep]_vars
  BY NextAgrees
<1>3. [QuietStep]_vars <=>
      [\A g \in Goals :
         goal'[g].status = "cancelled" =>
           \/ Superseding
           \/ goal[g].status # "cancelled" /\ RunnersOf(g)' = {}
           \/ goal[g].status = "cancelled" /\ RunnersOf(g)' \subseteq RunnersOf(g)]_vars
  BY DEF QuietStep
<1> QED  BY <1>1, <1>2, <1>3, InitAgrees, PTL DEF Spec, CancelledIsQuiet

-----------------------------------------------------------------------------
\* Any number of threads

\* The server's table loses a runner that is alive: at a restart, or when a thread
\* forgets the process another thread has just started.
Dropped == \E g \in Goals : tracked[g] # None /\ Alive(tracked[g]) /\ tracked'[g] = None

Tabled == \A p \in Procs : Alive(p) => tracked[proc[p].goal] = p

LEMMA TabledFollows ==
    ASSUME Typed, Tabled, ProcsFollow, UNCHANGED tracked
    PROVE Tabled'
  BY DEF Tabled, ProcsFollow, Follows, Alive

\* Entries that are removed name no runner.
LEMMA TabledRemoval ==
    ASSUME Typed, Tabled, ~Dropped, UNCHANGED proc,
           \A g \in Goals : tracked'[g] \in {tracked[g], None}
    PROVE Tabled'
<1> SUFFICES ASSUME NEW p \in Procs, Alive(p)' PROVE tracked'[proc'[p].goal] = p
  BY DEF Tabled
<1>1. Alive(p) /\ proc'[p] = proc[p] /\ tracked[proc[p].goal] = p
  BY DEF Alive, Tabled
<1>2. proc[p].goal \in Goals /\ p # None
  BY <1>1, AliveRow, RunnerAssumption DEF Typed, SoundRow, Alive, RunnerAssumption
<1> QED  BY <1>1, <1>2 DEF Dropped

LEMMA TabledSpawn ==
    ASSUME Typed, Tabled, NEW h \in Threads, Spawn(h)
    PROVE Tabled'
<1> DEFINE g == thread[h].goal
<1>1. g \in Goals
  BY AtStep DEF Spawn, Goalless
<1>2. CASE UNCHANGED <<proc, tracked>>
  BY <1>2, TabledFollows, SameProcsFollow DEF Typed
<1>3. CASE ~UNCHANGED <<proc, tracked>>
  <2>1. PICK p \in Procs :
          /\ ~Running(tracked[g])
          /\ proc' = [proc EXCEPT ![p] = [Dead EXCEPT !.pc = "boot", !.goal = g]]
          /\ tracked' = [tracked EXCEPT ![g] = p]
    BY <1>3 DEF Spawn
  <2>2. proc'[p].goal = g /\ \A q \in Procs \ {p} : proc'[q] = proc[q]
    BY <2>1 DEF Typed, RunnersTyped, Dead
  <2>3. tracked'[g] = p /\ \A x \in Goals \ {g} : tracked'[x] = tracked[x]
    BY <1>1, <2>1 DEF Typed, TableTyped
  <2>4. ASSUME NEW q \in Procs \ {p}, Alive(q)' PROVE tracked'[proc'[q].goal] = q
    <3>1. Alive(q) /\ proc'[q] = proc[q] /\ proc[q].goal \in Goals /\ q # None
      BY <2>2, <2>4, AliveRow, RunnerAssumption
      DEF Alive, SoundRow, Typed, RunnerAssumption
    <3>2. proc[q].goal # g
      BY <2>1, <3>1 DEF Tabled, Running
    <3> QED  BY <2>3, <3>1, <3>2 DEF Tabled
  <2> QED  BY <2>2, <2>3, <2>4 DEF Tabled
<1> QED  BY <1>2, <1>3

LEMMA TabledNext ==
    ASSUME Typed, Tabled, [Next]_vars, ~Dropped
    PROVE Tabled'
<1>1. ASSUME NEW p \in Procs, RunnerStep(p), UNCHANGED <<tracked, thread>> PROVE Tabled'
  BY <1>1, RunnerTyped, TabledFollows
<1>2. ASSUME NEW h \in Threads, HandlerStep(h) \/ UserRequest(h) PROVE Tabled'
  <2>1. ASSUME UNCHANGED <<proc, tracked>> PROVE Tabled'
    BY <2>1, TabledFollows, SameProcsFollow DEF Typed
  <2>2. CASE Plain(h) \/ CheckLaunch(h) \/ LookAtFile(h) \/ OwnProcess(h) \/ Cancelled(h)
             \/ CreateGoal(h)
    BY <2>1, <2>2, CheckStep, FileStep, OwnStep, CancelledStep, CreateStep DEF Plain
  <2>3. CASE Spawn(h)
    BY <2>3, TabledSpawn
  <2>4. CASE Terminate(h) \/ Kill(h)
    BY <2>4, SignalSteps, TabledFollows
  <2>5. CASE LookAtTable(h)
    <3>1. UNCHANGED proc /\ \A g \in Goals : tracked'[g] \in {tracked[g], None}
      BY <2>5, TableStep DEF Typed, TableTyped
    <3> QED  BY <3>1, TabledRemoval
  <2>6. CASE Forget(h)
    <3>1. UNCHANGED proc /\ \A g \in Goals : tracked'[g] \in {tracked[g], None}
      BY <2>6, ForgetStep DEF Typed, TableTyped
    <3> QED  BY <3>1, TabledRemoval
  <2> QED  BY <1>2, <2>2, <2>3, <2>4, <2>5, <2>6, PlainHandlers
<1>3. CASE Restart
  <2>1. UNCHANGED proc /\ \A g \in Goals : tracked'[g] \in {tracked[g], None}
    BY <1>3 DEF Restart
  <2> QED  BY <2>1, TabledRemoval
<1>4. CASE UNCHANGED vars
  BY <1>4 DEF vars, Tabled, Alive
<1> QED  BY <1>1, <1>2, <1>3, <1>4 DEF Next

\* However many requests race to launch a runner, the lock of launch_goal leaves a goal
\* with one: two can only be alive after the table has dropped a live one.
THEOREM LaunchesAreExclusive == Spec /\ [][~Dropped]_vars => []OneRunner
<1>1. Init => Tabled
  BY DEF Init, RunnerInit, Tabled, Alive, Dead
<1>2. Typed /\ Tabled => OneRunner
  <2> SUFFICES ASSUME Tabled, NEW g \in Goals PROVE Cardinality(RunnersOf(g)) <= 1
    BY DEF OneRunner
  <2>1. RunnersOf(g) \subseteq {tracked[g]}
    BY DEF Tabled, RunnersOf
  <2>2. IsFiniteSet({tracked[g]}) /\ Cardinality({tracked[g]}) = 1
    BY FS_Singleton
  <2> QED  BY <2>1, <2>2, FS_Subset, FS_CardinalityType
<1>3. Typed /\ Tabled /\ [Next]_vars /\ [~Dropped]_vars => Tabled'
  <2>1. UNCHANGED vars => ~Dropped
    BY DEF vars, Dropped
  <2> QED  BY <2>1, TabledNext
<1> QED  BY <1>1, <1>2, <1>3, InitTyped, NextTyped, PTL DEF Spec
=============================================================================
