------------------------- MODULE SharedLedgerProofs -------------------------
(***************************************************************************)
(* The runners and the control center of JobFinder, composed, implement    *)
(* the ledger of ApplicationGoals: each of their steps is one of its       *)
(* transactions, or leaves the ledger alone.  What ApplicationGoalsProofs  *)
(* proves of the ledger then holds of the whole: of any number of runners, *)
(* handler threads, stops and restarts.                                    *)
(***************************************************************************)
EXTENDS JobFinderProofs

LP == INSTANCE ApplicationGoalsProofs

-----------------------------------------------------------------------------
\* The ledger of the model and that of the proofs are two instances of one
\* module, with the same substitutions.

LEMMA SameInit == Ledger!Init <=> LP!Init
  BY DEF Ledger!Init, LP!Init, Ledger!Goals, LP!Goals, Ledger!NoGoal, LP!NoGoal,
         Ledger!NoItem, LP!NoItem, Ledger!Unknown, LP!Unknown

LEMMA SameNext == [Ledger!Next]_ledgerVars <=> [LP!Next]_LP!vars
<1>1. Ledger!Next <=> LP!Next
  BY DEF Ledger!Next, LP!Next, Ledger!Goals, LP!Goals, Ledger!Status, LP!Status,
         Ledger!OpenStatus, LP!OpenStatus, Ledger!ItemState, LP!ItemState,
         Ledger!TokenState, LP!TokenState, Ledger!AllBands, LP!AllBands,
         Ledger!Unknown, LP!Unknown, Ledger!Legacy, LP!Legacy,
         Ledger!NoGoal, LP!NoGoal, Ledger!Exists, LP!Exists, Ledger!Known, LP!Known,
         Ledger!Create, LP!Create, Ledger!SetStatus, LP!SetStatus,
         Ledger!Observe, LP!Observe, Ledger!MergedBand, LP!MergedBand,
         Ledger!MergedState, LP!MergedState, Ledger!Reserve, LP!Reserve,
         Ledger!CanReserve, LP!CanReserve, Ledger!HasFreeToken, LP!HasFreeToken,
         Ledger!InBand, LP!InBand, Ledger!Confirm, LP!Confirm,
         Ledger!CanConfirm, LP!CanConfirm, Ledger!Counts, LP!Counts,
         Ledger!ConfirmKeepsCheck, LP!ConfirmKeepsCheck,
         Ledger!StatusAfterConfirm, LP!StatusAfterConfirm, Ledger!Bit, LP!Bit,
         Ledger!MinusToZero, LP!MinusToZero, Ledger!Release, LP!Release,
         Ledger!Releasable, LP!Releasable,
         Ledger!ApproveHumanReview, LP!ApproveHumanReview,
         Ledger!Cardinality, LP!Cardinality
<1> QED  BY <1>1 DEF ledgerVars, LP!vars

-----------------------------------------------------------------------------
\* Operations with the arguments the ledger knows are steps of the ledger.

LedgerStep == [Ledger!Next]_ledgerVars

LEMMA GoalSteps ==
    ASSUME NEW g \in Goals
    PROVE /\ \A plan \in Plans : Ledger!Create(g, plan) => LedgerStep
          /\ \A status : Ledger!SetStatus(g, status) => LedgerStep
<1>1. \A plan \in Plans : Ledger!Create(g, plan) => Ledger!Next
  BY DEF Ledger!Next, Goals
<1>2. ASSUME NEW status, Ledger!SetStatus(g, status) PROVE Ledger!Next
  <2>1. status \in Ledger!Status
    BY <1>2 DEF Ledger!SetStatus, Ledger!Status
  <2> QED  BY <1>2, <2>1 DEF Ledger!Next, Goals
<1> QED  BY <1>1, <1>2 DEF LedgerStep

LEMMA ItemSteps ==
    ASSUME NEW g \in Goals, NEW t \in Tasks
    PROVE /\ \A state, reviewable : \A band \in Ledger!AllBands :
               reviewable \in BOOLEAN /\ Ledger!Observe(g, t, state, band, reviewable) => LedgerStep
          /\ Ledger!Reserve(g, t) => LedgerStep
          /\ Ledger!Confirm(g, t) => LedgerStep
          /\ \A state : Ledger!Release(g, t, state) => LedgerStep
          /\ Ledger!ApproveHumanReview(g, t) => LedgerStep
<1>1. ASSUME NEW state, NEW band \in Ledger!AllBands, NEW reviewable \in BOOLEAN,
             Ledger!Observe(g, t, state, band, reviewable)
      PROVE Ledger!Next
  <2>1. state \in Ledger!ItemState
    BY <1>1 DEF Ledger!Observe, Ledger!ItemState
  <2> QED  BY <1>1, <2>1 DEF Ledger!Next, Goals
<1>2. ASSUME NEW state, Ledger!Release(g, t, state) PROVE Ledger!Next
  <2>1. state \in Ledger!ItemState
    BY <1>2 DEF Ledger!Release, Ledger!ItemState
  <2> QED  BY <1>2, <2>1 DEF Ledger!Next, Goals
<1>3. Ledger!Reserve(g, t) \/ Ledger!Confirm(g, t) \/ Ledger!ApproveHumanReview(g, t) => Ledger!Next
  BY DEF Ledger!Next, Goals
<1> QED  BY <1>1, <1>2, <1>3 DEF LedgerStep

LEMMA NoLedgerStep == ASSUME UNCHANGED ledgerVars PROVE LedgerStep
  BY DEF LedgerStep

-----------------------------------------------------------------------------
\* Runners

ItemTable == item \in [Goals -> [Tasks -> Ledger!ItemRow]]

\* The band a runner records is one the ledger knows.
LEMMA BandRecorded ==
    ASSUME ItemTable, NEW g \in Goals, NEW t \in Tasks
    PROVE BandToRecord(g, t) \in Ledger!AllBands
<1>1. item[g][t].band \in Ledger!AllBands
  BY DEF ItemTable, Ledger!ItemRow
<1>2. ListedBand[t] \in Ledger!AllBands
  BY RunnerAssumption DEF RunnerAssumption
<1> QED  BY <1>1, <1>2 DEF BandToRecord

LEMMA RunnerUse ==
    ASSUME Typed, ItemTable, NEW p \in Procs, RunnerStep(p)
    PROVE LedgerStep
<1> DEFINE g == proc[p].goal
<1>1. proc[p].pc # "dead" => g \in Goals
  BY DEF Typed, RunnersTyped, SoundRows, SoundRow
<1>2. proc[p].pc = "record" => proc[p].task \in Tasks
  BY DEF Typed, RunnersTyped, SoundRows, SoundRow
<1>3. CASE Activate(p) \/ FinishChild(p) \/ Write(p)
  <2>1. g \in Goals
    BY <1>1, <1>3 DEF Activate, FinishChild, Write
  <2>2. \E status : Ledger!SetStatus(g, status)
    BY <1>3 DEF Activate, FinishChild, Write
  <2> QED  BY <2>1, <2>2, GoalSteps
<1>4. ASSUME NEW t \in Tasks, NEW band \in RenderedBands, TakeClassified(p, t, band)
      PROVE LedgerStep
  <2>1. g \in Goals /\ Ledger!Observe(g, t, "observed", band, FALSE)
    BY <1>1, <1>4 DEF TakeClassified, Take
  <2>2. band \in Ledger!AllBands
    BY RunnerAssumption DEF RunnerAssumption
  <2> QED  BY <2>1, <2>2, ItemSteps
<1>5. ASSUME NEW t \in Tasks, NEW outcome \in Outcomes, Record(p, t, outcome)
      PROVE LedgerStep
  <2>1. /\ g \in Goals
        /\ Ledger!Observe(g, t, ItemStateOf(outcome), BandToRecord(g, t), outcome = "evidence_gap")
    BY <1>1, <1>5 DEF Record
  <2> QED  BY <2>1, BandRecorded, ItemSteps
<1>6. CASE RecordToken(p)
  <2>1. g \in Goals /\ proc[p].task \in Tasks
    BY <1>1, <1>2, <1>6 DEF RecordToken
  <2>2. \/ Ledger!Confirm(g, proc[p].task)
        \/ Ledger!Reserve(g, proc[p].task)
        \/ \E state : Ledger!Release(g, proc[p].task, state)
        \/ UNCHANGED ledgerVars
    BY <1>6 DEF RecordToken
  <2> QED  BY <2>1, <2>2, ItemSteps, NoLedgerStep
<1>7. CASE \/ Boot(p) \/ Announce(p) \/ Check(p) \/ StartChild(p) \/ EndChild(p)
           \/ Reread(p) \/ Judge(p) \/ Leave(p)
           \/ \E t \in Tasks : TakeUnclassified(p, t)
           \/ \E jobs \in SUBSET Tasks : Replay(p, jobs) \/ Collect(p, jobs)
           \/ \E want : CollectNothing(p, want)
  <2>1. UNCHANGED ledgerVars
    BY <1>7, Zenon
    DEF Boot, Announce, Check, StartChild, EndChild, Reread, Judge, Leave,
        TakeUnclassified, Replay, Collect, StartCycle, CollectNothing, ledgerVars
  <2> QED  BY <2>1, NoLedgerStep
<1> HIDE DEF g
<1> QED  BY <1>3, <1>4, <1>5, <1>6, <1>7 DEF RunnerStep

-----------------------------------------------------------------------------
\* Handlers: a thread whose next step is about an item has one.

ItemHeads == {"confirm", "release", "approve", "inspect", "queue"}
NamesTask(row) == row.todo # <<>> /\ Head(row.todo) \in ItemHeads => row.task \in Tasks
Tasked == \A h \in Threads : NamesTask(thread[h])

\* The lists that begin with another step.
OtherHeads ==
    Ends \cup Forgets \cup Kills \cup Terms \cup Owns \cup Files \cup Looks \cup
    {<<"wake">>, <<"create">>, <<"spawn">>, Launch, Wake, Stop,
     <<"activate", "look", "file", "wake">>,
     <<"skip", "newest", "look", "file", "wake">>, <<"newest", "look", "file", "wake">>}

LEMMA OtherHeadsFirst == \A s \in OtherHeads : s # <<>> => Head(s) \notin ItemHeads
<1>1. \A s \in Ends \cup Forgets \cup Kills \cup Terms \cup Owns \cup Files \cup Looks :
        s # <<>> => Head(s) \notin ItemHeads
  BY StopLists DEF ItemHeads
<1>2. \A s \in {<<"wake">>, <<"create">>, <<"spawn">>, Launch, Wake, Stop,
                <<"activate", "look", "file", "wake">>,
                <<"skip", "newest", "look", "file", "wake">>,
                <<"newest", "look", "file", "wake">>} : Head(s) \notin ItemHeads
  BY OthersFirst DEF ItemHeads
<1> QED  BY <1>1, <1>2 DEF OtherHeads

\* Only the inspection of an item is followed by a step about one.
LEMMA GoesOn ==
    ASSUME NEW s \in Todos, s # <<>>, Head(s) \notin {"inspect"}
    PROVE Head(s) \in {"look", "file", "own", "term", "kill", "forget", "cancelled", "check",
                       "spawn", "approve", "queue", "activate", "skip", "newest"}
          => Tail(s) \in OtherHeads
<1>1. <<>> \in OtherHeads
  BY DEF OtherHeads, Ends
<1> QED  BY <1>1, TodoSteps, Zenon DEF OtherHeads, Wake

LEMMA BecomeTasked ==
    ASSUME Typed, Tasked, NEW h \in Threads, NEW row, NamesTask(row), Become(h, row)
    PROVE Tasked'
<1>1. thread \in [Threads -> ThreadRows]
  BY DEF Typed, ThreadsTyped
<1>2. \A k \in Threads : thread'[k] \in {thread[k], Idle, row}
  BY <1>1 DEF Become
<1> QED  BY <1>2, IdleRow DEF Tasked, NamesTask

LEMMA ContinueTasked ==
    ASSUME Typed, Tasked, NEW h \in Threads, NEW todo \in OtherHeads, Continue(h, todo)
    PROVE Tasked'
<1>1. PICK row : row = [thread[h] EXCEPT !.todo = todo]
  OBVIOUS
<1>2. row.todo = todo
  BY <1>1, ThreadParts DEF Typed, ThreadRow
<1>3. NamesTask(row)
  BY <1>2, OtherHeadsFirst DEF NamesTask
<1> QED  BY <1>1, <1>3, BecomeTasked DEF Continue

LEMMA FinishTasked ==
    ASSUME Typed, Tasked, NEW h \in Threads, Finish(h)
    PROVE Tasked'
<1>1. <<>> \in OtherHeads
  BY DEF OtherHeads, Ends
<1> QED  BY <1>1, ContinueTasked DEF Finish

LEMMA RequestTasked ==
    ASSUME Typed, Tasked, NEW h \in Threads, UserRequest(h)
    PROVE Tasked'
<1>1. ASSUME NEW kind \in RequestKinds, NEW g, NEW t, NEW role, Request(h, kind, g, t, role),
             t \in Tasks \/ Program(kind) \in OtherHeads \/ kind \in {"start", "clear"}
      PROVE Tasked'
  <2>1. PICK row : row = [Idle EXCEPT !.kind = kind, !.todo = Program(kind), !.goal = g,
                                      !.task = t, !.role = role]
    OBVIOUS
  <2>2. row.todo = Program(kind) /\ row.task = t
    BY <2>1 DEF Idle
  <2>3. kind \in {"start", "clear"} => Head(Program(kind)) \notin ItemHeads
    BY ProgramLists DEF ItemHeads
  <2>4. NamesTask(row)
    BY <1>1, <2>2, <2>3, OtherHeadsFirst DEF NamesTask
  <2> QED  BY <1>1, <2>1, <2>4, BecomeTasked DEF Request
<1>2. CASE GoalRequest(h)
  <2>1. PICK kind \in {"resume", "cancel"}, g \in Goals : Request(h, kind, g, NoTask, "none")
    BY <1>2 DEF GoalRequest
  <2>2. Program("resume") \in OtherHeads
    BY DEF Program, OtherHeads
  <2>3. Program("cancel") \in OtherHeads
    <3>1. Program("cancel") = <<"look", "file", "own", "term", "kill", "forget", "cancelled">>
      BY DEF Program
    <3>2. Program("cancel") \in Looks
      BY <3>1, WholeLists
    <3> QED  BY <3>2 DEF OtherHeads
  <2> QED  BY <1>1, <2>1, <2>2, <2>3 DEF RequestKinds
<1>3. CASE ItemRequest(h)
  BY <1>1, <1>3 DEF ItemRequest, RequestKinds
<1>4. CASE StartRequest(h)
  BY <1>1, <1>4 DEF StartRequest, RequestKinds
<1>5. CASE ClearRequest(h)
  BY <1>1, <1>5 DEF ClearRequest, RequestKinds
<1> QED  BY <1>2, <1>3, <1>4, <1>5 DEF UserRequest

\* The steps that go on with the rest of their list, or end.
LEMMA ProceedTasked ==
    ASSUME Typed, Tasked, NEW h \in Threads, NEW step, At(h, step), Proceed(h),
           step \in {"look", "file", "own", "term", "kill", "forget", "cancelled", "check",
                     "spawn", "approve", "queue", "activate", "skip", "newest"}
    PROVE Tasked'
<1>1. thread[h].todo \in Todos /\ thread[h].todo # <<>> /\ Head(thread[h].todo) = step
  BY AtStep
<1>2. Rest(h) \in OtherHeads
  BY <1>1, GoesOn DEF Rest
<1> QED  BY <1>2, ContinueTasked DEF Proceed

\* ... or with the rest of it, with other findings.
LEMMA FoundTasked ==
    ASSUME Typed, Tasked, NEW h \in Threads, NEW todo \in OtherHeads, NEW row,
           row.todo = todo, Become(h, row)
    PROVE Tasked'
<1>1. NamesTask(row)
  BY OtherHeadsFirst DEF NamesTask
<1> QED  BY <1>1, BecomeTasked

LEMMA StopTasked ==
    ASSUME Typed, Tasked, NEW h \in Threads,
           \/ LookAtTable(h) \/ LookAtFile(h) \/ WakeRunner(h) \/ OwnProcess(h)
           \/ Terminate(h) \/ Kill(h) \/ Forget(h) \/ Cancelled(h)
           \/ CheckLaunch(h) \/ Spawn(h)
    PROVE Tasked'
<1>1. CASE LookAtTable(h)
  <2>1. /\ Rest(h) \in OtherHeads /\ Tail(Rest(h)) \in OtherHeads
        /\ thread[h] \in ThreadRow
    BY <1>1, AtStep, TodoSteps DEF LookAtTable, Rest, OtherHeads
  <2>2. CASE Proceed(h)
    BY <2>1, <2>2, ContinueTasked DEF Proceed
  <2>3. ASSUME NEW f, NEW p,
               Become(h, [thread[h] EXCEPT !.todo = Tail(Rest(h)), !.found = f, !.pid = p])
        PROVE Tasked'
    <3>1. PICK row : row = [thread[h] EXCEPT !.todo = Tail(Rest(h)), !.found = f, !.pid = p]
      OBVIOUS
    <3>2. row.todo = Tail(Rest(h))
      BY <2>1, <3>1 DEF ThreadRow
    <3> QED  BY <2>1, <2>3, <3>1, <3>2, FoundTasked
  <2> QED  BY <1>1, <2>2, <2>3 DEF LookAtTable
<1>2. CASE LookAtFile(h)
  <2>1. Rest(h) \in OtherHeads /\ thread[h] \in ThreadRow
    BY <1>2, AtStep, TodoSteps DEF LookAtFile, Rest, OtherHeads
  <2>2. PICK f, p, row : row = [thread[h] EXCEPT !.todo = Rest(h), !.found = f, !.pid = p]
                         /\ Become(h, row)
    BY <1>2 DEF LookAtFile
  <2>3. row.todo = Rest(h)
    BY <2>1, <2>2 DEF ThreadRow
  <2> QED  BY <2>1, <2>2, <2>3, FoundTasked
<1>3. CASE WakeRunner(h)
  <2>1. <<>> \in OtherHeads /\ Launch \in OtherHeads
    BY DEF OtherHeads, Ends
  <2>2. thread[h] \in ThreadRow
    BY <1>3, AtStep DEF WakeRunner
  <2>3. PICK todo \in {<<>>, Launch} : \E row :
          row = [thread[h] EXCEPT !.found = FALSE, !.pid = None, !.todo = todo] /\ Become(h, row)
    BY <1>3 DEF WakeRunner
  <2>4. PICK row :
          row = [thread[h] EXCEPT !.found = FALSE, !.pid = None, !.todo = todo] /\ Become(h, row)
    BY <2>3
  <2>5. row.todo = todo
    BY <2>2, <2>4 DEF ThreadRow
  <2> QED  BY <2>1, <2>4, <2>5, FoundTasked
<1>4. CASE OwnProcess(h)
  <2>1. /\ Rest(h) \in OtherHeads /\ Tail(Tail(Rest(h))) \in OtherHeads
        /\ thread[h] \in ThreadRow
    BY <1>4, AtStep, TodoSteps DEF OwnProcess, Rest, OtherHeads
  <2>2. CASE Continue(h, Tail(Tail(Rest(h))))
    BY <2>1, <2>2, ContinueTasked
  <2>3. ASSUME NEW p, Become(h, [thread[h] EXCEPT !.todo = Rest(h), !.owned = p])
        PROVE Tasked'
    <3>1. PICK row : row = [thread[h] EXCEPT !.todo = Rest(h), !.owned = p]
      OBVIOUS
    <3>2. row.todo = Rest(h)
      BY <2>1, <3>1 DEF ThreadRow
    <3> QED  BY <2>1, <2>3, <3>1, <3>2, FoundTasked
  <2> QED  BY <1>4, <2>2, <2>3 DEF OwnProcess
<1>5. CASE Terminate(h) \/ Kill(h) \/ Cancelled(h) \/ Spawn(h)
  BY <1>5, ProceedTasked DEF Terminate, Kill, Cancelled, Spawn
<1>6. CASE Forget(h)
  <2>1. Rest(h) \in OtherHeads /\ thread[h] \in ThreadRow
    BY <1>6, AtStep, TodoSteps DEF Forget, Rest, OtherHeads
  <2>2. PICK row : row = [thread[h] EXCEPT !.todo = Rest(h), !.found = FALSE,
                                           !.pid = None, !.owned = None]
                   /\ Become(h, row)
    BY <1>6 DEF Forget
  <2>3. row.todo = Rest(h)
    BY <2>1, <2>2 DEF ThreadRow
  <2> QED  BY <2>1, <2>2, <2>3, FoundTasked
<1>7. CASE CheckLaunch(h)
  BY <1>7, ProceedTasked, FinishTasked DEF CheckLaunch
<1> QED  BY <1>1, <1>2, <1>3, <1>4, <1>5, <1>6, <1>7

LEMMA GoalTasked ==
    ASSUME Typed, Tasked, NEW h \in Threads,
           Previous(h) \/ CreateGoal(h) \/ ConfirmItem(h) \/ ReleaseItem(h) \/ ReviveGoal(h)
    PROVE Tasked'
<1>1. {<<"create">>, Launch, Wake, Stop, <<>>} \cup Looks \subseteq OtherHeads
  BY DEF OtherHeads, Ends
<1>2. CASE Previous(h)
  <2>1. <<"look", "file", "own", "term", "kill", "forget", "cancelled", "create">> \in OtherHeads
    BY <1>1, WholeLists
  <2>2. thread[h] \in ThreadRow
    BY <1>2, AtStep DEF Previous
  <2>3. ASSUME NEW g, Become(h, [thread[h] EXCEPT !.goal = g,
                  !.todo = <<"look", "file", "own", "term", "kill", "forget", "cancelled", "create">>])
        PROVE Tasked'
    <3>1. PICK row : row = [thread[h] EXCEPT !.goal = g,
                  !.todo = <<"look", "file", "own", "term", "kill", "forget", "cancelled", "create">>]
      OBVIOUS
    <3>2. row.todo = <<"look", "file", "own", "term", "kill", "forget", "cancelled", "create">>
      BY <2>2, <3>1 DEF ThreadRow
    <3> QED  BY <2>1, <2>3, <3>1, <3>2, FoundTasked
  <2> QED  BY <1>1, <1>2, <2>3, ContinueTasked DEF Previous
<1>3. CASE CreateGoal(h)
  <2>1. thread[h] \in ThreadRow
    BY <1>3, AtStep DEF CreateGoal
  <2>2. ASSUME NEW g, Become(h, [thread[h] EXCEPT !.goal = g, !.todo = Launch])
        PROVE Tasked'
    <3>1. PICK row : row = [thread[h] EXCEPT !.goal = g, !.todo = Launch]
      OBVIOUS
    <3>2. row.todo = Launch
      BY <2>1, <3>1 DEF ThreadRow
    <3> QED  BY <1>1, <2>2, <3>1, <3>2, FoundTasked
  <2> QED  BY <1>3, <2>2, FinishTasked DEF CreateGoal
<1>4. CASE ConfirmItem(h) \/ ReleaseItem(h)
  <2>1. \E todo \in {Stop, Wake, <<>>} : Continue(h, todo)
    BY <1>4 DEF ConfirmItem, ReleaseItem, AfterToken, Finish
  <2> QED  BY <1>1, <2>1, ContinueTasked
<1>5. CASE ReviveGoal(h)
  BY <1>5, ProceedTasked DEF ReviveGoal
<1> QED  BY <1>2, <1>3, <1>4, <1>5

LEMMA GateTasked ==
    ASSUME Typed, Tasked, NEW h \in Threads,
           \/ ApproveReview(h) \/ Inspect(h) \/ Queue(h)
           \/ Match(h) \/ SkipDuplicates(h) \/ Newest(h)
    PROVE Tasked'
<1>1. CASE ApproveReview(h)
  BY <1>1, ProceedTasked, FinishTasked DEF ApproveReview
<1>2. CASE Inspect(h)
  <2>1. thread[h] \in ThreadRow /\ thread[h].task \in Tasks
    BY <1>2, AtStep DEF Inspect, Tasked, NamesTask, ItemHeads
  <2>2. ASSUME Proceed(h) PROVE Tasked'
    <3>1. PICK row : row = [thread[h] EXCEPT !.todo = Rest(h)]
      OBVIOUS
    <3>2. row.task = thread[h].task
      BY <2>1, <3>1 DEF ThreadRow
    <3> QED  BY <2>1, <2>2, <3>1, <3>2, BecomeTasked DEF Proceed, Continue, NamesTask
  <2> QED  BY <1>2, <2>2, FinishTasked DEF Inspect
<1>3. CASE Queue(h)
  BY <1>3, ProceedTasked DEF Queue
<1>4. CASE Match(h)
  <2>1. thread[h] \in ThreadRow
    BY <1>4, AtStep DEF Match
  <2>2. ASSUME NEW g, NEW t \in Tasks, NEW rest,
               Become(h, [thread[h] EXCEPT !.goal = g, !.task = t, !.rest = rest,
                            !.todo = <<"queue", "skip", "newest", "look", "file", "wake">>])
        PROVE Tasked'
    <3>1. PICK row : row = [thread[h] EXCEPT !.goal = g, !.task = t, !.rest = rest,
                              !.todo = <<"queue", "skip", "newest", "look", "file", "wake">>]
      OBVIOUS
    <3>2. row.task = t
      BY <2>1, <3>1 DEF ThreadRow
    <3> QED  BY <2>2, <3>1, <3>2, BecomeTasked DEF NamesTask
  <2>3. <<"newest", "look", "file", "wake">> \in OtherHeads
    BY DEF OtherHeads
  <2> QED  BY <1>4, <2>2, <2>3, ContinueTasked DEF Match
<1>5. CASE SkipDuplicates(h)
  <2>1. /\ thread[h] \in ThreadRow /\ thread[h].todo # <<>>
        /\ Head(thread[h].todo) = "skip"
    BY <1>5, AtStep DEF SkipDuplicates
  <2>2. ASSUME NEW t, Become(h, [thread[h] EXCEPT !.rest = @ \ {t}])
        PROVE Tasked'
    <3>1. PICK row : row = [thread[h] EXCEPT !.rest = @ \ {t}]
      OBVIOUS
    <3>2. row.todo = thread[h].todo
      BY <2>1, <3>1 DEF ThreadRow
    <3>3. NamesTask(row)
      BY <2>1, <3>2 DEF NamesTask, ItemHeads
    <3> QED  BY <2>2, <3>1, <3>3, BecomeTasked
  <2> QED  BY <1>5, <2>2, ProceedTasked DEF SkipDuplicates
<1>6. CASE Newest(h)
  <2>1. Rest(h) \in OtherHeads /\ thread[h] \in ThreadRow
    BY <1>6, AtStep, TodoSteps, WholeLists DEF Newest, Rest, OtherHeads, Wake
  <2>2. ASSUME NEW g, Become(h, [thread[h] EXCEPT !.goal = g, !.todo = Rest(h)])
        PROVE Tasked'
    <3>1. PICK row : row = [thread[h] EXCEPT !.goal = g, !.todo = Rest(h)]
      OBVIOUS
    <3>2. row.todo = Rest(h)
      BY <2>1, <3>1 DEF ThreadRow
    <3> QED  BY <2>1, <2>2, <3>1, <3>2, FoundTasked
  <2> QED  BY <1>6, <2>2, FinishTasked DEF Newest
<1> QED  BY <1>1, <1>2, <1>3, <1>4, <1>5, <1>6

LEMMA NextTasked == Typed /\ Tasked /\ [Next]_vars => Tasked'
<1> SUFFICES ASSUME Typed, Tasked, [Next]_vars PROVE Tasked'
  OBVIOUS
<1>1. CASE UNCHANGED thread
  BY <1>1 DEF Tasked
<1>2. ASSUME NEW h \in Threads, HandlerStep(h) \/ UserRequest(h) PROVE Tasked'
  BY <1>2, RequestTasked, StopTasked, GoalTasked, GateTasked DEF HandlerStep
<1>3. CASE Restart
  BY <1>3, IdleRow DEF Restart, Tasked, NamesTask
<1> QED  BY <1>1, <1>2, <1>3 DEF Next, vars

\* A handler writes to the ledger by its operations, with arguments it knows.
LEMMA HandlerUse ==
    ASSUME Typed, Tasked, NEW h \in Threads, HandlerStep(h) \/ UserRequest(h)
    PROVE LedgerStep
<1> DEFINE g == thread[h].goal
           t == thread[h].task
<1>1. ASSUME NEW step \in ItemHeads, At(h, step) PROVE g \in Goals /\ t \in Tasks
  <2>1. step \notin Goalless
    BY DEF ItemHeads, Goalless
  <2> QED  BY <1>1, <2>1, AtStep DEF Tasked, NamesTask
<1>2. CASE ConfirmItem(h)
  <2>1. g \in Goals /\ t \in Tasks
    BY <1>1, <1>2 DEF ConfirmItem, ItemHeads
  <2>2. Ledger!Confirm(g, t) \/ UNCHANGED ledgerVars
    BY <1>2 DEF ConfirmItem
  <2> QED  BY <2>1, <2>2, ItemSteps, NoLedgerStep
<1>3. CASE ReleaseItem(h)
  <2>1. g \in Goals /\ t \in Tasks
    BY <1>1, <1>3 DEF ReleaseItem, ItemHeads
  <2>2. Ledger!Release(g, t, "released") \/ UNCHANGED ledgerVars
    BY <1>3 DEF ReleaseItem
  <2> QED  BY <2>1, <2>2, ItemSteps, NoLedgerStep
<1>4. CASE ApproveReview(h)
  <2>1. g \in Goals /\ t \in Tasks
    BY <1>1, <1>4 DEF ApproveReview, ItemHeads
  <2>2. Ledger!ApproveHumanReview(g, t) \/ UNCHANGED ledgerVars
    BY <1>4 DEF ApproveReview
  <2> QED  BY <2>1, <2>2, ItemSteps, NoLedgerStep
<1>5. CASE Queue(h)
  <2>1. g \in Goals /\ t \in Tasks
    BY <1>1, <1>5 DEF Queue, ItemHeads
  <2>2. Ledger!Observe(g, t, "observed", Ledger!Legacy, FALSE)
    BY <1>5 DEF Queue
  <2>3. Ledger!Legacy \in Ledger!AllBands
    BY DEF Ledger!AllBands
  <2> QED  BY <2>1, <2>2, <2>3, ItemSteps
<1>6. CASE ReviveGoal(h) \/ Cancelled(h)
  <2>1. g \in Goals
    BY <1>6, AtStep DEF ReviveGoal, Cancelled, Goalless
  <2>2. \E status : Ledger!SetStatus(g, status)
    BY <1>6 DEF ReviveGoal, Cancelled
  <2> QED  BY <2>1, <2>2, GoalSteps
<1>7. CASE CreateGoal(h)
  BY <1>7, GoalSteps, NoLedgerStep DEF CreateGoal
<1>8. CASE SkipDuplicates(h)
  <2>1. g \in Goals /\ thread[h].rest \subseteq Tasks
    BY <1>8, AtStep DEF SkipDuplicates, Goalless, ThreadRow
  <2>2. \/ \E u \in thread[h].rest : Ledger!Observe(g, u, "skipped", Ledger!Legacy, FALSE)
        \/ UNCHANGED ledgerVars
    BY <1>8 DEF SkipDuplicates
  <2>3. Ledger!Legacy \in Ledger!AllBands
    BY DEF Ledger!AllBands
  <2> QED  BY <2>1, <2>2, <2>3, ItemSteps, NoLedgerStep
<1>9. CASE \/ CheckLaunch(h) \/ Spawn(h) \/ LookAtTable(h) \/ LookAtFile(h) \/ WakeRunner(h)
           \/ OwnProcess(h) \/ Terminate(h) \/ Kill(h) \/ Forget(h) \/ Previous(h)
           \/ Inspect(h) \/ Match(h) \/ Newest(h) \/ UserRequest(h)
  <2>1. UNCHANGED ledgerVars
    BY <1>9, Zenon
    DEF CheckLaunch, Spawn, LookAtTable, LookAtFile, WakeRunner, OwnProcess, Terminate, Kill,
        Forget, Previous, Inspect, Match, Newest, UserRequest, GoalRequest, ItemRequest,
        StartRequest, ClearRequest, Request, ledgerVars
  <2> QED  BY <2>1, NoLedgerStep
<1> HIDE DEF g, t
<1> QED  BY <1>2, <1>3, <1>4, <1>5, <1>6, <1>7, <1>8, <1>9 DEF HandlerStep

-----------------------------------------------------------------------------
\* The composition

\* The ledger's own invariant stands beside the types of its users: a runner records
\* the band that an item's row has.
SharedInv == Typed /\ Tasked /\ LP!IInv

LEMMA ItemsTyped == ASSUME LP!IInv PROVE ItemTable
  BY DEF LP!IInv, LP!TypeOK, ItemTable, Goals, Ledger!Goals, LP!Goals,
         LP!ItemRow, Ledger!ItemRow, LP!ItemState, Ledger!ItemState, LP!TokenState,
         Ledger!TokenState, LP!AllBands, Ledger!AllBands, LP!Unknown, Ledger!Unknown,
         LP!Legacy, Ledger!Legacy

LEMMA NextIsLedgerStep == SharedInv /\ [Next]_vars => LedgerStep
<1> SUFFICES ASSUME SharedInv, [Next]_vars PROVE LedgerStep
  OBVIOUS
<1>1. ASSUME NEW p \in Procs, RunnerStep(p) PROVE LedgerStep
  BY <1>1, RunnerUse, ItemsTyped DEF SharedInv
<1>2. ASSUME NEW h \in Threads, HandlerStep(h) \/ UserRequest(h) PROVE LedgerStep
  BY <1>2, HandlerUse DEF SharedInv
<1>3. CASE Restart \/ UNCHANGED vars
  BY <1>3, NoLedgerStep DEF Restart, vars, ledgerVars
<1> QED  BY <1>1, <1>2, <1>3 DEF Next

\* The constants are ones the ledger's proofs assume.
LEMMA LedgerAssumed ==
    /\ MaxGoals \in Nat
    /\ LP!IsFiniteSet(Tasks)
    /\ {LP!Unknown, LP!Legacy} \cap Bands = {}
    /\ Plans \subseteq [target : Nat \ {0}, quota : [Bands -> Nat]]
  BY RunnerAssumption
  DEF RunnerAssumption, LP!IsFiniteSet, IsFiniteSet, LP!Unknown, Ledger!Unknown,
      LP!Legacy, Ledger!Legacy

LEMMA SharedInvariance == Spec => []SharedInv
<1>1. Init => SharedInv
  <2> SUFFICES ASSUME Init PROVE SharedInv
    OBVIOUS
  <2>1. LP!Init
    BY SameInit DEF Init, RunnerInit
  <2>2. LP!IInv
    BY <2>1, LP!InitIInv, LedgerAssumed
  <2>3. Tasked
    BY IdleRow DEF Init, Tasked, NamesTask
  <2> QED  BY <2>2, <2>3, InitTyped DEF SharedInv
<1>2. SharedInv /\ [Next]_vars => SharedInv'
  <2> SUFFICES ASSUME SharedInv, [Next]_vars PROVE SharedInv'
    OBVIOUS
  <2>1. [LP!Next]_LP!vars
    BY NextIsLedgerStep, SameNext DEF LedgerStep
  <2>2. LP!IInv'
    BY <2>1, LP!NextIInv, LedgerAssumed DEF SharedInv
  <2> QED  BY <2>2, NextTyped, NextTasked DEF SharedInv
<1> QED  BY <1>1, <1>2, PTL DEF Spec

\* The control center and its runners use the ledger only through its operations,
\* whichever of them share it and whenever the control center is restarted.
THEOREM LedgerIsShared == Spec => LedgerContract
<1>1. Init => Ledger!Init
  BY DEF Init, RunnerInit
<1>2. SharedInv /\ [Next]_vars => [Ledger!Next]_Ledger!vars
  BY NextIsLedgerStep DEF LedgerStep, ledgerVars, Ledger!vars
<1> QED  BY <1>1, <1>2, SharedInvariance, PTL DEF Spec, LedgerContract, Ledger!Spec

LEMMA SameProperties ==
    /\ LP!CountersMatchItems => Ledger!CountersMatchItems
    /\ LP!TokensWithinTarget => Ledger!TokensWithinTarget
    /\ LP!TargetReachedIsTrue => Ledger!TargetReachedIsTrue
  BY DEF LP!CountersMatchItems, Ledger!CountersMatchItems, LP!TokensWithinTarget,
         Ledger!TokensWithinTarget, LP!TargetReachedIsTrue, Ledger!TargetReachedIsTrue,
         LP!Goals, Ledger!Goals, LP!Held, Ledger!Held, LP!Spent, Ledger!Spent,
         LP!Cardinality, Ledger!Cardinality

\* However many runners, handlers and restarted control centers share a goal, its
\* counters are those of its items, no more tokens are out than it has applications
\* to send, and target_reached, which ends its runner, is true when it is shown.
THEOREM GoalsSafeWhenShared ==
    Spec => [](/\ Ledger!CountersMatchItems
               /\ Ledger!TokensWithinTarget
               /\ Ledger!TargetReachedIsTrue)
<1>1. SharedInv => /\ Ledger!CountersMatchItems
                   /\ Ledger!TokensWithinTarget
                   /\ Ledger!TargetReachedIsTrue
  BY LP!InvariantSuffices, LedgerAssumed, SameProperties DEF SharedInv
<1> QED  BY <1>1, SharedInvariance, PTL
=============================================================================
