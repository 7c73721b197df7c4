-------------------------- MODULE HumanGatesProofs --------------------------
(***************************************************************************)
(* What HumanGates promises, proved for every form, any number of tabs,    *)
(* requests, moves of the owner, access checks and crashes: a gate is      *)
(* passed only as approved (GatesAreApproved), and an approval of answers  *)
(* is used once more for every crash at most (ApprovalsAreUsedUp).         *)
(*                                                                         *)
(* The invariant, IInv, has three parts.  Typed says what the parts of the *)
(* state are.  Vetted follows an approval from the owner to the click: the *)
(* queue, the handler and the worker hold no permission the owner has not  *)
(* given.  Counted says where an approval of answers that has been used    *)
(* can still stand in the queue: only until the worker has gone on, or     *)
(* after an attempt that failed, whose item is never taken up again.       *)
(*                                                                         *)
(* The proofs go by what a step does to one part of the state after the    *)
(* other: the queue, the pages, the item, the worker and the handler.      *)
(***************************************************************************)
EXTENDS HumanGates, Integers, TLAPS

Sets == QuestionSets \cup {NoSet}
SomeTab == Tabs \cup {NoTab}
Groups == {"none", "access_verification", "human_intervention"}
Entries == [status : {"absent", "pending", "resolved"}, group : Groups,
            tab : SomeTab, goal : BOOLEAN, grant : BOOLEAN, spent : BOOLEAN,
            set : Sets]

RouteRows == [place : Modules, set : Sets]
PageRows == [view : {"closed", "listing", "form", "post_apply", "company"},
             pos : 0..Len(route), uploaded : BOOLEAN, answered : BOOLEAN,
             blocked : BOOLEAN]
\* A form stands at one of its modules.
Pages == {p \in PageRows : p.view = "form" => p.pos \in DOMAIN route}

Items == [state : TokenStates \cup {"observed", "human_handoff", "skipped",
                                    "failed", "released"},
          why : Outcomes \cup {"none", "evidence", "replay", "released"},
          approved : BOOLEAN]

Stops == Outcomes \cup {"after_upload", "next_page"}
Pcs == {"idle", "find", "open", "company", "listing_access", "listing",
        "evidence", "access", "approvals", "pass", "module", "after", "finish",
        "gate", "record", "token"}
Attempts == [pc : Pcs, tab : SomeTab, up : BOOLEAN, cont : BOOLEAN, set : Sets,
             plan : {"none", "ready", "unresolved"},
             acts : SUBSET {"answer", "continue", "upload"},
             passes : 0..(MaxPasses - 1), stop : Stops \cup {"none"}]
\* The worker has a tab while it is in the form, and a reason once it has
\* stopped there; what is recorded is an outcome.
Working(a) ==
    /\ a \in Attempts
    /\ a.pc \in {"approvals", "pass", "module", "after"} => a.tab \in Tabs
    /\ a.pc \in {"after", "finish", "gate"} => a.stop \in Stops
    /\ a.pc \in {"record", "token"} => a.stop \in Outcomes

Desks == [op : {"none", "reattach", "enqueue", "resolve", "clear", "grant",
                "replay"},
          k : Gates, tab : SomeTab, set : Sets]
\* A resume gate is approved as such, a question gate with its questions.
Handling(d) ==
    /\ d \in Desks
    /\ d.op = "grant" => /\ d.k \in Approvable
                         /\ d.k \in ResumeGates => d.set = NoSet

Budgets == [requests : Int, moves : Int, checks : Int, deaths : Int]
Within(b) == b \in Budgets /\ b.deaths <= MaxDeaths

Typed ==
    /\ queue \in [Gates -> Entries]
    /\ route \in Routes /\ mode \in Modes
    /\ page \in [Tabs -> Pages]
    /\ item \in Items
    /\ Working(attempt)
    /\ Handling(desk)
    /\ Within(left)
    /\ given \subseteq Asks /\ taken \subseteq Asks
    /\ uses \in [Approvable -> Nat]

\* A pending entry holds no grant, and a grant is one of the owner's.
VettedEntry(k) ==
    /\ Pending(k) => ~queue[k].grant
    /\ queue[k].grant => Approved(k, queue[k].set)
    /\ k \in ResumeGates => queue[k].set = NoSet
\* The permissions the worker has read are the owner's.
VettedAttempt ==
    /\ mode = "assisted" =>
         /\ attempt.up => Approved("resume_upload", NoSet)
         /\ attempt.cont => Approved("resume_continue", NoSet)
    /\ mode = "draft" => ~attempt.up /\ ~attempt.cont
    /\ attempt.pc = "module" /\ attempt.set # NoSet =>
         Approved("unknown_question", attempt.set) /\ mode # "draft"
Vetted ==
    /\ \A k \in Gates : VettedEntry(k)
    /\ VettedAttempt
    /\ NoGateOpensItself

Deaths == MaxDeaths - left.deaths
Answers == uses["unknown_question"]
\* The click has been made, its consumption has not.
Owed ==
    /\ "answer" \in attempt.acts
    /\ \/ attempt.pc \in {"module", "after"}
       \/ attempt.pc \in {"record", "token"} /\ attempt.stop = "failed"
Ended == {"failed", "skipped", "released", "confirmed"}
Over == attempt.pc = "idle" /\ item.state \in Ended
Counted ==
    /\ Answers <= 1 + Deaths
    /\ attempt.pc = "module" /\ attempt.set # NoSet => Answers <= Deaths
    /\ Granted("unknown_question") => Answers <= Deaths \/ Owed \/ Over

IInv == Typed /\ Vetted /\ Counted

-----------------------------------------------------------------------------
\* The names of the gates.
LEMMA GateNames ==
    /\ AccessGates \subseteq Gates /\ LayoutGates \subseteq Gates
    /\ ResumeGates \subseteq Gates /\ Approvable \subseteq Gates
    /\ {"access", "listing_access", "unknown_question", "external_application",
        "layout_review", "listing_layout", "resume_upload",
        "resume_continue"} \subseteq Gates
  BY DEF Gates, AccessGates, LayoutGates, ResumeGates, Approvable

LEMMA TabNames == NoTab \in SomeTab /\ Tabs \subseteq SomeTab /\ NoTab \notin Tabs
  BY DEF SomeTab, Tabs, NoTab

LEMMA EntryTyped ==
    ASSUME NEW group \in Groups, NEW tab \in SomeTab, NEW goal \in BOOLEAN,
           NEW k \in Gates, queue \in [Gates -> Entries]
    PROVE  /\ Enqueued(k, group, tab, goal) \in Entries
           /\ Enqueued(k, group, tab, goal).status = "pending"
           /\ ~Enqueued(k, group, tab, goal).grant
           /\ Enqueued(k, group, tab, goal).set = NoSet
<1>1. queue[k] \in Entries
  OBVIOUS
<1>. QED
  BY <1>1, TabNames DEF Enqueued, NoEntry, Entries, Sets

-----------------------------------------------------------------------------
\* The queue.  Nobody but Grant puts a grant into it.

Quiet ==
    /\ queue' \in [Gates -> Entries]
    /\ \A k \in Gates :
         /\ queue'[k].status = "pending" => ~queue'[k].grant
         /\ queue'[k].grant => /\ queue[k].grant
                               /\ queue'[k].set = queue[k].set
         /\ k \in ResumeGates => queue'[k].set = NoSet
         /\ Granted(k)' => Granted(k)
Settled == queue \in [Gates -> Entries] /\ \A k \in Gates : VettedEntry(k)

LEMMA SameQueue == ASSUME Settled, UNCHANGED queue PROVE Quiet
  BY DEF Settled, Quiet, VettedEntry, Granted, Pending

LEMMA EnqueueQuiet ==
    ASSUME Settled, NEW k \in Gates, NEW group \in Groups, NEW tab \in SomeTab,
           NEW goal \in BOOLEAN, Enqueue(k, group, tab, goal)
    PROVE  Quiet
<1>. DEFINE new == Enqueued(k, group, tab, goal)
<1>1. /\ new \in Entries /\ new.status = "pending" /\ ~new.grant
      /\ new.set = NoSet
  BY EntryTyped DEF Settled
<1>2. queue' = [queue EXCEPT ![k] = new]
  BY DEF Enqueue
<1>. HIDE DEF new
<1>. QED
  BY <1>1, <1>2 DEF Settled, Quiet, VettedEntry, Granted, Pending

LEMMA ResolveQuiet ==
    ASSUME Settled, NEW gates, Resolve(gates)
    PROVE  Quiet
<1>1. queue' \in [Gates -> Entries]
  BY DEF Settled, Resolve, Entries
<1>2. ASSUME NEW k \in Gates
      PROVE  /\ queue'[k].grant = queue[k].grant /\ queue'[k].set = queue[k].set
             /\ queue'[k].spent = queue[k].spent /\ queue[k] \in Entries
             /\ \/ queue'[k].status = queue[k].status
                \/ queue'[k].status = "resolved" /\ queue[k].status # "absent"
  BY DEF Settled, Resolve, Entries
<1>. QED
  BY <1>1, <1>2 DEF Settled, Quiet, VettedEntry, Granted, Pending, Entries

LEMMA ReattachQuiet ==
    ASSUME Settled, NEW k \in Gates, NEW tab \in SomeTab,
           Reattach(k, tab, TRUE)
    PROVE  Quiet
<1>1. Pending(k) /\ queue' \in [Gates -> Entries]
  BY ZenonT(40) DEF Settled, Reattach, Entries
<1>2. ASSUME NEW j \in Gates
      PROVE  /\ queue'[j].grant = queue[j].grant /\ queue'[j].set = queue[j].set
             /\ queue'[j].spent = queue[j].spent
             /\ queue'[j].status = queue[j].status
  BY DEF Settled, Reattach, Entries
<1>. QED
  BY <1>1, <1>2 DEF Settled, Quiet, VettedEntry, Granted, Pending

LEMMA ConsumeQuiet ==
    ASSUME Settled, NEW gates, Consume(gates)
    PROVE  /\ Quiet
           /\ \A k \in gates \cap Gates : ~Granted(k)'
<1>1. queue' \in [Gates -> Entries]
  <2>1. ASSUME NEW k \in Gates
        PROVE  [queue[k] EXCEPT !.spent = TRUE] \in Entries /\ queue[k] \in Entries
    BY DEF Settled, Entries
  <2>. QED
    BY <2>1 DEF Consume, Consumed
<1>2. ASSUME NEW j \in Gates
      PROVE  /\ queue'[j].grant = queue[j].grant /\ queue'[j].set = queue[j].set
             /\ IF j \in gates /\ queue[j].grant THEN queue'[j].spent
                ELSE queue'[j].spent = queue[j].spent
             /\ queue'[j].status = queue[j].status
  BY DEF Settled, Consume, Consumed, Entries
<1>. QED
  BY <1>1, <1>2 DEF Settled, Quiet, VettedEntry, Granted, Pending

\* The grant itself: of one gate, with the set given.
LEMMA ApproveTyped ==
    ASSUME queue \in [Gates -> Entries], NEW k \in Gates, NEW set \in Sets,
           Approve(k, set)
    PROVE  /\ queue' \in [Gates -> Entries]
           /\ \A j \in Gates : j # k => queue'[j] = queue[j]
           /\ queue'[k].status = "resolved" /\ queue'[k].grant
           /\ queue'[k].set = set
<1>1. queue[k] \in Entries
  OBVIOUS
<1>. QED
  BY <1>1 DEF Approve, Entries

\* What the worker and the handler hold of the queue.
LEMMA WorkerTyped ==
    ASSUME Typed
    PROVE  /\ attempt.tab \in SomeTab
           /\ desk.k \in Gates /\ desk.tab \in SomeTab /\ desk.set \in Sets
  BY DEF Typed, Working, Attempts, Handling, Desks

LEMMA ModuleQueue ==
    ASSUME Settled,
           \/ ModuleUnknown \/ ModulePostApply \/ ModuleApproved
           \/ ModulePlanned \/ ModuleResume \/ ModuleReview
    PROVE  Quiet
<1>1. Clear
  BY DEF ModuleUnknown, ModulePostApply, ModuleApproved, ModulePlanned,
         ModuleResume, ModuleReview
<1>. QED
  BY <1>1, ResolveQuiet DEF Clear, ResolveIfClear

LEMMA WorkerQueue ==
    ASSUME Typed, Settled, WorkerStep
    PROVE  Quiet
<1>. USE WorkerTyped, GateNames, TabNames DEF Groups
<1>1. CASE \/ AlreadySubmitted \/ Find \/ CheckCompanySite \/ OpenListing
           \/ TabGone \/ NoTabLeft \/ JudgeListing \/ EvidenceGap \/ NoResume
           \/ ReadApprovals \/ RecordOutcome \/ SettleToken
  <2>1. UNCHANGED queue
    BY <1>1 DEF AlreadySubmitted, Find, CheckCompanySite, OpenListing,
       TabGone, NoTabLeft, JudgeListing, EvidenceGap, NoResume, ReadApprovals,
       RecordOutcome, SettleToken
  <2>. QED
    BY <2>1, SameQueue
<1>2. ASSUME NEW k \in {"listing_access", "access"}, NEW next,
             CheckAccess(k, next)
      PROVE  Quiet
  BY <1>2, EnqueueQuiet, ResolveQuiet, SameQueue
     DEF CheckAccess, ResolveIfClear
<1>3. CASE Apply
  BY <1>3, EnqueueQuiet, SameQueue DEF Apply
<1>4. CASE PassOverQuestions
  BY <1>4, EnqueueQuiet, SameQueue DEF PassOverQuestions
<1>5. CASE PassElsewhere
  BY <1>5, ResolveQuiet DEF PassElsewhere
<1>6. CASE ModuleBlocked
  BY <1>6, EnqueueQuiet DEF ModuleBlocked
<1>7. CASE \/ ModuleUnknown \/ ModulePostApply \/ ModuleApproved
           \/ ModulePlanned \/ ModuleResume \/ ModuleReview
  BY <1>7, ModuleQueue
<1>8. CASE AfterPass
  BY <1>8, ConsumeQuiet DEF AfterPass
<1>9. CASE ConsumeApprovals
  BY <1>9, ConsumeQuiet DEF ConsumeApprovals
<1>10. CASE QueueGate
  <2>1. \A stop \in DOMAIN GateOf : GateOf[stop] \in Gates
    BY DEF GateOf
  <2>. QED
    BY <1>10, <2>1, EnqueueQuiet, SameQueue DEF QueueGate
<1>. QED
  BY <1>1, <1>2, <1>3, <1>4, <1>5, <1>6, <1>7, <1>8, <1>9, <1>10 DEF WorkerStep

LEMMA DeskQueue ==
    ASSUME Typed, Settled, DeskStep
    PROVE  Quiet \/ Grant
<1>. USE WorkerTyped DEF Groups
<1>1. CASE Attach
  BY <1>1, ReattachQuiet, SameQueue DEF Attach
<1>2. CASE EnqueueReopened
  BY <1>2, EnqueueQuiet DEF EnqueueReopened
<1>3. CASE ResolveEntry
  BY <1>3, ResolveQuiet DEF ResolveEntry
<1>4. CASE ReplayResolved
  BY <1>4, SameQueue DEF ReplayResolved
<1>. QED
  BY <1>1, <1>2, <1>3, <1>4 DEF DeskStep

LEMMA RequestQueue ==
    ASSUME Settled, DeskRequest
    PROVE  Quiet
<1>1. CASE Reopens
  BY <1>1, SameQueue DEF Reopens, ReopenItem, Reopen
<1>2. CASE Decides
  BY <1>2, SameQueue DEF Decides, Release, Retry, Recheck, ApproveResume,
     ConfirmExternal, ItemCard, ApproveAnswers
<1>. QED
  BY <1>1, <1>2 DEF DeskRequest

LEMMA QueueSteps ==
    ASSUME Typed, Settled, Next
    PROVE  Quiet \/ Grant
<1>1. CASE Dispatch \/ WorkerDies \/ DeskDies \/ \E t \in Tabs : OwnerActs(t)
  BY <1>1, SameQueue DEF Dispatch, WorkerDies, DeskDies, OwnerActs
<1>. QED
  BY <1>1, WorkerQueue, DeskQueue, RequestQueue DEF Next

-----------------------------------------------------------------------------
\* The pages.

LEMMA RouteTyped ==
    ASSUME Typed
    PROVE  /\ Len(route) \in Nat /\ DOMAIN route = 1..Len(route)
           /\ \A i \in DOMAIN route : route[i].set \in Sets
<1>1. route \in Seq(RouteRows)
  BY GatesAssumption DEF Typed, Sets, RouteRows
<1>2. \A i \in DOMAIN route : route[i] \in RouteRows
  BY <1>1
<1>. QED
  BY <1>1, <1>2 DEF RouteRows

LEMMA PlainPages ==
    ASSUME Typed, NEW view \in {"closed", "listing", "post_apply", "company"}
    PROVE  Closed \in Pages /\ Open(view) \in Pages
<1>1. 0 \in 0..Len(route)
  BY RouteTyped
<1>2. Closed \in PageRows /\ Closed.view = "closed"
  BY <1>1 DEF Closed, PageRows
<1>3. Open(view) \in PageRows /\ Open(view).view = view
  BY <1>2 DEF Open, PageRows
<1>. QED
  BY <1>2, <1>3 DEF Pages

LEMMA LoadedPages ==
    ASSUME Typed, NEW p \in Pages
    PROVE  Loads(p) \subseteq Pages
<1>1. [p EXCEPT !.blocked = TRUE] \in Pages
  BY DEF Pages, PageRows
<1>. QED
  BY <1>1 DEF Loads

LEMMA NextPagesTyped ==
    ASSUME Typed, NEW p, p.uploaded \in BOOLEAN
    PROVE  NextPages(p) \subseteq Pages
<1>. DEFINE at(i) == [Open("form") EXCEPT !.pos = i, !.uploaded = p.uploaded]
<1>1. ASSUME NEW i \in DOMAIN route
      PROVE  at(i) \in Pages
  <2>1. i \in 0..Len(route)
    BY RouteTyped
  <2>2. Open("form") \in PageRows /\ Open("form").view = "form"
    <3>1. Closed \in PageRows
      BY PlainPages DEF Pages
    <3>. QED
      BY <3>1 DEF Open, PageRows
  <2>. QED
    BY <2>1, <2>2 DEF Pages, PageRows
<1>2. \A i \in DOMAIN route : Loads(at(i)) \subseteq Pages
  BY <1>1, LoadedPages
<1>3. \A q \in NextPages(p) : \E i \in DOMAIN route : q \in Loads(at(i))
  BY DEF NextPages
<1>. QED
  BY <1>2, <1>3

LEMMA PageTyped ==
    ASSUME Typed, NEW p \in Pages
    PROVE  /\ p.uploaded \in BOOLEAN /\ Questions(p) \in Sets
           /\ NextPages(p) \subseteq Pages
           /\ \A b \in BOOLEAN : /\ [p EXCEPT !.blocked = b] \in Pages
                                 /\ [p EXCEPT !.answered = b] \in Pages
                                 /\ [p EXCEPT !.uploaded = b] \in Pages
<1>1. p.uploaded \in BOOLEAN
  BY DEF Pages, PageRows
<1>2. Questions(p) \in Sets
  BY RouteTyped DEF Questions, Pages, Sets
<1>3. \A b \in BOOLEAN : /\ [p EXCEPT !.blocked = b] \in Pages
                         /\ [p EXCEPT !.answered = b] \in Pages
                         /\ [p EXCEPT !.uploaded = b] \in Pages
  BY DEF Pages, PageRows
<1>. QED
  BY <1>1, <1>2, <1>3, NextPagesTyped

\* Only a crash uses up one of the crashes.
LEMMA SpendTyped ==
    ASSUME Typed, NEW p
    PROVE  /\ Within(Spend(p)) /\ Spend(p).deaths = left.deaths
           /\ Within([Spend(p) EXCEPT !.requests = @ - 1])
           /\ [Spend(p) EXCEPT !.requests = @ - 1].deaths = left.deaths
           /\ Within([Spend(p) EXCEPT !.moves = @ - 1])
           /\ [Spend(p) EXCEPT !.moves = @ - 1].deaths = left.deaths
<1>1. left \in Budgets /\ left.deaths <= MaxDeaths
  BY DEF Typed, Within
<1>2. Spend(p) \in Budgets /\ Spend(p).deaths = left.deaths
  BY <1>1 DEF Spend, Budgets
<1>. QED
  BY <1>1, <1>2 DEF Within, Budgets

\* What a step leaves of the pages and of the bounds.
Paged == /\ UNCHANGED setup
         /\ page' \in [Tabs -> Pages]
         /\ Within(left')
Alive == left'.deaths = left.deaths
Dies == left'.deaths = left.deaths - 1

LEMMA SamePages ==
    ASSUME Typed, UNCHANGED <<setup, page, left>>
    PROVE  Paged /\ Alive
  BY DEF Typed, Paged, Alive, Within, Budgets

LEMMA PageShown ==
    ASSUME Typed, NEW t, NEW p \in Pages, page' = [page EXCEPT ![t] = p],
           UNCHANGED setup
    PROVE  page' \in [Tabs -> Pages]
  BY DEF Typed

LEMMA RetiredTyped ==
    ASSUME Typed, NEW o
    PROVE  Retired(o, page) \in [Tabs -> Pages]
  BY PlainPages DEF Typed, Retired

LEMMA ContinuedPages ==
    ASSUME Typed, NEW act, NEW done, Continued(act, done), UNCHANGED setup,
           attempt.pc = "module"
    PROVE  Paged /\ Alive
<1>1. CASE UNCHANGED <<page, left>>
  BY <1>1, SamePages
<1>2. CASE \E p \in NextPages(here) : page' = [page EXCEPT ![attempt.tab] = p]
                                      /\ left' = Spend(p)
  <2>1. here \in Pages
    BY DEF Typed, Working, here
  <2>2. PICK p \in NextPages(here) : page' = [page EXCEPT ![attempt.tab] = p]
                                     /\ left' = Spend(p)
    BY <1>2
  <2>3. p \in Pages
    BY <2>1, <2>2, PageTyped
  <2>4. page' \in [Tabs -> Pages]
    BY <2>2, <2>3, PageShown
  <2>5. Within(left') /\ left'.deaths = left.deaths
    BY <2>2, SpendTyped
  <2>. QED
    BY <2>4, <2>5 DEF Paged, Alive
<1>. QED
  BY <1>1, <1>2 DEF Continued

LEMMA WorkerPages ==
    ASSUME Typed, WorkerStep
    PROVE  Paged /\ Alive
<1>1. CASE \/ AlreadySubmitted \/ Find \/ CheckCompanySite
           \/ CheckAccess("listing_access", "listing")
           \/ CheckAccess("access", "approvals")
           \/ TabGone \/ NoTabLeft \/ EvidenceGap \/ NoResume
           \/ ReadApprovals \/ RecordOutcome \/ SettleToken
  BY <1>1, SamePages
     DEF AlreadySubmitted, Find, CheckCompanySite, CheckAccess, TabGone,
         NoTabLeft, EvidenceGap, NoResume, ReadApprovals, RecordOutcome,
         SettleToken, history
<1>2. CASE \/ PassOverQuestions \/ PassElsewhere \/ ModuleBlocked
           \/ ModuleUnknown \/ ModulePostApply \/ AfterPass \/ ConsumeApprovals
  BY <1>2, SamePages
     DEF PassOverQuestions, PassElsewhere, ModuleBlocked, ModuleUnknown,
         ModulePostApply, AfterPass, ConsumeApprovals, history
<1>3. CASE OpenListing
  <2>1. PICK t \in Tabs, p \in Loads(Open("listing")) :
              page' = [page EXCEPT ![t] = p] /\ left' = Spend(p)
    BY <1>3 DEF OpenListing
  <2>2. p \in Pages
    BY <2>1, PlainPages, LoadedPages
  <2>3. UNCHANGED setup
    BY <1>3 DEF OpenListing
  <2>4. page' \in [Tabs -> Pages]
    BY <2>1, <2>2, <2>3, PageShown
  <2>5. Within(left') /\ left'.deaths = left.deaths
    BY <2>1, SpendTyped
  <2>. QED
    BY <2>3, <2>4, <2>5 DEF Paged, Alive
<1>4. CASE JudgeListing
  BY <1>4, SamePages, RetiredTyped DEF JudgeListing, Paged, history, Alive, Typed
<1>5. CASE Apply
  <2>1. Open("listing").uploaded \in BOOLEAN
    BY DEF Open, Closed
  <2>2. UNCHANGED setup
    BY <1>5 DEF Apply
  <2>3. CASE \E p \in NextPages(Open("listing")) :
               page' = [page EXCEPT ![attempt.tab] = p] /\ left' = Spend(p)
    <3>1. PICK p \in NextPages(Open("listing")) :
               page' = [page EXCEPT ![attempt.tab] = p] /\ left' = Spend(p)
      BY <2>3
    <3>2. p \in Pages
      BY <2>1, NextPagesTyped
    <3>. QED
      BY <2>2, <3>1, <3>2, PageShown, SpendTyped DEF Paged, Alive
  <2>4. CASE /\ UNCHANGED left
             /\ page' \in {page, Retired("skipped", page),
                          [page EXCEPT ![attempt.tab] = Open("company")]}
    <3>1. page' \in [Tabs -> Pages]
      BY <2>2, <2>4, RetiredTyped, PlainPages, PageShown DEF Typed
    <3>. QED
      BY <2>2, <2>4, <3>1 DEF Paged, Alive, Typed
  <2>. QED
    BY <1>5, <2>3, <2>4 DEF Apply
<1>6. CASE ModuleApproved
  BY <1>6, SamePages, ContinuedPages DEF ModuleApproved, InModule
<1>7. CASE ModulePlanned
  BY <1>7, SamePages, ContinuedPages DEF ModulePlanned, InModule
<1>8. CASE ModuleResume
  <2>1. CASE page' = [page EXCEPT ![attempt.tab].uploaded = TRUE]
             /\ UNCHANGED left
    <3>1. attempt.tab \in Tabs /\ page[attempt.tab] \in Pages
      BY <1>8 DEF ModuleResume, InModule, Typed, Working
    <3>2. [page[attempt.tab] EXCEPT !.uploaded = TRUE] \in Pages
      BY <3>1, PageTyped
    <3>. QED
      BY <1>8, <2>1, <3>1, <3>2 DEF ModuleResume, Typed, Paged, Alive
  <2>. QED
    BY <1>8, <2>1, SamePages, ContinuedPages DEF ModuleResume, InModule
<1>9. CASE ModuleReview
  BY <1>9, SamePages, PlainPages, PageShown
     DEF ModuleReview, Paged, Alive, Typed
<1>10. CASE QueueGate
  BY <1>10, RetiredTyped DEF QueueGate, history, Paged, Alive, Typed
<1>. QED
  BY <1>1, <1>2, <1>3, <1>4, <1>5, <1>6, <1>7, <1>8, <1>9, <1>10 DEF WorkerStep

LEMMA OwnerPages ==
    ASSUME Typed, NEW t \in Tabs, OwnerActs(t)
    PROVE  Paged /\ Alive
<1>1. page[t] \in Pages
  BY DEF Typed
<1>2. /\ Closed \in Pages /\ Open("post_apply") \in Pages
      /\ NextPages(page[t]) \subseteq Pages
      /\ [page[t] EXCEPT !.blocked = FALSE] \in Pages
      /\ [page[t] EXCEPT !.answered = TRUE] \in Pages
  BY <1>1, PlainPages, PageTyped
<1>3. PICK p \in Pages : /\ page' = [page EXCEPT ![t] = p]
                         /\ left' = [Spend(p) EXCEPT !.moves = @ - 1]
  BY <1>2 DEF OwnerActs
<1>. QED
  BY <1>3, PageShown, SpendTyped DEF OwnerActs, Paged, Alive

LEMMA RequestPages ==
    ASSUME Typed, DeskRequest
    PROVE  Paged /\ Alive
<1>. DEFINE fewer == [left EXCEPT !.requests = @ - 1]
<1>1. Within(fewer) /\ fewer.deaths = left.deaths
  BY DEF Typed, Within, Budgets
<1>2. CASE Reopens
  <2>1. ASSUME NEW t \in Tabs, OpenTab(t)
        PROVE  page' \in [Tabs -> Pages] /\ Within(left') /\ Alive
    <3>1. PICK p \in Pages : /\ page' = [page EXCEPT ![t] = p]
                             /\ left' = [Spend(p) EXCEPT !.requests = @ - 1]
      BY <2>1, PlainPages, LoadedPages DEF OpenTab
    <3>2. page' \in [Tabs -> Pages]
      BY <3>1 DEF Typed
    <3>. QED
      BY <3>1, <3>2, SpendTyped DEF Alive
  <2>. QED
    BY <1>2, <2>1 DEF Reopens, ReopenItem, Reopen, Paged
<1>3. CASE Decides /\ left' = fewer
  <2>1. UNCHANGED <<setup, page>>
    BY <1>3 DEF Decides, Release, Retry, Recheck, ApproveResume,
       ConfirmExternal, ItemCard, ApproveAnswers
  <2>. HIDE DEF fewer
  <2>. QED
    BY <1>1, <1>3, <2>1 DEF Typed, Paged, Alive
<1>. QED
  BY <1>2, <1>3 DEF DeskRequest

\* A crash is one of the bounded ones; nothing else uses them up.
LEMMA PageSteps ==
    ASSUME Typed, Next
    PROVE  /\ Paged
           /\ Alive \/ ((WorkerDies \/ DeskDies) /\ Dies)
<1>1. CASE WorkerStep
  BY <1>1, WorkerPages
<1>2. CASE Dispatch \/ DeskStep
  BY <1>2, SamePages DEF Dispatch, DeskStep, Attach, EnqueueReopened,
     ResolveEntry, Grant, ReplayResolved, history
<1>3. CASE WorkerDies \/ DeskDies
  <2>1. Within([left EXCEPT !.deaths = @ - 1])
        /\ [left EXCEPT !.deaths = @ - 1].deaths = left.deaths - 1
    <3>1. left \in Budgets /\ left.deaths <= MaxDeaths /\ MaxDeaths \in Int
      BY GatesAssumption DEF Typed, Within, GatesAssumption
    <3>2. [left EXCEPT !.deaths = @ - 1] \in Budgets
          /\ [left EXCEPT !.deaths = @ - 1].deaths = left.deaths - 1
      BY <3>1 DEF Budgets
    <3>3. left.deaths \in Int
      BY <3>1 DEF Budgets
    <3>. QED
      BY <3>1, <3>2, <3>3 DEF Within
  <2>. QED
    BY <1>3, <2>1 DEF WorkerDies, DeskDies, Typed, Paged, Dies
<1>4. CASE DeskRequest
  BY <1>4, RequestPages
<1>5. CASE \E t \in Tabs : OwnerActs(t)
  BY <1>5, OwnerPages
<1>. QED
  BY <1>1, <1>2, <1>3, <1>4, <1>5 DEF Next

-----------------------------------------------------------------------------
\* The item.  One that has come to an end while nobody works on it stays there.

ItemKept ==
    /\ item' \in Items
    /\ Over => item'.state \in Ended

LEMMA ObservedTyped ==
    ASSUME Typed,
           NEW state \in {"observed", "human_handoff", "skipped", "failed"},
           NEW why \in Outcomes \cup {"none", "evidence", "replay"}
    PROVE  Observed(state, why) \in Items
  BY DEF Typed, Observed, Items, TokenStates

LEMMA ReleasedTyped ==
    ASSUME Typed, NEW o \in {"released", "failed", "skipped"}
    PROVE  /\ Released(o, o) \in Items
           /\ Released(o, o).state \in Ended
  BY DEF Typed, Released, Items, TokenStates, Ended, Outcomes

LEMMA ConfirmedTyped ==
    ASSUME Typed
    PROVE  /\ [item EXCEPT !.state = "confirmed"] \in Items
           /\ [item EXCEPT !.state = "confirmed"].state = "confirmed"
  BY DEF Typed, Items, TokenStates

LEMMA SameItem == ASSUME Typed, UNCHANGED item PROVE ItemKept
  BY DEF Typed, ItemKept, Over

LEMMA WorkerItem ==
    ASSUME Typed, WorkerStep
    PROVE  ItemKept
<1>1. CASE \/ AlreadySubmitted \/ Find \/ CheckCompanySite \/ OpenListing
           \/ CheckAccess("listing_access", "listing")
           \/ CheckAccess("access", "approvals")
           \/ TabGone \/ NoTabLeft \/ EvidenceGap \/ Apply \/ NoResume
           \/ ReadApprovals
  BY <1>1, SameItem
     DEF AlreadySubmitted, Find, CheckCompanySite, OpenListing, CheckAccess,
         TabGone, NoTabLeft, EvidenceGap, Apply, NoResume, ReadApprovals
<1>2. CASE \/ PassOverQuestions \/ PassElsewhere \/ ModuleBlocked
           \/ ModuleUnknown \/ ModulePostApply \/ ModuleApproved
           \/ ModulePlanned \/ ModuleResume \/ ModuleReview
           \/ AfterPass \/ ConsumeApprovals \/ QueueGate
  BY <1>2, SameItem
     DEF PassOverQuestions, PassElsewhere, ModuleBlocked, ModuleUnknown,
         ModulePostApply, ModuleApproved, ModulePlanned, ModuleResume,
         ModuleReview, AfterPass, ConsumeApprovals, QueueGate
<1>3. CASE JudgeListing
  BY <1>3, ObservedTyped, SameItem DEF JudgeListing, ItemKept, Over
<1>4. CASE RecordOutcome
  <2>1. attempt.stop \in Outcomes /\ attempt.pc = "record"
    BY <1>4 DEF RecordOutcome, Typed, Working
  <2>2. StateOf(attempt.stop) \in {"observed", "human_handoff", "skipped",
                                   "failed"}
    BY <2>1 DEF StateOf, Outcomes
  <2>. QED
    BY <1>4, <2>1, <2>2, ObservedTyped DEF RecordOutcome, ItemKept, Over
<1>5. CASE SettleToken
  <2>1. attempt.pc = "token"
    BY <1>5 DEF SettleToken
  <2>2. [item EXCEPT !.state = IF @ = "confirmed" THEN @ ELSE "reserved"]
          \in Items
    BY DEF Typed, Items, TokenStates
  <2>. QED
    BY <1>5, <2>1, <2>2, ReleasedTyped, ConfirmedTyped, SameItem
       DEF SettleToken, ItemKept, Over
<1>. QED
  BY <1>1, <1>2, <1>3, <1>4, <1>5 DEF WorkerStep

LEMMA RequestItem ==
    ASSUME Typed, DeskRequest
    PROVE  ItemKept
<1>1. CASE Reopens
  BY <1>1, SameItem DEF Reopens, ReopenItem, Reopen
<1>2. ASSUME NEW k, Release(k) PROVE ItemKept
  BY <1>2, ReleasedTyped, SameItem DEF Release, ItemKept
<1>3. ASSUME NEW k, Retry(k) PROVE ItemKept
  BY <1>3, ObservedTyped DEF Retry, ItemKept, Over, Ended
<1>4. ASSUME NEW k, Recheck(k) \/ ApproveResume(k) PROVE ItemKept
  BY <1>4, SameItem DEF Recheck, ApproveResume
<1>5. CASE ConfirmExternal
  BY <1>5, ConfirmedTyped DEF ConfirmExternal, ItemKept, Ended
<1>6. CASE ItemCard
  <2>1. [state |-> "observed", why |-> "replay", approved |-> TRUE] \in Items
    BY DEF Items
  <2>. QED
    BY <1>6, <2>1, ConfirmedTyped, ReleasedTyped, ObservedTyped
       DEF ItemCard, ItemKept, Over, Ended
<1>7. CASE ApproveAnswers
  BY <1>7, SameItem DEF ApproveAnswers
<1>. QED
  BY <1>1, <1>2, <1>3, <1>4, <1>5, <1>6, <1>7 DEF DeskRequest, Decides

LEMMA ItemSteps ==
    ASSUME Typed, Next
    PROVE  ItemKept
<1>1. CASE WorkerStep
  BY <1>1, WorkerItem
<1>2. CASE DeskRequest
  BY <1>2, RequestItem
<1>3. CASE ReplayResolved
  BY <1>3, ObservedTyped, SameItem DEF ReplayResolved, ItemKept, Over, Ended
<1>4. CASE \/ Dispatch \/ WorkerDies \/ DeskDies \/ Attach \/ EnqueueReopened
           \/ ResolveEntry \/ Grant \/ \E t \in Tabs : OwnerActs(t)
  BY <1>4, SameItem DEF Dispatch, WorkerDies, DeskDies, Attach,
     EnqueueReopened, ResolveEntry, Grant, OwnerActs
<1>. QED
  BY <1>1, <1>2, <1>3, <1>4 DEF Next, DeskStep

-----------------------------------------------------------------------------
\* The handler.

LEMMA ThenTyped ==
    ASSUME NEW op \in {"reattach", "enqueue", "resolve", "clear", "replay"},
           NEW k \in Gates, NEW tab \in SomeTab, Then(op, k, tab, NoSet)
    PROVE  Handling(desk')
  BY DEF Then, Handling, Desks, Sets

LEMMA FreeTyped ==
    Handling(Free) /\ Handling([Free EXCEPT !.op = "replay"])
  BY GateNames, TabNames DEF Free, Handling, Desks, Sets

LEMMA SameDesk == ASSUME Typed, UNCHANGED desk PROVE Handling(desk')
  BY DEF Typed

LEMMA RequestDesk ==
    ASSUME Typed, DeskRequest
    PROVE  Handling(desk')
<1>. USE GateNames, TabNames
<1>1. CASE Reopens
  <2>1. ASSUME NEW k \in Gates, Reopen(k) PROVE Handling(desk')
    BY <2>1, ThenTyped DEF Reopen
  <2>2. CASE ReopenItem
    BY <2>2, ThenTyped DEF ReopenItem
  <2>. QED
    BY <1>1, <2>1, <2>2 DEF Reopens
<1>2. ASSUME NEW k \in Gates, Release(k) \/ Retry(k) \/ Recheck(k)
      PROVE  Handling(desk')
  BY <1>2, ThenTyped DEF Release, Retry, Recheck
<1>3. ASSUME NEW k \in Gates, ApproveResume(k)
      PROVE  Handling(desk')
  BY <1>3 DEF ApproveResume, Then, Handling, Desks, Sets, Approvable
<1>4. CASE ConfirmExternal
  BY <1>4, ThenTyped DEF ConfirmExternal
<1>5. CASE ItemCard
  BY <1>5, SameDesk DEF ItemCard
<1>6. CASE ApproveAnswers
  <2>. DEFINE t == queue["unknown_question"].tab
  <2>1. t \in Tabs /\ page[t] \in Pages
    BY <1>6 DEF ApproveAnswers, Focusable, Live, Typed
  <2>2. Questions(page[t]) \in Sets /\ t \in SomeTab
    BY <2>1, PageTyped
  <2>3. desk' = [op |-> "grant", k |-> "unknown_question", tab |-> t,
                 set |-> Questions(page[t])]
    BY <1>6 DEF ApproveAnswers, Then
  <2>. HIDE DEF t
  <2>. QED
    BY <2>2, <2>3 DEF Handling, Desks, Approvable, ResumeGates
<1>. QED
  BY <1>1, <1>2, <1>3, <1>4, <1>5, <1>6 DEF DeskRequest, Decides

LEMMA DeskSteps ==
    ASSUME Typed, Next
    PROVE  Handling(desk')
<1>1. CASE WorkerStep
  <2>1. UNCHANGED desk
    BY <1>1 DEF WorkerStep, AlreadySubmitted, Find, CheckCompanySite,
       OpenListing, CheckAccess, TabGone, NoTabLeft, JudgeListing, EvidenceGap,
       Apply, NoResume, ReadApprovals, PassOverQuestions, PassElsewhere,
       ModuleBlocked, ModuleUnknown, ModulePostApply, ModuleApproved,
       ModulePlanned, ModuleResume, ModuleReview, AfterPass, ConsumeApprovals,
       QueueGate, RecordOutcome, SettleToken
  <2>. QED
    BY <2>1, SameDesk
<1>2. CASE Dispatch \/ WorkerDies \/ \E t \in Tabs : OwnerActs(t)
  BY <1>2, SameDesk DEF Dispatch, WorkerDies, OwnerActs
<1>3. CASE DeskStep \/ DeskDies
  BY <1>3, FreeTyped DEF DeskStep, DeskDies, Attach, EnqueueReopened,
     ResolveEntry, Grant, ReplayResolved
<1>4. CASE DeskRequest
  BY <1>4, RequestDesk
<1>. QED
  BY <1>1, <1>2, <1>3, <1>4 DEF Next

-----------------------------------------------------------------------------
\* The worker.

LEMMA RestingTyped == Working(Resting)
  BY TabNames, GatesAssumption
     DEF Resting, Working, Attempts, Pcs, Stops, Sets

LEMMA SameAttempt == ASSUME Typed, UNCHANGED attempt PROVE Working(attempt')
  BY DEF Typed

LEMMA GoTyped ==
    ASSUME Typed, NEW pc \in Pcs \ {"after", "finish", "gate", "record", "token"},
           Go(pc), pc \in {"approvals", "pass", "module"} => attempt.tab \in Tabs
    PROVE  Working(attempt')
  BY DEF Typed, Working, Attempts, Go

LEMMA EndTyped ==
    ASSUME Typed, NEW o \in Outcomes, EndWith(o)
    PROVE  Working(attempt')
  BY DEF Typed, Working, Attempts, EndWith, Pcs, Stops

LEMMA StopTyped ==
    ASSUME Typed, attempt.pc = "module", NEW o \in Outcomes, Stop(o)
    PROVE  Working(attempt')
  BY DEF Typed, Working, Attempts, Stop, Pcs, Stops

\* After a click: stopped, or on with the next module.
LEMMA ContinuedTyped ==
    ASSUME Typed, attempt.pc = "module",
           NEW act \in SUBSET {"answer", "continue", "upload"}, NEW done,
           Continued(act, done)
    PROVE  /\ Working(attempt')
           /\ attempt'.acts = attempt.acts \cup act
           /\ attempt'.set = NoSet /\ attempt'.pc \in {"module", "after"}
           /\ attempt'.up = attempt.up /\ attempt'.cont = attempt.cont
<1>1. attempt \in Attempts /\ attempt.tab \in Tabs
  BY DEF Typed, Working
<1>2. CASE attempt' = [attempt EXCEPT !.pc = "after", !.stop = "stuck",
                         !.acts = @ \cup act, !.set = NoSet]
  BY <1>1, <1>2 DEF Working, Attempts, Pcs, Stops, Outcomes, Sets
<1>3. ASSUME NEW ends \in BOOLEAN,
             attempt' = [attempt EXCEPT
               !.pc = IF ends THEN "after" ELSE @,
               !.stop = IF ends THEN "next_page" ELSE @,
               !.acts = @ \cup act, !.set = NoSet, !.plan = "none"]
      PROVE  /\ Working(attempt')
             /\ attempt'.acts = attempt.acts \cup act
             /\ attempt'.set = NoSet /\ attempt'.pc \in {"module", "after"}
             /\ attempt'.up = attempt.up /\ attempt'.cont = attempt.cont
  <2>1. /\ attempt'.acts = attempt.acts \cup act
        /\ attempt'.set = NoSet
        /\ attempt'.pc = IF ends THEN "after" ELSE attempt.pc
        /\ attempt'.stop = IF ends THEN "next_page" ELSE attempt.stop
        /\ attempt'.tab = attempt.tab
        /\ attempt'.up = attempt.up /\ attempt'.cont = attempt.cont
    BY <1>1, <1>3 DEF Attempts
  <2>2. attempt' \in Attempts
    BY <1>1, <1>3, ZenonT(40) DEF Attempts, Pcs, Stops, Sets
  <2>3. attempt.pc = "module"
    OBVIOUS
  <2>. QED
    BY <1>1, <2>1, <2>2, <2>3 DEF Working, Stops
<1>. QED
  BY <1>2, <1>3 DEF Continued

LEMMA WorkerAttempt ==
    ASSUME Typed, WorkerStep
    PROVE  Working(attempt')
<1>. USE DEF Outcomes, Pcs
<1>1. CASE AlreadySubmitted \/ TabGone \/ NoTabLeft \/ EvidenceGap \/ NoResume
  BY <1>1, EndTyped DEF AlreadySubmitted, TabGone, NoTabLeft, EvidenceGap,
     NoResume
<1>2. CASE Find
  <2>1. Candidates \subseteq SomeTab
    BY TabNames DEF Candidates, Live
  <2>2. ASSUME NEW t \in SomeTab, NEW pc \in {"open", "company"},
               attempt' = [attempt EXCEPT !.tab = t, !.pc = pc]
        PROVE  Working(attempt')
    BY <2>2 DEF Typed, Working, Attempts
  <2>. QED
    BY <1>2, <2>1, <2>2 DEF Find
<1>3. CASE CheckCompanySite
  BY <1>3, GoTyped, EndTyped DEF CheckCompanySite
<1>4. CASE OpenListing
  <2>1. PICK t \in Tabs :
              attempt' = [attempt EXCEPT !.pc = "listing_access", !.tab = t]
    BY <1>4 DEF OpenListing
  <2>2. attempt \in Attempts /\ t \in SomeTab
    BY <2>1, TabNames DEF Typed, Working
  <2>3. attempt' \in Attempts /\ attempt'.pc = "listing_access"
    BY <2>1, <2>2 DEF Attempts
  <2>. QED
    BY <2>3 DEF Working
<1>5. CASE \/ CheckAccess("listing_access", "listing")
           \/ CheckAccess("access", "approvals")
  BY <1>5, GoTyped, EndTyped DEF CheckAccess, Live
<1>6. CASE JudgeListing \/ Apply
  BY <1>6, GoTyped, EndTyped DEF JudgeListing, Apply
<1>7. CASE ReadApprovals
  <2>1. ASSUME NEW up \in BOOLEAN, NEW cont \in BOOLEAN,
               attempt' = [attempt EXCEPT !.pc = "pass", !.up = up,
                                          !.cont = cont]
        PROVE  Working(attempt')
    BY <1>7, <2>1 DEF ReadApprovals, Typed, Working, Attempts
  <2>2. ApprovedAction("resume_upload") \in BOOLEAN
        /\ ApprovedAction("resume_continue") \in BOOLEAN
    BY GateNames DEF ApprovedAction, Granted, Typed, Entries
  <2>. QED
    BY <1>7, <2>1, <2>2 DEF ReadApprovals
<1>8. CASE PassOverQuestions
  <2>1. attempt.pc = "pass" /\ attempt.tab \in Tabs /\ here \in Pages
    BY <1>8 DEF PassOverQuestions, Typed, Working, here
  <2>2. Questions(here) \in Sets
    BY <2>1, PageTyped
  <2>3. ASSUME NEW set \in Sets, NEW plan \in {"none", "ready", "unresolved"},
               attempt' = [attempt EXCEPT !.pc = "module", !.set = set,
                                          !.plan = plan, !.acts = {}]
        PROVE  Working(attempt')
    BY <2>1, <2>3 DEF Typed, Working, Attempts
  <2>. QED
    BY <1>8, <2>2, <2>3, EndTyped DEF PassOverQuestions, Sets
<1>9. CASE PassElsewhere
  BY <1>9 DEF PassElsewhere, Typed, Working, Attempts, Sets
<1>10. CASE ModuleBlocked \/ ModuleUnknown \/ ModulePostApply \/ ModuleReview
  BY <1>10, StopTyped DEF ModuleBlocked, ModuleUnknown, ModulePostApply,
     ModuleReview, InModule
<1>11. CASE ModuleApproved \/ ModulePlanned
  BY <1>11, StopTyped, ContinuedTyped DEF ModuleApproved, ModulePlanned, InModule
<1>12. CASE ModuleResume
  <2>1. CASE attempt' = [attempt EXCEPT !.pc = "after", !.stop = "after_upload",
                                        !.acts = @ \cup {"upload"}]
    BY <1>12, <2>1 DEF ModuleResume, InModule, Typed, Working, Attempts, Stops
  <2>. QED
    BY <1>12, <2>1, StopTyped, ContinuedTyped DEF ModuleResume, InModule
<1>13. CASE AfterPass
  <2>1. attempt.passes \in 0..(MaxPasses - 1)
    BY DEF Typed, Working, Attempts
  <2>2. PassesNow \in 0..(MaxPasses - 1)
    BY <2>1, GatesAssumption DEF PassesNow, Again
  <2>. QED
    BY <1>13, <2>2 DEF AfterPass, Typed, Working, Attempts
<1>14. CASE ConsumeApprovals
  BY <1>14 DEF ConsumeApprovals, Go, Typed, Working, Attempts
<1>15. CASE QueueGate
  <2>1. OutcomeOf(attempt.stop) \in Outcomes
    BY <1>15 DEF QueueGate, OutcomeOf, Typed, Working, Stops
  <2>. QED
    BY <1>15, <2>1, EndTyped DEF QueueGate
<1>16. CASE RecordOutcome
  BY <1>16 DEF RecordOutcome, Go, Typed, Working, Attempts
<1>17. CASE SettleToken
  BY <1>17, RestingTyped DEF SettleToken
<1>. QED
  BY <1>1, <1>2, <1>3, <1>4, <1>5, <1>6, <1>7, <1>8, <1>9, <1>10, <1>11, <1>12,
     <1>13, <1>14, <1>15, <1>16, <1>17 DEF WorkerStep

\* Nobody but the worker moves it.
LEMMA OthersLeaveAttempt ==
    ASSUME \/ DeskRequest \/ DeskStep \/ DeskDies
           \/ \E t \in Tabs : OwnerActs(t)
    PROVE  UNCHANGED <<attempt, taken>>
<1>1. CASE Reopens
  BY <1>1 DEF Reopens, ReopenItem, Reopen
<1>2. CASE Decides
  BY <1>2 DEF Decides, Release, Retry, Recheck, ApproveResume,
     ConfirmExternal, ItemCard, ApproveAnswers
<1>3. CASE DeskStep \/ DeskDies \/ \E t \in Tabs : OwnerActs(t)
  BY <1>3 DEF DeskStep, Attach, EnqueueReopened, ResolveEntry, Grant,
     ReplayResolved, DeskDies, OwnerActs, history
<1>. QED
  BY <1>1, <1>2, <1>3 DEF DeskRequest

LEMMA AttemptSteps ==
    ASSUME Typed, Next
    PROVE  Working(attempt')
<1>1. CASE Dispatch
  BY <1>1, RestingTyped DEF Dispatch, Working, Attempts, Resting, Pcs
<1>2. CASE WorkerDies
  BY <1>2, RestingTyped DEF WorkerDies
<1>. QED
  BY <1>1, <1>2, WorkerAttempt, OthersLeaveAttempt, SameAttempt DEF Next

-----------------------------------------------------------------------------
\* The history.

LEMMA AskTyped ==
    ASSUME NEW k \in Gates \cup {"final_submit"}, NEW tab \in SomeTab,
           NEW set \in Sets
    PROVE  Ask(k, tab, set) \in Asks /\ Ask(k, tab, set).gate = k
           /\ Ask(k, tab, set).set = set
  BY DEF Ask, Asks, SomeTab, Sets

\* Only Grant changes what the owner has given, and it only adds to it.
LEMMA GivenSteps ==
    ASSUME Next
    PROVE  UNCHANGED given \/ Grant
<1>1. CASE WorkerStep
  BY <1>1 DEF WorkerStep, AlreadySubmitted, Find, CheckCompanySite,
     OpenListing, CheckAccess, TabGone, NoTabLeft, JudgeListing, EvidenceGap,
     Apply, NoResume, ReadApprovals, PassOverQuestions, PassElsewhere,
     ModuleBlocked, ModuleUnknown, ModulePostApply, ModuleApproved,
     ModulePlanned, ModuleResume, ModuleReview, AfterPass, ConsumeApprovals,
     QueueGate, RecordOutcome, SettleToken, history
<1>2. CASE Reopens
  BY <1>2 DEF Reopens, ReopenItem, Reopen
<1>3. CASE Decides
  BY <1>3 DEF Decides, Release, Retry, Recheck, ApproveResume,
     ConfirmExternal, ItemCard, ApproveAnswers
<1>4. CASE \/ Dispatch \/ WorkerDies \/ DeskStep \/ DeskDies
           \/ \E t \in Tabs : OwnerActs(t)
  BY <1>4 DEF Dispatch, WorkerDies, DeskStep, Attach, EnqueueReopened,
     ResolveEntry, ReplayResolved, DeskDies, OwnerActs, history
<1>. QED
  BY <1>1, <1>2, <1>3, <1>4, SMTT(20) DEF Next, DeskRequest

LEMMA GrantTyped ==
    ASSUME Typed, Grant
    PROVE  /\ queue' \in [Gates -> Entries]
           /\ given' \subseteq Asks
           /\ uses' \in [Approvable -> Nat]
           /\ taken' = taken
<1>1. /\ Approve(desk.k, desk.set) /\ taken' = taken
      /\ given' = given \cup {Ask(desk.k, desk.tab, desk.set)}
      /\ uses' = [uses EXCEPT ![desk.k] = 0]
  BY DEF Grant
<1>2. /\ queue \in [Gates -> Entries] /\ given \subseteq Asks
      /\ uses \in [Approvable -> Nat]
  BY DEF Typed
<1>. QED
  <2>1. queue' \in [Gates -> Entries]
    BY <1>1, <1>2, WorkerTyped, ApproveTyped
  <2>2. Ask(desk.k, desk.tab, desk.set) \in Asks
    BY WorkerTyped, AskTyped
  <2>. QED
    BY <1>1, <1>2, <2>1, <2>2

\* An approval is used by three clicks.
Clicks == ModuleApproved \/ ModuleResume \/ ModuleReview

LEMMA ClickTyped ==
    ASSUME Typed, Clicks
    PROVE  taken' \subseteq Asks /\ uses' \in [Approvable -> Nat]
<1>1. attempt.tab \in Tabs /\ here \in Pages /\ attempt.tab \in SomeTab
  BY TabNames DEF Clicks, ModuleApproved, ModuleResume, ModuleReview, InModule,
     Typed, Working, here
<1>2. Questions(here) \in Sets
  BY <1>1, PageTyped
<1>3. /\ Ask("unknown_question", attempt.tab, Questions(here)) \in Asks
      /\ Ask("resume_continue", NoTab, NoSet) \in Asks
      /\ Ask("resume_upload", NoTab, NoSet) \in Asks
      /\ Ask("final_submit", NoTab, NoSet) \in Asks
  BY <1>1, <1>2, AskTyped, GateNames, TabNames DEF Sets
<1>4. \A k \in Approvable : Uses(k) => uses' \in [Approvable -> Nat]
  BY DEF Uses, Typed
<1>5. {"unknown_question", "resume_continue", "resume_upload"} \subseteq Approvable
  BY DEF Approvable, ResumeGates
<1>6. taken \subseteq Asks /\ uses \in [Approvable -> Nat]
  BY DEF Typed
<1>7. CASE ModuleApproved
  BY <1>7, <1>3, <1>4, <1>5, <1>6 DEF ModuleApproved, Continued
<1>8. CASE ModuleResume
  BY <1>8, <1>3, <1>4, <1>5, <1>6 DEF ModuleResume, Continued
<1>9. CASE ModuleReview
  BY <1>9, <1>3, <1>6 DEF ModuleReview
<1>. QED
  BY <1>7, <1>8, <1>9 DEF Clicks

LEMMA OtherHistory ==
    ASSUME Next
    PROVE  UNCHANGED <<taken, uses>> \/ Clicks \/ Grant
<1>1. CASE WorkerStep
  BY <1>1 DEF Clicks, WorkerStep, AlreadySubmitted, Find, CheckCompanySite,
     OpenListing, CheckAccess, TabGone, NoTabLeft, JudgeListing, EvidenceGap,
     Apply, NoResume, ReadApprovals, PassOverQuestions, PassElsewhere,
     ModuleBlocked, ModuleUnknown, ModulePostApply, ModulePlanned, Continued,
     AfterPass, ConsumeApprovals, QueueGate, RecordOutcome, SettleToken, history
<1>2. CASE Reopens
  BY <1>2 DEF Reopens, ReopenItem, Reopen
<1>3. CASE Decides
  BY <1>3 DEF Decides, Release, Retry, Recheck, ApproveResume,
     ConfirmExternal, ItemCard, ApproveAnswers
<1>4. CASE \/ Dispatch \/ WorkerDies \/ DeskStep \/ DeskDies
           \/ \E t \in Tabs : OwnerActs(t)
  BY <1>4 DEF Dispatch, WorkerDies, DeskStep, Attach, EnqueueReopened,
     ResolveEntry, ReplayResolved, DeskDies, OwnerActs, history
<1>. QED
  BY <1>1, <1>2, <1>3, <1>4, SMTT(20) DEF Next, DeskRequest

-----------------------------------------------------------------------------
\* A step keeps the types.
LEMMA TypedStep ==
    ASSUME Typed, Settled, [Next]_vars
    PROVE  Typed'
<1>1. CASE UNCHANGED vars
  BY <1>1 DEF vars, Typed, Pages, PageRows, Working, Handling, Within
<1>2. CASE Next
  <2>1. queue' \in [Gates -> Entries]
    BY <1>2, QueueSteps, GrantTyped DEF Quiet
  <2>2. Paged
    BY <1>2, PageSteps
  <2>3. page' \in [Tabs -> Pages'] /\ route' \in Routes /\ mode' \in Modes
        /\ Within(left)'
    BY <2>2 DEF Paged, setup, Pages, PageRows, Typed, Within
  <2>4. item' \in Items /\ Working(attempt)' /\ Handling(desk)'
    BY <1>2, ItemSteps, AttemptSteps, DeskSteps DEF ItemKept, Working, Handling
  <2>5. given' \subseteq Asks /\ taken' \subseteq Asks
        /\ uses' \in [Approvable -> Nat]
    BY <1>2, GivenSteps, OtherHistory, GrantTyped, ClickTyped DEF Typed
  <2>. QED
    BY <2>1, <2>3, <2>4, <2>5 DEF Typed
<1>. QED
  BY <1>1, <1>2

-----------------------------------------------------------------------------
\* Nothing the worker holds goes beyond what the owner has given.

\* What was approved stays approved.
LEMMA ApprovedStays ==
    ASSUME Next
    PROVE  \A gate, set : Approved(gate, set) => Approved(gate, set)'
<1>1. given \subseteq given'
  BY GivenSteps DEF Grant
<1>. QED
  BY <1>1 DEF Approved

LEMMA GrantVetted ==
    ASSUME Typed, Settled, Grant,
           \A gate, set : Approved(gate, set) => Approved(gate, set)'
    PROVE  \A k \in Gates : VettedEntry(k)'
<1>1. PICK k \in Gates, tab \in SomeTab, set \in Sets :
             k = desk.k /\ tab = desk.tab /\ set = desk.set
  BY WorkerTyped
<1>2. Approve(k, set) /\ desk.op = "grant" /\ given' = given \cup {Ask(k, tab, set)}
  BY <1>1 DEF Grant
<1>3. k \in ResumeGates => set = NoSet
  BY <1>1, <1>2 DEF Typed, Handling
<1>4. /\ \A j \in Gates : j # k => queue'[j] = queue[j]
      /\ queue'[k].status = "resolved" /\ queue'[k].grant
      /\ queue'[k].set = set
  BY <1>2, ApproveTyped DEF Settled
<1>5. Approved(k, set)'
  BY <1>2, AskTyped DEF Approved
<1>6. VettedEntry(k)'
  BY <1>3, <1>4, <1>5 DEF VettedEntry, Pending
<1>7. ASSUME NEW j \in Gates, j # k PROVE VettedEntry(j)'
  BY <1>4, <1>7 DEF Settled, VettedEntry, Pending
<1>. QED
  BY <1>6, <1>7

LEMMA EntriesStayVetted ==
    ASSUME Typed, Settled, Next
    PROVE  \A k \in Gates : VettedEntry(k)'
<1>1. CASE Quiet
  BY <1>1, ApprovedStays DEF Quiet, Settled, VettedEntry, Pending
<1>. QED
  BY <1>1, QueueSteps, ApprovedStays, GrantVetted

\* The permissions stay, and an approved questionnaire is not taken up.
Keeps ==
    /\ attempt'.up = attempt.up /\ attempt'.cont = attempt.cont
    /\ attempt'.pc = "module" /\ attempt'.set # NoSet =>
         attempt.pc = "module" /\ attempt'.set = attempt.set

LEMMA WorkerKeeps ==
    ASSUME Typed, WorkerStep
    PROVE  Keeps \/ ReadApprovals \/ PassOverQuestions \/ SettleToken
<1>1. attempt \in Attempts
  BY DEF Typed, Working
<1>2. CASE \/ AlreadySubmitted \/ Find \/ CheckCompanySite \/ OpenListing
           \/ CheckAccess("listing_access", "listing")
           \/ CheckAccess("access", "approvals")
           \/ TabGone \/ NoTabLeft \/ JudgeListing \/ EvidenceGap \/ Apply
           \/ NoResume
  <2>2. ASSUME NEW pc \in {"access", "listing_access", "listing", "evidence",
                            "approvals"}, Go(pc)
        PROVE  Keeps
    BY <1>1, <2>2 DEF Go, Attempts, Keeps
  <2>3. ASSUME NEW stop, EndWith(stop)
        PROVE  Keeps
    BY <1>1, <2>3 DEF EndWith, Attempts, Keeps
  <2>1. ASSUME NEW pc \in {"open", "company", "listing_access"}, NEW tab,
               attempt' = [attempt EXCEPT !.pc = pc, !.tab = tab]
        PROVE  Keeps
    BY <1>1, <2>1 DEF Attempts, Keeps
  <2>4. CASE Find
    <3>1. PICK tab \in Candidates :
                attempt' = [attempt EXCEPT !.tab = tab,
                              !.pc = IF tab = NoTab THEN "open" ELSE "company"]
      BY <2>4 DEF Find
    <3>2. attempt' = [attempt EXCEPT !.pc = IF tab = NoTab THEN "open" ELSE "company",
                                     !.tab = tab]
      BY <1>1, <3>1 DEF Attempts
    <3>3. CASE tab = NoTab
      BY <2>1, <3>2, <3>3
    <3>4. CASE tab # NoTab
      BY <2>1, <3>2, <3>4
    <3>. QED
      BY <3>3, <3>4
  <2>8. CASE OpenListing
    <3>1. PICK tab \in Tabs \ Live :
                attempt' = [attempt EXCEPT !.pc = "listing_access", !.tab = tab]
      BY <2>8 DEF OpenListing
    <3>. QED
      BY <2>1, <3>1
  <2>5. CASE CheckCompanySite \/ JudgeListing \/ Apply
    BY <2>2, <2>3, <2>5 DEF CheckCompanySite, JudgeListing, Apply
  <2>6. CASE \/ CheckAccess("listing_access", "listing")
             \/ CheckAccess("access", "approvals")
    BY <2>2, <2>3, <2>6 DEF CheckAccess
  <2>7. CASE AlreadySubmitted \/ TabGone \/ NoTabLeft \/ EvidenceGap \/ NoResume
    BY <2>3, <2>7 DEF AlreadySubmitted, TabGone, NoTabLeft, EvidenceGap, NoResume
  <2>. QED
    BY <1>2, <2>4, <2>5, <2>6, <2>7, <2>8
<1>3. CASE \/ PassElsewhere \/ ModuleBlocked \/ ModuleUnknown
           \/ ModulePostApply \/ ModuleReview
  BY <1>1, <1>3, ZenonT(40)
     DEF PassElsewhere, ModuleBlocked, ModuleUnknown, ModulePostApply,
         ModuleReview, Stop, Attempts, Keeps
<1>4. CASE ModuleApproved \/ ModulePlanned \/ ModuleResume
  <2>1. CASE \E o : Stop(o)
    BY <1>1, <2>1 DEF Stop, Attempts, Keeps
  <2>2. CASE attempt' = [attempt EXCEPT !.pc = "after", !.stop = "after_upload",
                                        !.acts = @ \cup {"upload"}]
    BY <1>1, <2>2 DEF Attempts, Keeps
  <2>3. ASSUME NEW act \in SUBSET {"answer", "continue", "upload"}, NEW done,
               Continued(act, done), attempt.pc = "module"
        PROVE  Keeps
    BY <2>3, ContinuedTyped DEF Keeps
  <2>. QED
    BY <1>4, <2>1, <2>2, <2>3
       DEF ModuleApproved, ModulePlanned, ModuleResume, InModule
<1>5. CASE AfterPass \/ ConsumeApprovals \/ QueueGate \/ RecordOutcome
  BY <1>1, <1>5
     DEF AfterPass, ConsumeApprovals, QueueGate, RecordOutcome, Go, EndWith,
         Attempts, Keeps
<1>. QED
  BY <1>2, <1>3, <1>4, <1>5 DEF WorkerStep

LEMMA ReadVetted ==
    ASSUME Typed, Settled, VettedAttempt, ReadApprovals, UNCHANGED mode,
           \A gate, set : Approved(gate, set) => Approved(gate, set)'
    PROVE  VettedAttempt'
<1>1. ASSUME NEW k \in ResumeGates, ApprovedAction(k)
      PROVE  Approved(k, NoSet)'
  <2>1. queue[k].grant /\ VettedEntry(k)
    BY <1>1, GateNames DEF ApprovedAction, Granted, Settled
  <2>. QED
    BY <2>1 DEF VettedEntry
<1>2. {"resume_upload", "resume_continue"} \subseteq ResumeGates
  BY DEF ResumeGates
<1>3. attempt'.pc = "pass"
  BY DEF ReadApprovals, Typed, Working, Attempts
<1>4. /\ attempt'.up = IF mode = "assisted" THEN ApprovedAction("resume_upload")
                       ELSE mode = "auto"
      /\ attempt'.cont = IF mode = "assisted"
                         THEN ApprovedAction("resume_continue")
                         ELSE mode = "auto"
  BY DEF ReadApprovals, Typed, Working, Attempts
<1>. QED
  BY <1>1, <1>2, <1>3, <1>4 DEF VettedAttempt

LEMMA PassVetted ==
    ASSUME Typed, Settled, VettedAttempt, PassOverQuestions, UNCHANGED mode,
           \A gate, set : Approved(gate, set) => Approved(gate, set)'
    PROVE  VettedAttempt'
<1>1. attempt \in Attempts
  BY DEF Typed, Working
<1>2. ASSUME mode # "draft", NEW set, ApprovedQuestion(attempt.tab, set),
             attempt' = [attempt EXCEPT !.pc = "module", !.set = set,
                                        !.plan = "none", !.acts = {}]
      PROVE  VettedAttempt'
  <2>1. VettedEntry("unknown_question") /\ queue["unknown_question"].grant
        /\ queue["unknown_question"].set = set
    BY <1>2, GateNames DEF ApprovedQuestion, Granted, Settled
  <2>2. Approved("unknown_question", set)'
    BY <2>1 DEF VettedEntry
  <2>3. attempt'.up = attempt.up /\ attempt'.cont = attempt.cont
        /\ attempt'.set = set
    BY <1>1, <1>2 DEF Attempts
  <2>. QED
    BY <1>2, <2>2, <2>3 DEF VettedAttempt
<1>3. CASE Keeps
  BY <1>3 DEF Keeps, VettedAttempt
<1>4. ASSUME NEW plan, attempt' = [attempt EXCEPT !.pc = "module", !.set = NoSet,
                                          !.plan = plan, !.acts = {}]
      PROVE  Keeps
  BY <1>1, <1>4 DEF Attempts, Keeps
<1>5. ASSUME EndWith("draft_stop") PROVE Keeps
  BY <1>1, <1>5 DEF Attempts, EndWith, Keeps
<1>. QED
  BY <1>2, <1>3, <1>4, <1>5 DEF PassOverQuestions

LEMMA AttemptStaysVetted ==
    ASSUME Typed, Settled, VettedAttempt, Next
    PROVE  VettedAttempt'
<1>1. UNCHANGED mode
  BY PageSteps DEF Paged, setup
<1>2. CASE attempt' \in {Resting, [Resting EXCEPT !.pc = "find"]}
  BY <1>2 DEF Resting, VettedAttempt
<1>3. CASE Keeps \/ UNCHANGED attempt
  BY <1>1, <1>3, ApprovedStays DEF Keeps, VettedAttempt
<1>4. CASE ReadApprovals \/ PassOverQuestions
  BY <1>1, <1>4, ApprovedStays, ReadVetted, PassVetted
<1>. QED
  BY <1>2, <1>3, <1>4, WorkerKeeps, OthersLeaveAttempt
     DEF Next, Dispatch, WorkerDies, SettleToken

\* A click at a gate is one the owner has approved.
LEMMA ClicksAreVetted ==
    ASSUME Typed, Vetted, Next
    PROVE  NoGateOpensItself'
<1>1. UNCHANGED mode
  BY PageSteps DEF Paged, setup
<1>2. CASE UNCHANGED taken
  BY <1>1, <1>2, ApprovedStays DEF Vetted, NoGateOpensItself
<1>3. ASSUME NEW k, NEW tab, NEW set, mode # "draft",
             taken' = taken \cup {Ask(k, tab, set)},
             mode = "assisted" \/ k = "unknown_question" => Approved(k, set)
      PROVE  NoGateOpensItself'
  <2>1. Ask(k, tab, set).gate = k /\ Ask(k, tab, set).set = set
    BY DEF Ask
  <2>. QED
    BY <1>1, <1>3, <2>1, ApprovedStays DEF Vetted, NoGateOpensItself
<1>4. CASE ModuleApproved
  <2>1. CASE taken' = taken \cup {Ask("unknown_question", attempt.tab,
                                      Questions(here))}
             /\ Questions(here) = attempt.set
    <3>1. mode # "draft" /\ Approved("unknown_question", Questions(here))
      BY <1>4, <2>1 DEF ModuleApproved, InModule, Vetted, VettedAttempt
    <3>. QED
      BY <1>3, <2>1, <3>1
  <2>. QED
    BY <1>2, <1>4, <2>1 DEF ModuleApproved, Continued
<1>5. CASE ModuleResume
  <2>1. mode \in {"assisted", "draft", "auto"}
    BY GatesAssumption DEF Typed
  <2>2. CASE attempt.cont /\ taken' = taken \cup
                               {Ask("resume_continue", NoTab, NoSet)}
    BY <1>3, <2>1, <2>2 DEF Vetted, VettedAttempt
  <2>3. CASE attempt.up /\ taken' = taken \cup
                             {Ask("resume_upload", NoTab, NoSet)}
    BY <1>3, <2>1, <2>3 DEF Vetted, VettedAttempt
  <2>. QED
    BY <1>2, <1>5, <2>2, <2>3 DEF ModuleResume, Continued
<1>6. CASE ModuleReview
  BY <1>2, <1>3, <1>6 DEF ModuleReview
<1>7. CASE Grant
  BY <1>2, <1>7 DEF Grant
<1>. QED
  BY <1>2, <1>4, <1>5, <1>6, <1>7, OtherHistory DEF Clicks

LEMMA VettedStep ==
    ASSUME Typed, Vetted, [Next]_vars
    PROVE  Vetted'
<1>1. Settled
  BY DEF Typed, Vetted, Settled
<1>2. CASE Next
  BY <1>1, <1>2, EntriesStayVetted, AttemptStaysVetted, ClicksAreVetted
     DEF Vetted
<1>3. CASE UNCHANGED vars
  BY <1>3 DEF vars, Vetted, VettedEntry, VettedAttempt, NoGateOpensItself,
     Approved, Pending
<1>. QED
  BY <1>2, <1>3

-----------------------------------------------------------------------------
\* How often an approval of answers is used.

\* A click that has been made stays owed until its approval is consumed, or its
\* attempt has failed and the item is over.
Carried == Owed => Owed' \/ Over' \/ ~Granted("unknown_question")'

LEMMA WorkerCarries ==
    ASSUME Typed, Settled, WorkerStep
    PROVE  attempt.pc # "idle" /\ Carried
<1>1. attempt \in Attempts
  BY DEF Typed, Working
<1>2. CASE \/ AlreadySubmitted \/ Find \/ CheckCompanySite \/ OpenListing
           \/ CheckAccess("listing_access", "listing")
           \/ CheckAccess("access", "approvals")
           \/ NoTabLeft \/ JudgeListing \/ EvidenceGap \/ Apply \/ NoResume
           \/ ReadApprovals \/ PassOverQuestions \/ PassElsewhere
           \/ ConsumeApprovals \/ QueueGate
  BY <1>2
     DEF AlreadySubmitted, Find, CheckCompanySite, OpenListing, CheckAccess,
         NoTabLeft, JudgeListing, EvidenceGap, Apply, NoResume,
         ReadApprovals, PassOverQuestions, PassElsewhere, ConsumeApprovals,
         QueueGate, Carried, Owed
<1>3. CASE TabGone
  BY <1>1, <1>3 DEF TabGone, EndWith, Attempts, Carried, Owed
<1>4. CASE ModuleBlocked \/ ModuleUnknown \/ ModulePostApply \/ ModuleReview
  BY <1>1, <1>4 DEF ModuleBlocked, ModuleUnknown, ModulePostApply,
     ModuleReview, InModule, Stop, Attempts, Carried, Owed
<1>5. CASE ModuleApproved \/ ModulePlanned \/ ModuleResume
  <2>1. attempt.pc = "module"
    BY <1>5 DEF ModuleApproved, ModulePlanned, ModuleResume, InModule
  <2>2. CASE \E o : Stop(o)
    BY <1>1, <2>1, <2>2 DEF Stop, Attempts, Carried, Owed
  <2>3. CASE attempt' = [attempt EXCEPT !.pc = "after", !.stop = "after_upload",
                                        !.acts = @ \cup {"upload"}]
    BY <1>1, <2>1, <2>3 DEF Attempts, Carried, Owed
  <2>4. ASSUME NEW act \in SUBSET {"answer", "continue", "upload"}, NEW done,
               Continued(act, done)
        PROVE  Carried
    BY <2>1, <2>4, ContinuedTyped DEF Carried, Owed
  <2>. QED
    BY <1>5, <2>1, <2>2, <2>3, <2>4
       DEF ModuleApproved, ModulePlanned, ModuleResume
<1>6. CASE AfterPass
  <2>1. Owed => ~Granted("unknown_question")'
    BY <1>6, ConsumeQuiet, GateNames DEF AfterPass, Owed, Answered
  <2>. QED
    BY <1>6, <2>1 DEF AfterPass, Carried
<1>7. CASE RecordOutcome
  BY <1>1, <1>7 DEF RecordOutcome, Go, Attempts, Carried, Owed
<1>8. CASE SettleToken
  <2>1. attempt.stop = "failed" => item'.state \in Ended
    BY <1>8, ReleasedTyped DEF SettleToken, MentionsReview
  <2>2. attempt.pc = "token" /\ attempt'.pc = "idle"
    BY <1>8 DEF SettleToken, Resting
  <2>. QED
    BY <2>1, <2>2 DEF Carried, Owed, Over
<1>. QED
  BY <1>2, <1>3, <1>4, <1>5, <1>6, <1>7, <1>8 DEF WorkerStep

\* Only a click on an approved questionnaire uses the approval of answers.
LEMMA AnswersSteps ==
    ASSUME Typed, Next
    PROVE  Answers' = Answers \/ ModuleApproved \/ Grant
<1>1. ASSUME NEW k \in ResumeGates, Uses(k) PROVE Answers' = Answers
  BY <1>1 DEF Uses, Answers, Typed, ResumeGates, Approvable
<1>2. CASE ModuleResume
  BY <1>1, <1>2 DEF ModuleResume, ResumeGates, Answers
<1>. QED
  BY <1>2, OtherHistory DEF Clicks, ModuleReview, Answers

LEMMA CountsTyped ==
    ASSUME Typed
    PROVE  Answers \in Nat /\ Deaths \in Nat /\ "unknown_question" \in Approvable
  BY GatesAssumption DEF Typed, Answers, Deaths, Within, Budgets, Approvable

LEMMA GrantCounted ==
    ASSUME Typed, Settled, Counted, Grant
    PROVE  Counted'
<1>1. UNCHANGED <<left, attempt, item>>
  BY DEF Grant
<1>2. PICK k \in Approvable, set \in Sets :
             k = desk.k /\ set = desk.set
  BY WorkerTyped DEF Grant, Typed, Handling
<1>3. Approve(k, set) /\ uses' = [uses EXCEPT ![k] = 0] /\ k \in Gates
  BY <1>2, GateNames DEF Grant
<1>4. CASE k = "unknown_question"
  <2>1. Answers' = 0
    BY <1>3, <1>4, CountsTyped DEF Typed, Answers
  <2>. QED
    BY <1>1, <2>1, CountsTyped DEF Counted, Deaths
<1>5. CASE k # "unknown_question"
  <2>1. Answers' = Answers
    BY <1>3, <1>5 DEF Typed, Answers
  <2>2. queue'["unknown_question"] = queue["unknown_question"]
    BY <1>3, <1>5, ApproveTyped, GateNames DEF Settled
  <2>. QED
    BY <1>1, <2>1, <2>2 DEF Counted, Deaths, Owed, Over, Granted
<1>. QED
  BY <1>4, <1>5

LEMMA ApprovedCounted ==
    ASSUME Typed, Settled, Counted, ModuleApproved, Alive
    PROVE  Counted'
<1>1. attempt \in Attempts /\ attempt.pc = "module" /\ attempt.set # NoSet
  BY DEF Typed, Working, ModuleApproved, InModule
<1>2. Deaths' = Deaths /\ Answers <= Deaths
  BY <1>1 DEF Alive, Deaths, Counted
<1>3. CASE Stop("stuck") /\ UNCHANGED uses
  <2>1. attempt'.pc = "after" /\ Answers' = Answers
    BY <1>1, <1>3 DEF Stop, Attempts, Answers
  <2>. QED
    BY <1>2, <2>1, CountsTyped DEF Counted
<1>4. ASSUME NEW done, Continued({"answer"}, done), Uses("unknown_question")
      PROVE  Counted'
  <2>1. Answers' = Answers + 1
    BY <1>4, CountsTyped DEF Uses, Answers, Typed
  <2>2. /\ attempt'.pc \in {"module", "after"} /\ attempt'.set = NoSet
        /\ "answer" \in attempt'.acts
    BY <1>1, <1>4, ContinuedTyped
  <2>. QED
    BY <1>2, <2>1, <2>2, CountsTyped DEF Counted, Owed
<1>. QED
  BY <1>3, <1>4 DEF ModuleApproved

\* The worker takes up an approved questionnaire only with an approval in the
\* queue, that is one no click is owed for.
LEMMA TakenUpCounted ==
    ASSUME Typed, Settled, Counted, WorkerStep,
           attempt'.pc = "module", attempt'.set # NoSet
    PROVE  Answers <= Deaths
<1>1. attempt \in Attempts
  BY DEF Typed, Working
<1>2. CASE Keeps
  BY <1>2 DEF Keeps, Counted
<1>3. CASE ReadApprovals
  BY <1>1, <1>3 DEF ReadApprovals, Attempts
<1>4. CASE SettleToken
  BY <1>4 DEF SettleToken, Resting
<1>5. CASE PassOverQuestions
  <2>1. CASE ApprovedQuestion(attempt.tab, Questions(here))
    BY <1>5, <2>1 DEF PassOverQuestions, ApprovedQuestion, Counted, Owed, Over
  <2>2. CASE attempt'.set = NoSet \/ attempt'.pc = "record"
    BY <2>2
  <2>. QED
    BY <1>1, <1>5, <2>1, <2>2 DEF PassOverQuestions, EndWith, Attempts
<1>. QED
  BY <1>2, <1>3, <1>4, <1>5, WorkerKeeps

LEMMA CountedStep ==
    ASSUME Typed, Vetted, Counted, [Next]_vars
    PROVE  Counted'
<1>1. Settled
  BY DEF Typed, Vetted, Settled
<1>2. CASE UNCHANGED vars
  BY <1>2 DEF vars, Counted, Answers, Deaths, Owed, Over, Granted
<1>3. CASE Grant
  BY <1>1, <1>3, GrantCounted
<1>4. CASE ModuleApproved /\ Alive
  BY <1>1, <1>4, ApprovedCounted
<1>5. CASE (WorkerDies \/ DeskDies) /\ Dies
  <2>1. left.deaths \in Int /\ MaxDeaths \in Int
    BY GatesAssumption DEF Typed, Within, Budgets
  <2>2. Answers' = Answers /\ Deaths' = Deaths + 1
    BY <1>5, <2>1 DEF WorkerDies, DeskDies, Dies, Answers, Deaths
  <2>3. Answers' <= Deaths'
    BY <2>2, CountsTyped DEF Counted
  <2>4. Deaths' <= 1 + Deaths'
    BY <2>2, CountsTyped
  <2>. QED
    BY <2>2, <2>3, <2>4, CountsTyped DEF Counted
<1>6. CASE Next /\ ~Grant /\ Alive /\ Answers' = Answers
  <2>1. Deaths' = Deaths /\ Quiet
    BY <1>1, <1>6, QueueSteps DEF Alive, Deaths
  <2>2. Granted("unknown_question")' => Granted("unknown_question")
    BY <2>1, GateNames DEF Quiet
  <2>3. CASE Dispatch
    BY <1>6, <2>1, <2>2, <2>3 DEF Dispatch, Counted, Owed, Over, Ended, Resting
  <2>4. CASE UNCHANGED attempt
    <3>1. Owed' <=> Owed
      BY <2>4 DEF Owed
    <3>2. Over => Over'
      BY <1>6, <2>4, ItemSteps DEF ItemKept, Over
    <3>. QED
      BY <1>6, <2>1, <2>2, <2>4, <3>1, <3>2 DEF Counted
  <2>5. CASE WorkerStep
    <3>1. ~Over /\ Carried
      BY <1>1, <2>5, WorkerCarries DEF Over
    <3>2. attempt'.pc = "module" /\ attempt'.set # NoSet => Answers <= Deaths
      BY <1>1, <2>5, TakenUpCounted
    <3>. QED
      BY <1>6, <2>1, <2>2, <3>1, <3>2 DEF Counted, Carried
  <2>6. CASE WorkerDies
    <3>1. attempt'.pc = "idle" /\ Dies
      BY <2>6, CountsTyped DEF WorkerDies, Resting, Dies, Typed, Within, Budgets
    <3>. QED
      BY <1>6, <3>1 DEF Alive, Dies, Typed, Within, Budgets
  <2>. QED
    BY <1>6, <2>3, <2>4, <2>5, <2>6, OthersLeaveAttempt DEF Next
<1>. QED
  BY <1>2, <1>3, <1>4, <1>5, <1>6, PageSteps, AnswersSteps

-----------------------------------------------------------------------------
\* The theorems.

LEMMA InitIInv == ASSUME Init PROVE IInv
<1>1. NoEntry \in Entries /\ ~NoEntry.grant /\ NoEntry.set = NoSet
      /\ NoEntry.status = "absent"
  BY TabNames DEF NoEntry, Entries, Groups, Sets
<1>2. \A k \in Gates : queue[k] = NoEntry
  BY DEF Init, QueueInit
<1>3. Typed
  <2>1. queue \in [Gates -> Entries]
    BY <1>1 DEF Init, QueueInit
  <2>2. Closed \in Pages
    <3>1. Len(route) \in Nat
      BY GatesAssumption DEF Init
    <3>2. 0 \in 0..Len(route)
      BY <3>1
    <3>. QED
      BY <3>2 DEF Closed, Pages, PageRows
  <2>3. item \in Items
    BY DEF Init, Items
  <2>4. Within(left)
    BY GatesAssumption DEF Init, Within, Budgets
  <2>. QED
    BY <2>1, <2>2, <2>3, <2>4, RestingTyped, FreeTyped
       DEF Init, Typed, Approvable, ResumeGates
<1>4. Vetted
  BY <1>1, <1>2 DEF Init, Vetted, VettedEntry, VettedAttempt, Resting, Pending,
     NoGateOpensItself
<1>5. Counted
  <2>1. Answers = 0 /\ Deaths = 0
    BY GatesAssumption DEF Init, Answers, Deaths, Approvable
  <2>2. ~Granted("unknown_question") /\ attempt.pc = "idle"
    BY <1>1, <1>2, GateNames DEF Granted, Init, Resting
  <2>. QED
    BY <2>1, <2>2 DEF Counted
<1>. QED
  BY <1>3, <1>4, <1>5 DEF IInv

\* The invariant: what each part of the state is, that every permission in the
\* queue, at the desk and with the worker is the owner's, and where a used
\* approval of answers can still stand.
THEOREM PermissionsAreTraced == Spec => []IInv
<1>1. Init => IInv
  BY InitIInv
<1>2. IInv /\ [Next]_vars => IInv'
  <2>. SUFFICES ASSUME Typed, Vetted, Counted, [Next]_vars PROVE IInv'
    BY DEF IInv
  <2>1. Settled
    BY DEF Typed, Vetted, Settled
  <2>. QED
    BY <2>1, TypedStep, VettedStep, CountedStep DEF IInv
<1>. QED
  BY <1>1, <1>2, PTL DEF Spec

\* The parts of the state have their types.
THEOREM GatesTyped == Spec => []TypeOK
<1>1. IInv => TypeOK
  <2>. SUFFICES ASSUME Typed PROVE TypeOK
    BY DEF IInv
  <2>1. queue \in QueueType
    BY DEF Typed, QueueType, Entries, Groups, SomeTab, Sets
  <2>2. page \in [Tabs -> PageRows]
    BY DEF Typed, Pages
  <2>3. attempt.tab \in Tabs \cup {NoTab} /\ attempt.passes < MaxPasses
    BY GatesAssumption DEF Typed, Working, Attempts, SomeTab
  <2>. QED
    BY <2>1, <2>2, <2>3 DEF Typed, TypeOK, PageRows, Items
<1>. QED
  BY <1>1, PermissionsAreTraced, PTL

\* However the worker, the handlers and the owner interleave, and whoever of them
\* crashes: a gate is passed only as the owner has approved it, a questionnaire
\* only with the questions the owner has approved, and a draft run passes none.
THEOREM GatesAreApproved == Spec => []NoGateOpensItself
<1>1. IInv => NoGateOpensItself
  BY DEF IInv, Vetted
<1>. QED
  BY <1>1, PermissionsAreTraced, PTL

\* An approval of answers is used once, and once more for every crash at most,
\* although the click it allows and its consumption are two steps.
THEOREM ApprovalsAreUsedUp == Spec => []AnswersApprovedEachTime
<1>1. IInv => AnswersApprovedEachTime
  BY DEF IInv, Counted, Answers, Deaths, AnswersApprovedEachTime
<1>. QED
  BY <1>1, PermissionsAreTraced, PTL
=============================================================================
