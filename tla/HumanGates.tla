----------------------------- MODULE HumanGates -----------------------------
(***************************************************************************)
(* One application and the three who move it: the unattended worker        *)
(* (run_indeed_unattended.py with indeed_smart_apply_runner.py), the       *)
(* handlers of the control center (job_finder_control.py), and the owner   *)
(* at the browser.  They share the verification queue, the goal's item and *)
(* the browser's tabs.  The worker stops at a gate and queues it, a        *)
(* handler resolves or grants it and puts the item back for replay.        *)
(*                                                                         *)
(* A step of the worker or of a handler is one access to the queue, the    *)
(* ledger or the browser; a check of a page and the click that follows it  *)
(* at once are one step.  Tabs that have been closed are opened again as   *)
(* new ones, so MaxTabs bounds the tabs open together.                     *)
(***************************************************************************)
EXTENDS VerificationQueue, Sequences

CONSTANTS
    Routes,     \* what a form may consist of: sequences of [place, set]
    Modes,      \* how the adapter is started: assisted, draft or auto
    MaxPasses,  \* passes of _run_application's loop (8 in the code)
    \* bounds: requests to the control center; acts of the owner in the browser,
    \* access checks the sites raise, crashes, and about how many of these in all
    MaxRequests, MaxMoves, MaxChecks, MaxDeaths, MaxUpsets

\* Contact, location and experience modules need nobody and are passed.
Modules == {"resume", "questions", "unknown", "review"}

ASSUME GatesAssumption ==
    /\ Routes \subseteq Seq([place : Modules, set : QuestionSets \cup {NoSet}])
    /\ MaxPasses \in Nat \ {0} /\ MaxRequests \in Nat /\ MaxMoves \in Nat
    /\ MaxChecks \in Nat /\ MaxDeaths \in Nat /\ MaxUpsets \in Nat
    /\ Modes \subseteq {"assisted", "draft", "auto"}

VARIABLES
    route,      \* the modules of this application's form, in order
    mode,       \* permissions of this run
    page,       \* page[t]: what tab t shows
    item,       \* the goal item: state, why (its detail), review approval
    attempt,    \* the worker
    desk,       \* the handler at work in the control center
    left,       \* requests and moves the bounds leave
    given,      \* history: what the owner approved
    taken,      \* history: what the worker did at a gate
    uses        \* history: how often each approval has been used

vars == <<queue, route, mode, page, item, attempt, desk, left, given, taken, uses>>
setup == <<route, mode>>
Approvable == ResumeGates \cup {"unknown_question"}
history == <<left, given, taken, uses>>

-----------------------------------------------------------------------------
\* Pages

Closed == [view |-> "closed", pos |-> 0, uploaded |-> FALSE,
           answered |-> FALSE, blocked |-> FALSE]
Open(view) == [Closed EXCEPT !.view = view]

Place(p) == IF p.view = "form" THEN route[p.pos].place ELSE p.view
Questions(p) == IF p.view = "form" THEN route[p.pos].set ELSE NoSet
OnSmartApply(t) == page[t].view \in {"form", "post_apply"}
Live == {t \in Tabs : page[t].view # "closed"}

\* Acts, checks and crashes so far, and whether the bounds allow another.
Upsets == (MaxMoves - left.moves) + (MaxChecks - left.checks)
            + (MaxDeaths - left.deaths)
MayUpset(kind) == left[kind] > 0 /\ Upsets < MaxUpsets

\* A page that is loaded may stand behind an access check.
Loads(p) == {p} \cup (IF MayUpset("checks") THEN {[p EXCEPT !.blocked = TRUE]} ELSE {})
Spend(p) == IF p.blocked THEN [left EXCEPT !.checks = @ - 1] ELSE left

\* What Continue leads to from p: the next module, or questions asked again.
\* Only a final submit leads to post_apply.
NextPages(p) ==
    LET at(i) == [Open("form") EXCEPT !.pos = i, !.uploaded = p.uploaded]
    IN UNION {Loads(at(i)) :
          i \in {x \in DOMAIN route : \/ x = p.pos + 1
                                      \/ x = p.pos /\ Place(p) = "questions"}}

-----------------------------------------------------------------------------
\* The goal item

TokenStates == {"reserved", "confirmed"}

\* observe: a token keeps its state.
Observed(state, why) ==
    [item EXCEPT !.state = IF @ \in TokenStates THEN @ ELSE state, !.why = why]
\* release
Released(state, why) ==
    IF item.state = "confirmed" THEN item
    ELSE [item EXCEPT !.state = state, !.why = why]

\* Outcomes of an attempt.  StateOf is the state of the item ...
Outcomes == {"access", "company_site", "unproven_listing", "evidence_gap",
             "not_reached", "draft_stop", "questionnaire", "stuck",
             "unknown_layout", "upload_needed", "preview", "review_ready",
             "submitted", "skipped", "failed"}
StateOf(o) ==
    CASE o \in {"skipped", "failed"} -> o
      [] o = "submitted" -> "observed"
      [] OTHER -> "human_handoff"
\* ... and these mention review or final submit in their detail: "salary review
\* required", "uploaded resume preview requires human approval", ...
MentionsReview == {"evidence_gap", "preview", "review_ready", "unknown_layout"}

-----------------------------------------------------------------------------
\* The worker

Resting == [pc |-> "idle", tab |-> NoTab, up |-> FALSE, cont |-> FALSE,
            set |-> NoSet, plan |-> "none", acts |-> {}, passes |-> 0,
            stop |-> "none"]

Go(pc) == attempt' = [attempt EXCEPT !.pc = pc]
EndWith(o) == attempt' = [attempt EXCEPT !.pc = "record", !.stop = o]
here == page[attempt.tab]

\* _retire_if_terminal
Retired(o, p) ==
    IF o \in {"skipped", "submitted"} THEN [p EXCEPT ![attempt.tab] = Closed]
    ELSE p

\* The replay of the cycle takes an observed item.
Dispatch ==
    /\ attempt.pc = "idle" /\ item.state = "observed"
    /\ attempt' = [Resting EXCEPT !.pc = "find"]
    /\ UNCHANGED <<queue, setup, page, item, desk, history>>

\* A recent exact submission is on record.
AlreadySubmitted ==
    /\ attempt.pc = "find"
    /\ EndWith("skipped")
    /\ UNCHANGED <<queue, setup, page, item, desk, history>>

\* _matching_existing_page: a tab of a pending gate, else one of the
\* application, else one of its listing.
Candidates ==
    LET attached == PendingTabs \cap Live
        applying == {t \in Live : OnSmartApply(t)}
        listing  == {t \in Live : page[t].view = "listing"}
    IN IF attached # {} THEN attached
       ELSE IF applying # {} THEN applying
       ELSE IF listing # {} THEN listing ELSE {NoTab}

Find ==
    /\ attempt.pc = "find"
    /\ \E t \in Candidates :
         attempt' = [attempt EXCEPT !.tab = t,
                       !.pc = IF t = NoTab THEN "open" ELSE "company"]
    /\ UNCHANGED <<queue, setup, page, item, desk, history>>

\* _is_pending_company_site_handoff: any pending entry of that group.
HandedToOwner(t) ==
    \E k \in Gates : /\ Pending(k)
                     /\ queue[k].group = "human_intervention"
                     /\ queue[k].tab \in {NoTab, t}

CheckCompanySite ==
    /\ attempt.pc = "company"
    /\ \/ HandedToOwner(attempt.tab) /\ EndWith("company_site")
       \/ /\ ~HandedToOwner(attempt.tab)
          /\ Go(IF OnSmartApply(attempt.tab) THEN "access" ELSE "listing_access")
    /\ UNCHANGED <<queue, setup, page, item, desk, history>>

\* No tab: one is opened on the listing.
OpenListing ==
    /\ attempt.pc = "open"
    /\ \E t \in Tabs \ Live, p \in Loads(Open("listing")) :
         /\ page' = [page EXCEPT ![t] = p] /\ left' = Spend(p)
         /\ attempt' = [attempt EXCEPT !.pc = "listing_access", !.tab = t]
    /\ UNCHANGED <<queue, setup, item, desk, given, taken, uses>>

\* The browser has too many tabs for a new one.
NoTabLeft ==
    /\ attempt.pc = "open" \/ attempt.pc = "evidence"
    /\ EndWith("failed")
    /\ UNCHANGED <<queue, setup, page, item, desk, history>>

\* _check_access: a blocked page is queued unless its tab already is.
CheckAccess(k, next) ==
    /\ attempt.pc = k /\ attempt.tab \in Live
    /\ \/ /\ here.blocked
          /\ IF Pending(k) /\ queue[k].tab = attempt.tab THEN UNCHANGED queue
             ELSE Enqueue(k, "access_verification", attempt.tab, TRUE)
          /\ EndWith("access")
       \/ ~here.blocked /\ ResolveIfClear(k) /\ Go(next)
    /\ UNCHANGED <<setup, page, item, desk, history>>

\* The owner closed the tab: the browser raises and the attempt fails closed.
TabGone ==
    /\ attempt.pc \in {"listing_access", "listing", "evidence", "access", "pass",
                      "module"}
    /\ attempt.tab \notin Live
    /\ EndWith("failed")
    /\ UNCHANGED <<queue, setup, page, item, desk, history>>

\* The listing: its identity and description are judged, the evidence of its
\* salary is written to the item ...
JudgeListing ==
    /\ attempt.pc = "listing" /\ attempt.tab \in Live
    /\ \/ /\ EndWith("unproven_listing")
          /\ UNCHANGED <<page, item>>
       \/ /\ EndWith("skipped")
          /\ page' = Retired("skipped", page)
          /\ UNCHANGED item
       \/ /\ item' = Observed("observed", "evidence")
          /\ Go("evidence")
          /\ UNCHANGED page
    /\ UNCHANGED <<queue, setup, desk, history>>

\* ... a gap in it needs the owner's review ...
EvidenceGap ==
    /\ attempt.pc = "evidence"
    /\ ~item.approved
    /\ EndWith("evidence_gap")
    /\ UNCHANGED <<queue, setup, page, item, desk, history>>

\* ... and Apply leads to the application, to the company's site or nowhere.
Apply ==
    /\ attempt.pc = "evidence" /\ attempt.tab \in Live
    /\ \/ \E p \in NextPages(Open("listing")) :
            /\ page' = [page EXCEPT ![attempt.tab] = p] /\ left' = Spend(p)
            /\ Go("access") /\ UNCHANGED queue
       \/ /\ page' = [page EXCEPT ![attempt.tab] = Open("company")]
          /\ Enqueue("external_application", "human_intervention",
                     attempt.tab, TRUE)
          /\ EndWith("company_site") /\ UNCHANGED left
       \/ /\ EndWith("skipped")
          /\ page' = Retired("skipped", page) /\ UNCHANGED <<queue, left>>
       \/ EndWith("not_reached") /\ UNCHANGED <<page, queue, left>>
    /\ UNCHANGED <<setup, item, desk, given, taken, uses>>

\* There is no approved resume for this job, or no evidence of what it says.
NoResume ==
    /\ attempt.pc = "approvals"
    /\ EndWith("not_reached")
    /\ UNCHANGED <<queue, setup, page, item, desk, history>>

\* Mutant: an assisted run starts with an automatic run's permissions.
ReadNoApprovals ==
    /\ attempt.pc = "approvals"
    /\ attempt' = [attempt EXCEPT !.pc = "pass", !.up = mode # "draft",
                                  !.cont = mode # "draft"]
    /\ UNCHANGED <<queue, setup, page, item, desk, history>>

\* The approvals of the resume gates are read once, before the loop.
ReadApprovals ==
    /\ attempt.pc = "approvals"
    /\ attempt' = [attempt EXCEPT !.pc = "pass",
         !.up = IF mode = "assisted" THEN ApprovedAction("resume_upload")
                ELSE mode = "auto",
         !.cont = IF mode = "assisted" THEN ApprovedAction("resume_continue")
                  ELSE mode = "auto"]
    /\ UNCHANGED <<queue, setup, page, item, desk, history>>

\* A pass of the loop begins.  On a questionnaire the approval of these
\* questions on this tab is looked up; without one a plan is made, and a
\* question it cannot answer is queued.
PassOverQuestions ==
    LET t == attempt.tab
        ask == Enqueue("unknown_question", "human_intervention", t, TRUE)
    IN /\ attempt.pc = "pass" /\ Place(here) = "questions"
       /\ \/ mode = "draft" /\ ask /\ EndWith("draft_stop")
          \/ /\ mode # "draft" /\ ApprovedQuestion(t, Questions(here))
             /\ attempt' = [attempt EXCEPT !.pc = "module", !.set = Questions(here),
                                           !.plan = "none", !.acts = {}]
             /\ UNCHANGED queue
          \/ /\ mode # "draft" /\ ~ApprovedQuestion(t, Questions(here))
             /\ \E plan \in {"ready", "unresolved"} :
                  /\ attempt' = [attempt EXCEPT !.pc = "module", !.set = NoSet,
                                                !.plan = plan, !.acts = {}]
                  /\ IF plan = "unresolved" THEN ask ELSE UNCHANGED queue
       /\ UNCHANGED <<setup, page, item, desk, history>>

\* Elsewhere pending questions are settled.
PassElsewhere ==
    /\ attempt.pc = "pass" /\ Place(here) \notin {"questions", "closed"}
    /\ Resolve({k \in {"unknown_question"} : Pending(k)})
    /\ attempt' = [attempt EXCEPT !.pc = "module", !.set = NoSet,
                                  !.plan = "none", !.acts = {}]
    /\ UNCHANGED <<setup, page, item, desk, history>>

-----------------------------------------------------------------------------
\* run_indeed_smart_apply_until_gate, one module at a time.

InModule(places) ==
    attempt.pc = "module" /\ Place(here) \in places /\ ~here.blocked
Stop(reason) == attempt' = [attempt EXCEPT !.pc = "after", !.stop = reason]
Clear == ResolveIfClear("access")

\* A gate in the way is queued without its tab and goal.
ModuleBlocked ==
    /\ attempt.pc = "module" /\ here.blocked
    /\ Enqueue("access", "access_verification", NoTab, FALSE)
    /\ Stop("access")
    /\ UNCHANGED <<setup, page, item, desk, history>>

ModuleUnknown ==
    /\ InModule({"unknown", "listing", "company"}) /\ Clear /\ Stop("unknown_layout")
    /\ UNCHANGED <<setup, page, item, desk, history>>

ModulePostApply ==
    /\ InModule({"post_apply"}) /\ Clear
    /\ \E o \in {"submitted", "stuck"} : Stop(o)
    /\ UNCHANGED <<setup, page, item, desk, history>>

\* Continue was clicked: the page does not change, or the next one shows.  A
\* next questionnaire ends the pass, other modules are gone on with.
Continued(act, done) ==
    /\ taken' = taken \cup done
    /\ \/ /\ attempt' = [attempt EXCEPT !.pc = "after", !.stop = "stuck",
                                        !.acts = @ \cup act, !.set = NoSet]
          /\ UNCHANGED <<page, left>>
       \/ \E p \in NextPages(here) :
            LET ends == {Place(here), Place(p)} = {"questions"}
            IN /\ page' = [page EXCEPT ![attempt.tab] = p]
               /\ left' = Spend(p)
               /\ attempt' = [attempt EXCEPT
                    !.pc = IF ends THEN "after" ELSE @,
                    !.stop = IF ends THEN "next_page" ELSE @,
                    !.acts = @ \cup act, !.set = NoSet, !.plan = "none"]

Ask(k, tab, set) == [gate |-> k, tab |-> tab, set |-> set]
Uses(k) == uses' = [uses EXCEPT ![k] = @ + 1]

\* A questionnaire the owner has approved: these questions, all answered.
ModuleApproved ==
    /\ InModule({"questions"}) /\ attempt.set # NoSet /\ Clear
    /\ \/ /\ Questions(here) # attempt.set \/ ~here.answered
          /\ Stop("stuck") /\ UNCHANGED <<page, left, taken, uses>>
       \/ /\ Questions(here) = attempt.set /\ here.answered
          /\ Continued({"answer"},
                       {Ask("unknown_question", attempt.tab, Questions(here))})
          /\ Uses("unknown_question")
    /\ UNCHANGED <<setup, item, desk, given>>

\* A questionnaire with a plan of verified answers, or without one.
ModulePlanned ==
    /\ InModule({"questions"}) /\ attempt.set = NoSet /\ Clear
    /\ \/ /\ attempt.plan # "ready"
          /\ Stop("questionnaire") /\ UNCHANGED <<page, left, taken>>
       \/ /\ attempt.plan = "ready"
          /\ Continued({}, {})
    /\ UNCHANGED <<setup, item, desk, given, uses>>

\* The resume module: upload, then Continue, each with its own approval.
ModuleResume ==
    /\ InModule({"resume"}) /\ Clear
    /\ \/ /\ here.uploaded /\ ~attempt.cont
          /\ Stop("preview") /\ UNCHANGED <<page, left, taken, uses>>
       \/ /\ here.uploaded /\ attempt.cont
          /\ Continued({"continue"},
                       {Ask("resume_continue", NoTab, NoSet)})
          /\ Uses("resume_continue")
       \/ /\ ~here.uploaded /\ ~attempt.up
          /\ Stop("upload_needed") /\ UNCHANGED <<page, left, taken, uses>>
       \/ /\ ~here.uploaded /\ attempt.up
          /\ page' = [page EXCEPT ![attempt.tab].uploaded = TRUE]
          /\ taken' = taken \cup {Ask("resume_upload", NoTab, NoSet)}
          /\ Uses("resume_upload")
          /\ attempt' = [attempt EXCEPT !.pc = "after", !.stop = "after_upload",
                                        !.acts = @ \cup {"upload"}]
          /\ UNCHANGED left
    /\ UNCHANGED <<setup, item, desk, given>>

\* Review: the final submit needs autonomous_submit; its own transactions are
\* FinalSubmit's.
ModuleReview ==
    /\ InModule({"review"}) /\ Clear
    /\ \/ /\ mode # "auto"
          /\ Stop("review_ready") /\ UNCHANGED <<page, taken>>
       \/ /\ mode = "auto"
          /\ taken' = taken \cup {Ask("final_submit", NoTab, NoSet)}
          /\ \/ /\ page' = [page EXCEPT ![attempt.tab] = Open("post_apply")]
                /\ \E o \in {"submitted", "stuck"} : Stop(o)
             \/ \E o \in {"failed", "skipped", "stuck"} :
                  Stop(o) /\ UNCHANGED page
    /\ UNCHANGED <<setup, item, desk, left, given, uses>>

-----------------------------------------------------------------------------
\* After a pass

\* Mutants: one pass too many; passes not counted; the approval not consumed.
OnePassMore == /\ attempt.stop \in {"after_upload", "next_page"}
               /\ attempt.passes < MaxPasses
UncountedPasses == attempt.passes
KeptApproval == {}

\* A question approval that was used is consumed; after an upload, and on a
\* next questionnaire, another pass begins, which starts a new result.
Again == /\ attempt.stop \in {"after_upload", "next_page"}
         /\ attempt.passes + 1 < MaxPasses
PassesNow == IF Again THEN attempt.passes + 1 ELSE attempt.passes
Answered == IF "answer" \in attempt.acts THEN {"unknown_question"} ELSE {}

AfterPass ==
    /\ attempt.pc = "after"
    /\ Consume(Answered)
    /\ attempt' = [attempt EXCEPT !.pc = IF Again THEN "pass" ELSE "finish",
                                  !.passes = PassesNow]
    /\ UNCHANGED <<setup, page, item, desk, history>>

\* The resume approvals are consumed by what the last result did.
UsedGates == (IF attempt.up /\ "upload" \in attempt.acts
              THEN {"resume_upload"} ELSE {})
             \cup (IF attempt.cont /\ "continue" \in attempt.acts
                  THEN {"resume_continue"} ELSE {})
ConsumeApprovals ==
    /\ attempt.pc = "finish"
    /\ Consume(UsedGates)
    /\ Go("gate")
    /\ UNCHANGED <<setup, page, item, desk, history>>

\* The gate the last result stopped at is queued.
GateOf == [unknown_layout |-> "layout_review", upload_needed |-> "resume_upload",
           preview |-> "resume_continue", after_upload |-> "resume_continue"]
OutcomeOf(stop) == CASE stop = "after_upload" -> "preview"
                     [] stop = "next_page" -> "stuck"
                     [] OTHER -> stop
QueueGate ==
    /\ attempt.pc = "gate"
    /\ IF attempt.stop \in DOMAIN GateOf
       THEN Enqueue(GateOf[attempt.stop], "human_intervention", attempt.tab, TRUE)
       ELSE UNCHANGED queue
    /\ EndWith(OutcomeOf(attempt.stop))
    /\ page' = Retired(attempt.stop, page)
    /\ UNCHANGED <<setup, item, desk, history>>

\* _record_goal_outcome: the item is observed in its new state, then its token
\* is taken, spent or given back.
RecordOutcome ==
    /\ attempt.pc = "record"
    /\ item' = Observed(StateOf(attempt.stop), attempt.stop)
    /\ Go("token")
    /\ UNCHANGED <<queue, setup, page, desk, history>>

SettleToken ==
    LET o == attempt.stop
    IN /\ attempt.pc = "token"
       /\ \/ /\ o = "submitted"
             /\ item' = [item EXCEPT !.state = "confirmed"]
          \/ /\ o \in MentionsReview \cup {"stuck"}
             /\ item' = [item EXCEPT !.state =
                           IF @ = "confirmed" THEN @ ELSE "reserved"]
          \/ /\ o \in {"skipped", "failed"}
             /\ item' = Released(o, o)
          \/ /\ o \notin {"submitted", "skipped", "failed"}
             /\ UNCHANGED item
       /\ attempt' = Resting
       /\ UNCHANGED <<queue, setup, page, desk, history>>

WorkerDies ==
    /\ attempt.pc # "idle" /\ MayUpset("deaths")
    /\ attempt' = Resting
    /\ left' = [left EXCEPT !.deaths = @ - 1]
    /\ UNCHANGED <<queue, setup, page, item, desk, given, taken, uses>>

WorkerStep ==
    \/ AlreadySubmitted \/ Find \/ CheckCompanySite \/ OpenListing
    \/ CheckAccess("listing_access", "listing")
    \/ CheckAccess("access", "approvals") \/ TabGone
    \/ NoTabLeft \/ JudgeListing \/ EvidenceGap \/ Apply
    \/ NoResume \/ ReadApprovals
    \/ PassOverQuestions \/ PassElsewhere
    \/ ModuleBlocked \/ ModuleUnknown \/ ModulePostApply
    \/ ModuleApproved \/ ModulePlanned \/ ModuleResume \/ ModuleReview
    \/ AfterPass \/ ConsumeApprovals \/ QueueGate
    \/ RecordOutcome \/ SettleToken

-----------------------------------------------------------------------------
\* The control center.  A card is offered for a pending entry, and for the
\* goal item if it has none (_canonical_work_items, _work_item_actions).

Free == [op |-> "none", k |-> "access", tab |-> NoTab, set |-> NoSet]
Ready == desk.op = "none"
Then(op, k, tab, set) == desk' = [op |-> op, k |-> k, tab |-> tab, set |-> set]
GoalCard == \A k \in Gates : ~Pending(k)
Focusable(k) == queue[k].tab \in Live

\* The exact listing is opened in a new tab.
OpenTab(t) ==
    /\ t \notin Live
    /\ \E p \in Loads(Open("listing")) :
         /\ page' = [page EXCEPT ![t] = p]
         /\ left' = [Spend(p) EXCEPT !.requests = @ - 1]

\* reopen_intervention: then the tab is attached to the entry.
Reopen(k) ==
    /\ Ready /\ Pending(k) /\ k \in AccessGates \cup LayoutGates
    /\ ~Focusable(k)
    /\ \E t \in Tabs : OpenTab(t) /\ Then("reattach", k, t, NoSet)
    /\ UNCHANGED <<queue, setup, item, attempt, given, taken, uses>>

\* reopen_goal_item: then an entry is queued for it.
ReopenItem ==
    /\ Ready /\ GoalCard /\ item.state = "human_handoff"
    /\ \E t \in Tabs :
         /\ OpenTab(t)
         /\ Then("enqueue", IF item.why = "unknown_layout" THEN "listing_layout"
                            ELSE "listing_access", t, NoSet)
    /\ UNCHANGED <<queue, setup, item, attempt, given, taken, uses>>

\* release_intervention: the item is released, then the entry resolved.
Release(k) ==
    /\ Ready /\ Pending(k)
    /\ item' = IF queue[k].goal THEN Released("released", "released") ELSE item
    /\ Then("resolve", k, NoTab, NoSet)
    /\ UNCHANGED <<queue, setup, page, attempt, given, taken, uses>>

\* retry_intervention, of a reviewed layout: the item is queued for replay,
\* then the entry resolved.
Retry(k) ==
    /\ Ready /\ Pending(k) /\ k \in LayoutGates
    /\ item.state = "human_handoff"
    /\ item' = Observed("observed", "replay")
    /\ Then("resolve", k, NoTab, NoSet)
    /\ UNCHANGED <<queue, setup, page, attempt, given, taken, uses>>

\* confirm_external_intervention: the owner applied on the company's site.
ConfirmExternal ==
    LET k == "external_application"
    IN /\ Ready /\ Pending(k)
       /\ item' = [item EXCEPT !.state = "confirmed"]
       /\ Then("resolve", k, NoTab, NoSet)
       /\ UNCHANGED <<queue, setup, page, attempt, given, taken, uses>>

\* The cards of the goal item.
ItemCard ==
    /\ Ready /\ GoalCard
    /\ \/ /\ item.state = "reserved"
          /\ item' = [item EXCEPT !.state = "confirmed"]
       \/ /\ item.state \in {"reserved", "human_handoff"}
          /\ item' = Released("released", "released")
       \/ /\ item.state = "human_handoff" /\ item.why = "evidence_gap"
          /\ item' = [state |-> "observed", why |-> "replay", approved |-> TRUE]
       \/ /\ item.state = "human_handoff" /\ item.why # "evidence_gap"
          /\ item' = Observed("observed", "replay")
    /\ UNCHANGED <<queue, setup, page, attempt, desk, given, taken, uses>>

\* recheck_intervention: the entry's tab is clear.
Recheck(k) ==
    /\ Ready /\ Pending(k) /\ k \in AccessGates
    /\ Focusable(k) /\ ~page[queue[k].tab].blocked
    /\ Then("clear", k, NoTab, NoSet)
    /\ UNCHANGED <<queue, setup, page, item, attempt, given, taken, uses>>

\* approve_resume_intervention: the saved tab still shows a resume module.
ApproveResume(k) ==
    /\ Ready /\ Pending(k) /\ k \in ResumeGates
    /\ Focusable(k) /\ Place(page[queue[k].tab]) = "resume"
    /\ Then("grant", k, NoTab, NoSet)
    /\ UNCHANGED <<queue, setup, page, item, attempt, given, taken, uses>>

\* approve_question_answers: the saved tab shows a questionnaire with every
\* required answer; its fingerprint is what is approved.
ApproveAnswers ==
    LET k == "unknown_question" t == queue[k].tab
    IN /\ Ready /\ Pending(k) /\ Focusable(k)
       /\ Place(page[t]) = "questions" /\ page[t].answered
       /\ Then("grant", k, t, Questions(page[t]))
       /\ UNCHANGED <<queue, setup, page, item, attempt, given, taken, uses>>

\* The later steps of the handlers.
Attach ==
    /\ desk.op = "reattach"
    /\ \/ Reattach(desk.k, desk.tab, TRUE)
       \/ ~Pending(desk.k) /\ UNCHANGED queue
    /\ desk' = Free
    /\ UNCHANGED <<setup, page, item, attempt, history>>
EnqueueReopened ==
    /\ desk.op = "enqueue"
    /\ Enqueue(desk.k, "human_intervention", desk.tab, TRUE)
    /\ desk' = Free
    /\ UNCHANGED <<setup, page, item, attempt, history>>
ResolveEntry ==
    /\ desk.op \in {"resolve", "clear"}
    /\ Resolve({desk.k})
    /\ desk' = IF desk.op = "clear" THEN [Free EXCEPT !.op = "replay"] ELSE Free
    /\ UNCHANGED <<setup, page, item, attempt, history>>
Grant ==
    /\ desk.op = "grant"
    /\ Approve(desk.k, desk.set)
    /\ given' = given \cup {Ask(desk.k, desk.tab, desk.set)}
    /\ uses' = [uses EXCEPT ![desk.k] = 0]
    /\ desk' = [Free EXCEPT !.op = "replay"]
    /\ UNCHANGED <<setup, page, item, attempt, left, taken>>
\* retry_resolved_intervention: only a handed-off item is queued for replay.
ReplayResolved ==
    /\ desk.op = "replay"
    /\ item' = IF item.state = "human_handoff" THEN Observed("observed", "replay")
               ELSE item
    /\ desk' = Free
    /\ UNCHANGED <<queue, setup, page, attempt, history>>

DeskStep ==
    Attach \/ EnqueueReopened \/ ResolveEntry \/ Grant \/ ReplayResolved

DeskDies ==
    /\ ~Ready /\ MayUpset("deaths")
    /\ desk' = Free
    /\ left' = [left EXCEPT !.deaths = @ - 1]
    /\ UNCHANGED <<queue, setup, page, item, attempt, given, taken, uses>>

Reopens == ReopenItem \/ \E k \in Gates : Reopen(k)
Decides ==
    \/ \E k \in Gates : Release(k) \/ Retry(k) \/ Recheck(k) \/ ApproveResume(k)
    \/ ConfirmExternal \/ ItemCard \/ ApproveAnswers
DeskRequest ==
    /\ left.requests > 0
    /\ \/ Reopens
       \/ Decides /\ left' = [left EXCEPT !.requests = @ - 1]

-----------------------------------------------------------------------------
\* The owner at the browser.

\* Clears an access check, fills in a questionnaire, closes the tab, continues
\* or submits.
OwnerActs(t) ==
    /\ t \in Live /\ MayUpset("moves")
    /\ \E p \in {Closed} \cup
          (IF page[t].blocked THEN {[page[t] EXCEPT !.blocked = FALSE]}
           ELSE (IF Place(page[t]) = "questions"
                 THEN {[page[t] EXCEPT !.answered = TRUE]} ELSE {})
                \cup (IF page[t].view = "form" THEN NextPages(page[t]) ELSE {})
                \cup (IF Place(page[t]) = "review" THEN {Open("post_apply")}
                      ELSE {})) :
         /\ p # page[t] /\ page' = [page EXCEPT ![t] = p]
         /\ left' = [Spend(p) EXCEPT !.moves = @ - 1]
    /\ UNCHANGED <<queue, setup, item, attempt, desk, given, taken, uses>>

-----------------------------------------------------------------------------
Init ==
    /\ QueueInit
    /\ route \in Routes /\ mode \in Modes
    /\ page = [t \in Tabs |-> Closed]
    /\ item = [state |-> "observed", why |-> "none", approved |-> FALSE]
    /\ attempt = Resting
    /\ desk = Free
    /\ left = [requests |-> MaxRequests, moves |-> MaxMoves,
               checks |-> MaxChecks, deaths |-> MaxDeaths]
    /\ given = {} /\ taken = {}
    /\ uses = [k \in Approvable |-> 0]

Next == \/ Dispatch \/ WorkerStep \/ WorkerDies
        \/ DeskRequest \/ DeskStep \/ DeskDies
        \/ \E t \in Tabs : OwnerActs(t)

Spec == Init /\ [][Next]_vars
\* The worker runs: calls of the browser return or time out.
FairSpec == Spec /\ WF_vars(WorkerStep)

-----------------------------------------------------------------------------
\* Properties

Asks == [gate : Gates \cup {"final_submit"}, tab : Tabs \cup {NoTab},
         set : QuestionSets \cup {NoSet}]
\* Type invariant: the queue file, what the tabs show, the item of the ledger, and that
\* a pass is never beyond the limit of its cycle.
TypeOK ==
    /\ queue \in QueueType
    /\ route \in Routes /\ mode \in Modes
    /\ page \in [Tabs -> [view : {"closed", "listing", "form", "post_apply",
                                 "company"},
                         pos : 0..Len(route), uploaded : BOOLEAN,
                         answered : BOOLEAN, blocked : BOOLEAN]]
    /\ item \in [state : TokenStates \cup {"observed", "human_handoff",
                             "skipped", "failed", "released"},
                 why : Outcomes \cup {"none", "evidence", "replay", "released"},
                 approved : BOOLEAN]
    /\ attempt.tab \in Tabs \cup {NoTab} /\ attempt.passes < MaxPasses
    /\ given \subseteq Asks /\ taken \subseteq Asks
    /\ uses \in [Approvable -> Nat]

\* Whatever the owner, the handlers and the worker do at the same time, a gate
\* is passed only if the owner has approved it, and a questionnaire only if the
\* owner has approved these questions: an assisted run uploads and continues past
\* the resume, and continues past a questionnaire the plan does not answer, only as
\* approved, and never submits; a draft run touches none of them
\* (job_application/README.md:161-166, 333-335).  The tab on which the questions
\* were approved may differ: the entry can be queued anew for another tab between
\* the look at the first one and the grant.
Approved(gate, set) == \E a \in given : a.gate = gate /\ a.set = set
NoGateOpensItself ==
    /\ \A a \in taken : mode = "assisted" \/ a.gate = "unknown_question"
                        => Approved(a.gate, a.set)
    /\ mode = "draft" => taken = {}

\* Every attempt ends and frees its worker (the bound of the pass loop,
\* run_indeed_unattended.py:832), whoever moves the pages meanwhile.
AttemptEnds == attempt.pc # "idle" ~> attempt.pc = "idle"

\* The approval of a questionnaire is used up by the click on Continue it
\* allows (run_indeed_unattended.py:914-918), although the click and its
\* consumption are two steps: only a crash between them lets it be used again.
AnswersApprovedEachTime ==
    mode = "assisted" => uses["unknown_question"] <= 1 + (MaxDeaths - left.deaths)

\* "Review the uploaded resume preview, then approve Continue."
\* (job_finder_control.py:251): the item whose Continue has been approved is put
\* back for replay, not left waiting for the owner.
ApprovedContinueIsReplayed ==
    Granted("resume_continue") /\ desk = Free /\ attempt.pc = "idle"
    => item.state \notin {"reserved", "human_handoff"}
=============================================================================
