------------------------- MODULE VerificationQueue -------------------------
(***************************************************************************)
(* The human-verification queue of access_verification.py for one          *)
(* application: one entry per kind of gate, for an access gate one per     *)
(* host.  Every operation reads the JSON file, changes one or more entries *)
(* and writes the file back under the queue's lock; here each is one step. *)
(* A grant is the marker of a one-use approval (approval_granted_at or     *)
(* question_approved_at) and spent its consumed_at; set is the fingerprint *)
(* of the approved questions.                                              *)
(***************************************************************************)
EXTENDS Naturals, FiniteSets

CONSTANTS
    MaxTabs,        \* bound: browser tabs ever opened
    QuestionSets,   \* fingerprints of question pages
    NoSet           \* no fingerprint

ASSUME QueueAssumption == MaxTabs \in Nat \ {0} /\ NoSet \notin QuestionSets

VARIABLE queue      \* queue[k]: the entry of gate k

Tabs == 1..MaxTabs
NoTab == 0

\* An access gate (captcha, verification or sign-in) and a layout gate stand on
\* the listing's host or on the application's; the others on the application's
\* or, the last, on a company's.
AccessGates == {"listing_access", "access"}
ResumeGates == {"resume_upload", "resume_continue"}
LayoutGates == {"listing_layout", "layout_review"}
Gates == AccessGates \cup ResumeGates \cup LayoutGates
           \cup {"unknown_question", "external_application"}

NoEntry == [status |-> "absent", group |-> "none", tab |-> NoTab,
            goal |-> FALSE, grant |-> FALSE, spent |-> FALSE, set |-> NoSet]

Pending(k) == queue[k].status = "pending"

\* pending entries a tab is attached to
PendingTabs == {queue[k].tab : k \in {x \in Gates : Pending(x)}} \ {NoTab}

\* enqueue_handoff and enqueue: the entry is written anew, so a grant it holds
\* is gone; tab and ids survive from the old entry when none is given.
Enqueued(k, group, tab, goal) ==
    [NoEntry EXCEPT !.status = "pending", !.group = group,
                    !.tab = IF tab # NoTab THEN tab ELSE queue[k].tab,
                    !.goal = goal \/ queue[k].goal]
Enqueue(k, group, tab, goal) ==
    queue' = [queue EXCEPT ![k] = Enqueued(k, group, tab, goal)]

\* resolve and resolve_matching, of entries that exist.
Resolve(gates) ==
    queue' = [k \in Gates |->
                IF k \in gates /\ queue[k].status # "absent"
                THEN [queue[k] EXCEPT !.status = "resolved"] ELSE queue[k]]

\* resolve_if_clear: a pending access entry of this host.
ResolveIfClear(k) == Resolve({x \in {k} : Pending(x)})

\* reattach_target refuses an entry that is not pending.
Reattach(k, tab, goal) ==
    /\ Pending(k)
    /\ queue' = [queue EXCEPT ![k] =
                   [@ EXCEPT !.tab = tab, !.goal = queue[k].goal \/ goal]]

\* approve_action and approve_question: whatever the entry's status is.
Approve(k, set) ==
    /\ queue[k].status # "absent"
    /\ queue' = [queue EXCEPT ![k] =
                   [@ EXCEPT !.status = "resolved", !.grant = TRUE,
                             !.spent = FALSE, !.set = set]]

Granted(k) ==
    queue[k].status = "resolved" /\ queue[k].grant /\ ~queue[k].spent

\* approved_action
ApprovedAction(k) == Granted(k)

\* approved_question: of this tab and these questions.
ApprovedQuestion(tab, set) ==
    /\ Granted("unknown_question")
    /\ queue["unknown_question"].tab = tab
    /\ queue["unknown_question"].set = set

\* consume_action and consume_question_approval
Consumed(q, gates) ==
    [k \in Gates |-> IF k \in gates /\ q[k].grant
                     THEN [q[k] EXCEPT !.spent = TRUE] ELSE q[k]]
Consume(gates) == queue' = Consumed(queue, gates)

QueueInit == queue = [k \in Gates |-> NoEntry]

QueueType ==
    [Gates -> [status : {"absent", "pending", "resolved"},
               group : {"none", "access_verification", "human_intervention"},
               tab : Tabs \cup {NoTab}, goal : BOOLEAN, grant : BOOLEAN,
               spent : BOOLEAN, set : QuestionSets \cup {NoSet}]]
=============================================================================
