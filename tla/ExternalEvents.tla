--------------------------- MODULE ExternalEvents ---------------------------
(***************************************************************************)
(* The external event workflow: an event package collects the approval of *)
(* every responsible department, its e-mail to SADO is delivered by Gmail  *)
(* or exported and sent by hand, and SADO's answer is recorded.  Each      *)
(* database function of migration 0010 is one transaction, under the row   *)
(* locks it takes; the web server calls several in a row around the        *)
(* delivery (eventAction in run-operation.ts).                             *)
(*                                                                         *)
(* One package: no function reads the rows of another.  Its payload and    *)
(* revision never change, so neither do the draft, its hash and the        *)
(* idempotency key: every claim of the package carries the same key.       *)
(***************************************************************************)
EXTENDS Naturals

CONSTANTS
    Departments,
    Required,       \* external_event_required_departments
    Officers,
    DeptOf,         \* officer_department of each officer
    Modes           \* the mail modes the servers are configured with

ASSUME EventsAssumption ==
    /\ Required \subseteq Departments
    /\ DeptOf \in [Officers -> Departments]
    /\ Modes \subseteq {"copy_export", "gmail"}

VARIABLES
    status,         \* external_event_packages
    approvals,      \* external_event_approvals of the revision
    mail,           \* external_event_mail: delivery_mode, delivery_status
    proof,          \* is there a row in external_event_sado_proofs?
    request,        \* the approve_email request an officer has open
    late,           \* calls whose caller has stopped waiting for them
    gmail,          \* what Gmail did with the message (history)
    manual          \* was a manual delivery confirmed? (history)

vars == <<status, approvals, mail, proof, request, late, gmail, manual>>
votes == <<approvals, proof, manual>>

NoMail == [mode |-> "copy_export", delivery |-> "none"]
Idle == [pc |-> "idle", mode |-> "copy_export"]

\* The calls that end a claim.
Calls == [by : Officers, call : Modes \cup {"fail"}]

\* submit_external_event has just run.
Init ==
    /\ status = "not_sado_approved"
    /\ approvals = {}
    /\ mail = NoMail
    /\ proof = FALSE
    /\ request = [o \in Officers |-> Idle]
    /\ late = {}
    /\ gmail = "nothing"
    /\ manual = FALSE

-----------------------------------------------------------------------------
\* Faulty variants: the forms some definitions below would take after a
\* plausible mistake.  The properties are tested against them.

AnyOfficer(o) == DeptOf[o] \in Departments
AllButOne(voted) == \E d \in Required : Required \ {d} \subseteq voted
DraftReplaced == [mail EXCEPT !.delivery = "pending"]
AfterFailure == [mail EXCEPT !.delivery = "failed"]
FinishSubmits(mode) ==
    /\ mail.delivery \notin {"none", "pending"} /\ mail.mode = mode
    /\ mail' = [mail EXCEPT !.delivery =
                  IF mode = "gmail" THEN "sent" ELSE "exported"]
    /\ status' = "submitted_to_sado"

-----------------------------------------------------------------------------
\* transition_external_event

Responsible(o) == DeptOf[o] \in Required
Unanimous(voted) == Required \subseteq voted

\* The upsert of the mail row does not touch delivery_mode and
\* delivery_status, which have their defaults in a new row.
Drafted == IF mail = NoMail THEN [mail EXCEPT !.delivery = "pending"] ELSE mail

\* The status is computed from the approvals alone, whatever it was.
ApproveDepartment(o) ==
    /\ Responsible(o)
    /\ approvals' = approvals \cup {DeptOf[o]}
    /\ status' = IF Unanimous(approvals') THEN "email_review"
                                          ELSE "department_review"
    /\ mail' = IF Unanimous(approvals') THEN Drafted ELSE mail
    /\ UNCHANGED <<proof, request, late, gmail, manual>>

\* The proof's primary key is the event: a second one aborts.
RecordSadoApproval ==
    /\ status = "submitted_to_sado"
    /\ ~proof
    /\ proof' = TRUE
    /\ status' = "sado_approved"
    /\ UNCHANGED <<approvals, mail, request, late, gmail, manual>>

Exported == mail.mode = "copy_export" /\ mail.delivery = "exported"

ConfirmManualDelivery ==
    /\ status = "email_review"
    /\ Exported
    /\ manual' = TRUE
    /\ status' = "submitted_to_sado"
    /\ UNCHANGED <<approvals, mail, proof, request, late, gmail>>

-----------------------------------------------------------------------------
\* approve_email: read the feed, claim, deliver, finish or fail.

Go(o, pc) == request' = [request EXCEPT ![o].pc = pc]
Leave(o) == request' = [request EXCEPT ![o] = Idle]

\* The server's mail adapter is the one its configuration names.
ReadDraft(o, mode) ==
    /\ request[o].pc = "idle"
    /\ status = "email_review"
    /\ mail # NoMail
    /\ request' = [request EXCEPT ![o] = [pc |-> "claim", mode |-> mode]]
    /\ UNCHANGED <<status, mail, late, gmail, votes>>

Claimable ==
    /\ status \in {"email_review", "submitted_to_sado"}
    /\ mail.delivery \in {"pending", "failed"}

Claim(o) ==
    /\ request[o].pc = "claim"
    /\ Claimable
    /\ mail' = [mode |-> request[o].mode, delivery |-> "sending"]
    /\ Go(o, "deliver")
    /\ UNCHANGED <<status, late, gmail, votes>>

\* Delivered already, being delivered by another, or not in review any more.
ClaimRefused(o) ==
    /\ request[o].pc = "claim"
    /\ ~Claimable
    /\ Leave(o)
    /\ UNCHANGED <<status, mail, late, gmail, votes>>

Export(o) ==
    /\ request[o].pc = "deliver"
    /\ request[o].mode = "copy_export"
    /\ Go(o, "finish")
    /\ UNCHANGED <<status, mail, late, gmail, votes>>

\* Gmail answers with the id of the message it accepted ...
Send(o) ==
    /\ request[o].pc = "deliver"
    /\ request[o].mode = "gmail"
    /\ gmail' = "receipt"
    /\ Go(o, "finish")
    /\ UNCHANGED <<status, mail, late, votes>>

\* ... or the adapter throws: the message was rejected, or it was accepted and
\* the answer was lost.
NoReceipt(o) ==
    /\ request[o].pc = "deliver"
    /\ request[o].mode = "gmail"
    /\ gmail' \in {gmail, IF gmail = "nothing" THEN "unconfirmed" ELSE gmail}
    /\ Go(o, "fail")
    /\ UNCHANGED <<status, mail, late, votes>>

\* finish_external_event_delivery: some claim has set the key, and the mode is
\* still the receipt's.
FinishDelivery(mode) ==
    /\ mail.delivery \notin {"none", "pending"} /\ mail.mode = mode
    /\ mail' = [mail EXCEPT !.delivery =
                  IF mode = "gmail" THEN "sent" ELSE "exported"]
    /\ status' = IF mode = "gmail" THEN "submitted_to_sado" ELSE status

\* fail_external_event_delivery
Failed == IF mail.delivery = "sending"
          THEN [mail EXCEPT !.delivery = "failed"] ELSE mail

Finish(o) ==
    /\ request[o].pc = "finish"
    /\ FinishDelivery(request[o].mode)
    /\ Leave(o)
    /\ UNCHANGED <<late, gmail, votes>>

\* The call brings an error: it may have run, may run later, or never.
FinishUnanswered(o) ==
    LET call == [by |-> o, call |-> request[o].mode]
    IN /\ request[o].pc = "finish"
       /\ call \notin late
       /\ late' = late \cup {call}
       /\ Go(o, "fail")
       /\ UNCHANGED <<status, mail, gmail, votes>>

Fail(o) ==
    /\ request[o].pc = "fail"
    /\ mail' = Failed
    /\ Leave(o)
    /\ UNCHANGED <<status, late, gmail, votes>>

\* The caller does not look at the answer of this call.
FailUnanswered(o) ==
    /\ request[o].pc = "fail"
    /\ late' = late \cup {[by |-> o, call |-> "fail"]}
    /\ Leave(o)
    /\ UNCHANGED <<status, mail, gmail, votes>>

-----------------------------------------------------------------------------
\* A call whose caller has gone takes effect (or never does).
LateCall(c) ==
    /\ c \in late
    /\ late' = late \ {c}
    /\ \/ c.call = "fail" /\ mail' = Failed /\ UNCHANGED status
       \/ c.call \in Modes /\ FinishDelivery(c.call)
    /\ UNCHANGED <<request, gmail, votes>>

\* The server dies, or the error of a claim's answer ends the request.
Crash(o) ==
    /\ request[o].pc # "idle"
    /\ Leave(o)
    /\ UNCHANGED <<status, mail, late, gmail, votes>>

Next ==
    \/ RecordSadoApproval \/ ConfirmManualDelivery
    \/ \E o \in Officers :
         \/ ApproveDepartment(o)
         \/ \E mode \in Modes : ReadDraft(o, mode)
         \/ Claim(o) \/ ClaimRefused(o)
         \/ Export(o) \/ Send(o) \/ NoReceipt(o)
         \/ Finish(o) \/ FinishUnanswered(o)
         \/ Fail(o) \/ FailUnanswered(o)
         \/ Crash(o)
    \/ \E c \in Calls : LateCall(c)

Spec == Init /\ [][Next]_vars

-----------------------------------------------------------------------------
\* Properties

Statuses == {"not_sado_approved", "department_review", "email_review",
             "submitted_to_sado", "sado_approved"}
Delivered == {"exported", "sent"}

TypeOK ==
    /\ status \in Statuses
    /\ approvals \subseteq Required
    /\ mail \in [mode : {"copy_export", "gmail"},
                 delivery : {"none", "pending", "sending", "failed"}
                              \cup Delivered]
    /\ request \in [Officers ->
         [pc : {"idle", "claim", "deliver", "finish", "fail"},
          mode : {"copy_export", "gmail"}]]
    /\ late \subseteq Calls
    /\ gmail \in {"nothing", "unconfirmed", "receipt"}
    /\ proof \in BOOLEAN /\ manual \in BOOLEAN

Holds(o) == request[o].pc \in {"deliver", "finish", "fail"}

\* Two officers never hold the claim at once, so the same e-mail is never being
\* sent twice at the same time, although claims fail, are lost and repeated,
\* and approvals redraft the mail meanwhile (claim_external_event_delivery).
SingleSender == \A o1, o2 \in Officers : Holds(o1) /\ Holds(o2) => o1 = o2

\* A package counts as submitted only after Gmail's receipt for its message or
\* an officer's confirmation of the manual delivery: an export, and a request
\* that failed or was not answered, do not make it so.
SubmittedIsDelivered ==
    status \in {"submitted_to_sado", "sado_approved"} =>
        manual \/ (mail.delivery = "sent" /\ gmail = "receipt")

\* Nothing leaves for SADO before every responsible department has approved.
UnanimousBeforeMail ==
    mail.delivery \in {"sending"} \cup Delivered \/ gmail # "nothing" \/ manual
        => Required \subseteq approvals

\* A recorded delivery is never taken back nor changed into the other kind, by
\* a fail call that comes after it, a later claim, a late receipt or a repeated
\* approval.
DeliveredStaysDelivered ==
    [][mail.delivery \in Delivered => mail'.delivery = mail.delivery]_vars
=============================================================================
