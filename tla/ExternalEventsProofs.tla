------------------------ MODULE ExternalEventsProofs ------------------------
(***************************************************************************)
(* The safety of the external event workflow, for any number of officers   *)
(* and departments.                                                        *)
(***************************************************************************)
EXTENDS ExternalEvents, TLAPS

\* What has to be true of the claim for a fail call to be harmless: it ends the
\* claim of its own caller, who no longer holds it, and no other.
Fails(c) == c \in late /\ c.call = "fail"

ClaimGuarded ==
    /\ \A o \in Officers :
         Holds(o) => mail.delivery \in {"sending"} \cup Delivered
    /\ \A c \in Calls : Fails(c) =>
         /\ mail.delivery \in {"sending"} \cup Delivered
         /\ \A o \in Officers : ~Holds(o)
    /\ \A c, d \in Calls : Fails(c) /\ Fails(d) => c = d

\* A request has the mode of a server, and who is about to report a delivery by
\* Gmail has Gmail's receipt.
ReceiptHeld ==
    /\ \A o \in Officers :
         request[o].pc # "idle" => request[o].mode \in Modes
    /\ \A o \in Officers :
         request[o].pc = "finish" /\ request[o].mode = "gmail"
           => gmail = "receipt"
    /\ \A c \in late : c.call = "gmail" => gmail = "receipt"

\* A delivered mail has the mode of its delivery, and no draft exists before
\* the last approval.
MailAgrees ==
    /\ mail.delivery = "sent" => mail.mode = "gmail" /\ gmail = "receipt"
    /\ mail.delivery = "exported" => mail.mode = "copy_export"
    /\ mail.delivery = "none" => mail = NoMail
    /\ mail # NoMail => Required \subseteq approvals
    /\ mail = NoMail => gmail = "nothing" /\ ~manual

IInv ==
    /\ TypeOK
    /\ SingleSender
    /\ ClaimGuarded
    /\ ReceiptHeld
    /\ MailAgrees
    /\ SubmittedIsDelivered

-----------------------------------------------------------------------------
\* A package just submitted satisfies the invariant.
LEMMA Established == Init => IInv
<1> SUFFICES ASSUME Init PROVE IInv
  OBVIOUS
<1>1. TypeOK /\ SingleSender /\ SubmittedIsDelivered
  BY DEF Init, TypeOK, SingleSender, SubmittedIsDelivered, Statuses, Idle,
    Holds, NoMail
<1>2. ClaimGuarded /\ ReceiptHeld /\ MailAgrees
  BY DEF Init, ClaimGuarded, ReceiptHeld, MailAgrees, Idle, Holds, Fails, NoMail
<1> QED
  BY <1>1, <1>2 DEF IInv

\* Every step keeps it.  A step that leaves a part's variables alone keeps the
\* part; those parts are the last step under each action.
LEMMA Preserved == IInv /\ [Next]_vars => IInv'
<1> SUFFICES ASSUME IInv, [Next]_vars PROVE IInv'
  OBVIOUS
<1> USE DEF IInv
<1>1. ASSUME RecordSadoApproval PROVE IInv'
  <2>1. TypeOK'
    BY <1>1 DEF RecordSadoApproval, TypeOK, Statuses
  <2>2. SubmittedIsDelivered'
    BY <1>1 DEF RecordSadoApproval, SubmittedIsDelivered
  <2>3. (SingleSender /\ ClaimGuarded /\ ReceiptHeld /\ MailAgrees)'
    BY <1>1 DEF RecordSadoApproval, SingleSender, ClaimGuarded, ReceiptHeld,
      MailAgrees, Holds, Fails
  <2> QED
    BY <2>1, <2>2, <2>3
<1>2. ASSUME ConfirmManualDelivery PROVE IInv'
  <2>1. TypeOK'
    BY <1>2 DEF ConfirmManualDelivery, TypeOK, Statuses
  <2>2. MailAgrees'
    BY <1>2 DEF ConfirmManualDelivery, Exported, MailAgrees, NoMail
  <2>3. SubmittedIsDelivered'
    BY <1>2 DEF ConfirmManualDelivery, SubmittedIsDelivered
  <2>4. (SingleSender /\ ClaimGuarded /\ ReceiptHeld)'
    BY <1>2 DEF ConfirmManualDelivery, SingleSender, ClaimGuarded,
      ReceiptHeld, Holds, Fails
  <2> QED
    BY <2>1, <2>2, <2>3, <2>4
<1>3. ASSUME NEW o \in Officers, ApproveDepartment(o) PROVE IInv'
  <2>1. TypeOK'
    BY <1>3 DEF ApproveDepartment, Responsible, Drafted, TypeOK, Statuses
  <2>2. ClaimGuarded'
    BY <1>3 DEF ApproveDepartment, Drafted, ClaimGuarded, Holds, Fails,
      Delivered, NoMail
  <2>3. MailAgrees'
    BY <1>3 DEF ApproveDepartment, Unanimous, Drafted, MailAgrees
  <2>4. SubmittedIsDelivered'
    BY <1>3 DEF ApproveDepartment, SubmittedIsDelivered
  <2>5. (SingleSender /\ ReceiptHeld)'
    BY <1>3 DEF ApproveDepartment, SingleSender, ReceiptHeld, Holds
  <2> QED
    BY <2>1, <2>2, <2>3, <2>4, <2>5
<1>4. ASSUME NEW o \in Officers, NEW mode \in Modes, ReadDraft(o, mode)
      PROVE IInv'
  <2>1. TypeOK'
    BY <1>4, EventsAssumption DEF ReadDraft, votes, TypeOK
  <2>2. SingleSender'
    BY <1>4 DEF ReadDraft, SingleSender, Holds
  <2>3. ClaimGuarded'
    BY <1>4 DEF ReadDraft, ClaimGuarded, Holds, Fails
  <2>4. ReceiptHeld'
    BY <1>4 DEF ReadDraft, ReceiptHeld
  <2>5. (MailAgrees /\ SubmittedIsDelivered)'
    BY <1>4 DEF ReadDraft, votes, MailAgrees, SubmittedIsDelivered
  <2> QED
    BY <2>1, <2>2, <2>3, <2>4, <2>5
<1>5. ASSUME NEW o \in Officers, Claim(o) PROVE IInv'
  <2>1. TypeOK'
    BY <1>5 DEF Claim, Go, votes, TypeOK
  \* A row that is pending or failed has no holder left.
  <2>2. SingleSender'
    BY <1>5 DEF Claim, Claimable, Go, SingleSender, Holds, ClaimGuarded,
      Delivered
  <2>3. ClaimGuarded'
    BY <1>5 DEF Claim, Claimable, ClaimGuarded, Fails, Delivered
  <2>4. ReceiptHeld'
    BY <1>5 DEF Claim, Go, ReceiptHeld
  <2>5. MailAgrees'
    BY <1>5 DEF Claim, Claimable, votes, MailAgrees, NoMail
  <2>6. SubmittedIsDelivered'
    BY <1>5 DEF Claim, Claimable, votes, SubmittedIsDelivered
  <2> QED
    BY <2>1, <2>2, <2>3, <2>4, <2>5, <2>6
<1>6. ASSUME NEW o \in Officers, ClaimRefused(o) PROVE IInv'
  <2>1. TypeOK'
    BY <1>6 DEF ClaimRefused, Leave, votes, Idle, TypeOK
  <2>2. SingleSender'
    BY <1>6 DEF ClaimRefused, Leave, Idle, SingleSender, Holds
  <2>3. ClaimGuarded'
    BY <1>6 DEF ClaimRefused, Leave, Idle, ClaimGuarded, Holds, Fails
  <2>4. ReceiptHeld'
    BY <1>6 DEF ClaimRefused, Leave, Idle, ReceiptHeld
  <2>5. (MailAgrees /\ SubmittedIsDelivered)'
    BY <1>6 DEF ClaimRefused, votes, MailAgrees, SubmittedIsDelivered
  <2> QED
    BY <2>1, <2>2, <2>3, <2>4, <2>5
<1>7. ASSUME NEW o \in Officers, Export(o) PROVE IInv'
  <2>1. TypeOK'
    BY <1>7 DEF Export, Go, votes, TypeOK
  <2>2. SingleSender'
    BY <1>7 DEF Export, Go, SingleSender, Holds
  <2>3. ClaimGuarded'
    BY <1>7 DEF Export, ClaimGuarded, Holds, Fails
  <2>4. ReceiptHeld'
    BY <1>7 DEF Export, Go, ReceiptHeld
  <2>5. (MailAgrees /\ SubmittedIsDelivered)'
    BY <1>7 DEF Export, votes, MailAgrees, SubmittedIsDelivered
  <2> QED
    BY <2>1, <2>2, <2>3, <2>4, <2>5
<1>8. ASSUME NEW o \in Officers, Send(o) PROVE IInv'
  <2>1. TypeOK'
    BY <1>8 DEF Send, Go, votes, TypeOK
  <2>2. SingleSender'
    BY <1>8 DEF Send, Go, SingleSender, Holds
  <2>3. ClaimGuarded'
    BY <1>8 DEF Send, ClaimGuarded, Holds, Fails
  <2>4. ReceiptHeld'
    BY <1>8 DEF Send, Go, ReceiptHeld
  <2>5. MailAgrees'
    BY <1>8 DEF Send, votes, MailAgrees, ClaimGuarded, Holds, NoMail,
      Delivered
  <2>6. SubmittedIsDelivered'
    BY <1>8 DEF Send, votes, SubmittedIsDelivered
  <2> QED
    BY <2>1, <2>2, <2>3, <2>4, <2>5, <2>6
<1>9. ASSUME NEW o \in Officers, NoReceipt(o) PROVE IInv'
  <2>1. TypeOK'
    BY <1>9 DEF NoReceipt, Go, votes, TypeOK
  <2>2. SingleSender'
    BY <1>9 DEF NoReceipt, Go, SingleSender, Holds
  <2>3. ClaimGuarded'
    BY <1>9 DEF NoReceipt, ClaimGuarded, Holds, Fails
  <2>4. ReceiptHeld'
    BY <1>9 DEF NoReceipt, Go, ReceiptHeld
  <2>5. MailAgrees'
    BY <1>9 DEF NoReceipt, votes, MailAgrees, ClaimGuarded, Holds, NoMail,
      Delivered
  <2>6. SubmittedIsDelivered'
    BY <1>9 DEF NoReceipt, votes, SubmittedIsDelivered
  <2> QED
    BY <2>1, <2>2, <2>3, <2>4, <2>5, <2>6
<1>10. ASSUME NEW o \in Officers, Finish(o) PROVE IInv'
  <2>1. TypeOK'
    BY <1>10 DEF Finish, FinishDelivery, Leave, votes, Idle, TypeOK,
      Statuses, Delivered
  <2>2. SingleSender'
    BY <1>10 DEF Finish, Leave, SingleSender, Holds
  <2>3. ClaimGuarded'
    BY <1>10 DEF Finish, Leave, Idle, TypeOK, ClaimGuarded, SingleSender,
      Holds, Fails
  <2>4. ReceiptHeld'
    BY <1>10 DEF Finish, Leave, Idle, ReceiptHeld
  <2>5. MailAgrees'
    BY <1>10, EventsAssumption DEF Finish, FinishDelivery, votes, MailAgrees,
      ReceiptHeld, NoMail
  <2>6. SubmittedIsDelivered'
    BY <1>10 DEF Finish, FinishDelivery, votes, SubmittedIsDelivered,
      MailAgrees, ReceiptHeld
  <2> QED
    BY <2>1, <2>2, <2>3, <2>4, <2>5, <2>6
<1>11. ASSUME NEW o \in Officers, FinishUnanswered(o) PROVE IInv'
  <2>1. TypeOK'
    BY <1>11 DEF FinishUnanswered, Go, votes, TypeOK, Calls, ReceiptHeld
  <2>2. SingleSender'
    BY <1>11 DEF FinishUnanswered, Go, SingleSender, Holds
  <2>3. ClaimGuarded'
    BY <1>11 DEF FinishUnanswered, TypeOK, ClaimGuarded, Holds, Fails
  <2>4. ReceiptHeld'
    BY <1>11 DEF FinishUnanswered, Go, ReceiptHeld
  <2>5. (MailAgrees /\ SubmittedIsDelivered)'
    BY <1>11 DEF FinishUnanswered, votes, MailAgrees, SubmittedIsDelivered
  <2> QED
    BY <2>1, <2>2, <2>3, <2>4, <2>5
<1>12. ASSUME NEW o \in Officers, Fail(o) PROVE IInv'
  <2>1. TypeOK'
    BY <1>12 DEF Fail, Failed, Leave, votes, Idle, TypeOK
  <2>2. SingleSender'
    BY <1>12 DEF Fail, Leave, SingleSender, Holds
  \* The claim that fails is the only one (SingleSender), and no fail call of
  \* an earlier one is outstanding.
  <2>3. ClaimGuarded'
    BY <1>12 DEF Fail, Leave, Idle, TypeOK, ClaimGuarded, SingleSender,
      Holds, Fails
  <2>4. ReceiptHeld'
    BY <1>12 DEF Fail, Leave, Idle, ReceiptHeld
  <2>5. MailAgrees'
    BY <1>12 DEF Fail, Failed, votes, MailAgrees, NoMail
  <2>6. SubmittedIsDelivered'
    BY <1>12 DEF Fail, Failed, votes, SubmittedIsDelivered
  <2> QED
    BY <2>1, <2>2, <2>3, <2>4, <2>5, <2>6
<1>13. ASSUME NEW o \in Officers, FailUnanswered(o) PROVE IInv'
  <2>1. TypeOK'
    BY <1>13 DEF FailUnanswered, Leave, votes, Idle, TypeOK, Calls
  <2>2. SingleSender'
    BY <1>13 DEF FailUnanswered, Leave, SingleSender, Holds
  <2>3. ClaimGuarded'
    BY <1>13 DEF FailUnanswered, Leave, Idle, TypeOK, ClaimGuarded,
      SingleSender, Holds, Fails
  <2>4. ReceiptHeld'
    BY <1>13 DEF FailUnanswered, Leave, Idle, ReceiptHeld
  <2>5. (MailAgrees /\ SubmittedIsDelivered)'
    BY <1>13 DEF FailUnanswered, votes, MailAgrees, SubmittedIsDelivered
  <2> QED
    BY <2>1, <2>2, <2>3, <2>4, <2>5
<1>14. ASSUME NEW o \in Officers, Crash(o) PROVE IInv'
  <2>1. TypeOK'
    BY <1>14 DEF Crash, Leave, votes, Idle, TypeOK
  <2>2. SingleSender'
    BY <1>14 DEF Crash, Leave, Idle, SingleSender, Holds
  <2>3. ClaimGuarded'
    BY <1>14 DEF Crash, Leave, Idle, ClaimGuarded, Holds, Fails
  <2>4. ReceiptHeld'
    BY <1>14 DEF Crash, Leave, Idle, ReceiptHeld
  <2>5. (MailAgrees /\ SubmittedIsDelivered)'
    BY <1>14 DEF Crash, votes, MailAgrees, SubmittedIsDelivered
  <2> QED
    BY <2>1, <2>2, <2>3, <2>4, <2>5
<1>15. ASSUME NEW c \in Calls, LateCall(c) PROVE IInv'
  <2>1. TypeOK'
    BY <1>15 DEF LateCall, FinishDelivery, Failed, votes, TypeOK, Statuses,
      Delivered
  <2>2. ClaimGuarded'
    BY <1>15 DEF LateCall, FinishDelivery, TypeOK, ClaimGuarded, Holds,
      Fails, Delivered
  <2>3. ReceiptHeld'
    BY <1>15 DEF LateCall, ReceiptHeld
  <2>4. MailAgrees'
    BY <1>15 DEF LateCall, FinishDelivery, Failed, votes, TypeOK, MailAgrees,
      ReceiptHeld, NoMail
  <2>5. SubmittedIsDelivered'
    BY <1>15 DEF LateCall, FinishDelivery, Failed, votes, TypeOK,
      SubmittedIsDelivered, MailAgrees, ReceiptHeld
  <2>6. SingleSender'
    BY <1>15 DEF LateCall, SingleSender, Holds
  <2> QED
    BY <2>1, <2>2, <2>3, <2>4, <2>5, <2>6
<1>16. CASE UNCHANGED vars
  BY <1>16 DEF vars, TypeOK, SingleSender, ClaimGuarded, ReceiptHeld,
    MailAgrees, SubmittedIsDelivered, Holds, Fails
<1> QED
  BY <1>1, <1>2, <1>3, <1>4, <1>5, <1>6, <1>7, <1>8, <1>9, <1>10, <1>11,
    <1>12, <1>13, <1>14, <1>15, <1>16 DEF Next

LEMMA Invariance == Spec => []IInv
<1> QED
  BY Established, Preserved, PTL DEF Spec

-----------------------------------------------------------------------------
\* The rows, the open requests and the outstanding calls keep their types
\* (migration 0010, run-operation.ts); only required departments vote.
THEOREM EventsTyped == Spec => []TypeOK
<1>1. IInv => TypeOK
  BY DEF IInv
<1> QED
  BY <1>1, Invariance, PTL

\* Two officers never hold the claim of the mail at once.
THEOREM OneSender == Spec => []SingleSender
<1>1. IInv => SingleSender
  BY DEF IInv
<1> QED
  BY <1>1, Invariance, PTL

\* A package is submitted or approved only after Gmail's receipt or a
\* confirmed manual delivery.
THEOREM SubmissionEvidenced == Spec => []SubmittedIsDelivered
<1>1. IInv => SubmittedIsDelivered
  BY DEF IInv
<1> QED
  BY <1>1, Invariance, PTL

\* Nothing leaves for SADO before every required department has approved.
THEOREM MailAfterUnanimity == Spec => []UnanimousBeforeMail
<1>1. IInv => UnanimousBeforeMail
  BY DEF IInv, MailAgrees, UnanimousBeforeMail, NoMail, Delivered
<1> QED
  BY <1>1, Invariance, PTL

\* A recorded delivery is never taken back nor changed into the other kind.
\* Only a finish can write over one, and it carries the mode of the row.
THEOREM DeliveryPermanent == Spec => DeliveredStaysDelivered
<1>1. IInv /\ [Next]_vars =>
        [mail.delivery \in Delivered => mail'.delivery = mail.delivery]_vars
  <2> SUFFICES ASSUME IInv, Next, mail.delivery \in Delivered
               PROVE mail'.delivery = mail.delivery
    OBVIOUS
  <2>1. ASSUME NEW mode, FinishDelivery(mode)
        PROVE mail'.delivery = mail.delivery
    BY <2>1 DEF FinishDelivery, IInv, TypeOK, MailAgrees, Delivered
  <2>2. mail # NoMail /\ ~Claimable /\ Failed = mail
    BY DEF NoMail, Claimable, Failed, Delivered
  <2>3. ASSUME NEW o \in Officers, ApproveDepartment(o)
        PROVE mail'.delivery = mail.delivery
    BY <2>2, <2>3 DEF ApproveDepartment, Drafted
  <2>4. ASSUME NEW o \in Officers, Finish(o) \/ Fail(o)
        PROVE mail'.delivery = mail.delivery
    BY <2>1, <2>2, <2>4 DEF Finish, Fail
  <2>5. ASSUME NEW c \in Calls, LateCall(c)
        PROVE mail'.delivery = mail.delivery
    BY <2>1, <2>2, <2>5 DEF LateCall
  <2> QED
    BY <2>2, <2>3, <2>4, <2>5 DEF Next, RecordSadoApproval,
      ConfirmManualDelivery, ReadDraft, Claim, ClaimRefused, Export, Send,
      NoReceipt, FinishUnanswered, FailUnanswered, Crash, votes
<1> QED
  BY <1>1, Invariance, PTL DEF Spec, DeliveredStaysDelivered
=============================================================================
