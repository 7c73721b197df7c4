---------------------------- MODULE FinalSubmit ----------------------------
(***************************************************************************)
(* Who runs the transactions of SubmissionHistory: application workers     *)
(* that take the final, irreversible click (indeed_smart_apply_runner.py), *)
(* recorders that report a submission seen elsewhere (the control center's *)
(* manual confirmation, the post-apply reconciliation, the Applied-page    *)
(* sync), the event watcher and a confirmation provider.  They are         *)
(* processes of their own on one database; each may be killed between any  *)
(* two of its transactions.                                                *)
(***************************************************************************)
EXTENDS SubmissionHistory

CONSTANTS
    Workers,    \* concurrent final-submit flows
    Recorders,  \* concurrent calls of record_existing_submission
    Horizon,    \* bound: the last day of the model
    MaxStall,   \* days that may pass between a reservation and its click
    MaxReportLag \* days between a reported date and its transaction

ASSUME SubmitAssumption ==
    /\ Horizon \in Nat /\ MaxStall \in Nat /\ MaxReportLag \in Nat

VARIABLES
    worker,     \* worker[w]: program counter and reservation_id
    recorder,   \* recorder[r]: program counter, arguments and matched row
    trace       \* history variable: what happened to the row's attempt

vars == <<now, app, posting, worker, recorder, trace>>

Idle == [pc |-> "idle", row |-> 0]
RecorderIdle == [pc |-> "idle", id |-> [title |-> NoTitle, job |-> NoJob],
                 at |-> 0, row |-> 0]

\* Rows no worker reserved have under = NoTitle.
NoTrace == [under |-> NoTitle, reserved |-> 0, clicked |-> {}, renamed |-> FALSE]

Init ==
    /\ now = 0
    /\ HistoryInit
    /\ worker = [w \in Workers |-> Idle]
    /\ recorder = [r \in Recorders |-> RecorderIdle]
    /\ trace = [a \in Apps |-> NoTrace]

-----------------------------------------------------------------------------
\* A worker at the final submit, after the pre-submit gate let it through.

Reserve(w, id) ==
    /\ worker[w].pc = "idle"
    /\ \E p \in Postings, a \in Apps :
        /\ IsPostingOf(p, id)
        /\ MayReserve(p, id, now)
        /\ Insert(a, p, id, now)
        /\ posting' = PostingSeen(p, id)
        /\ worker' = [worker EXCEPT ![w] = [pc |-> "reserved", row |-> a]]
        /\ trace' = [trace EXCEPT ![a] =
                       [NoTrace EXCEPT !.under = id.title, !.reserved = now]]
    /\ UNCHANGED <<now, recorder>>

\* SKIPPED_DUPLICATE: the posting is refreshed, nothing is reserved.
ReserveRefused(w, id) ==
    /\ worker[w].pc = "idle"
    /\ \E p \in Postings :
        /\ IsPostingOf(p, id)
        /\ ~MayReserve(p, id, now)
        /\ posting' = PostingSeen(p, id)
    /\ UNCHANGED <<now, app, worker, recorder, trace>>

\* evaluate_final_submit_gate, run again before the click, finds a blocker.
GateBlocked(w) ==
    /\ worker[w].pc = "reserved"
    /\ MarkFailed(worker[w].row)
    /\ worker' = [worker EXCEPT ![w] = Idle]
    /\ UNCHANGED <<now, posting, recorder, trace>>

\* The click takes effect at the provider.
Click(w) ==
    /\ worker[w].pc = "reserved"
    /\ trace' = [trace EXCEPT ![worker[w].row].clicked = {now}]
    /\ worker' = [worker EXCEPT ![w].pc = "clicked"]
    /\ UNCHANGED <<now, app, posting, recorder>>

\* Exception, no transition or no exact confirmation: the outcome is unknown,
\* whether the click took effect or not.
OutcomeUnknown(w) ==
    /\ worker[w].pc \in {"reserved", "clicked"}
    /\ MarkSubmissionUnknown(worker[w].row)
    /\ worker' = [worker EXCEPT ![w] = Idle]
    /\ UNCHANGED <<now, posting, recorder, trace>>

\* The post-apply page shows the exact confirmation.
PostApply(w) ==
    /\ worker[w].pc = "clicked"
    /\ MarkSubmitted(worker[w].row, now)
    /\ worker' = [worker EXCEPT ![w] = Idle]
    /\ UNCHANGED <<now, posting, recorder, trace>>

WorkerCrash(w) ==
    /\ worker[w].pc # "idle"
    /\ worker' = [worker EXCEPT ![w] = Idle]
    /\ UNCHANGED <<now, app, posting, recorder, trace>>

-----------------------------------------------------------------------------
\* record_existing_submission: up to three transactions and a read.

\* _reconcile_title_variant renames a row and the call returns it ...
RecordRenames(r, id, at) ==
    /\ recorder[r].pc = "idle"
    /\ \E a \in Apps :
        /\ Renames(a, id, at)
        /\ Rename(a, id)
        /\ trace' = [trace EXCEPT ![a].renamed = TRUE]
    /\ UNCHANGED <<now, worker, recorder>>

\* ... or finds nothing, and the call goes on to reserve.
RecordStart(r, id, at) ==
    /\ recorder[r].pc = "idle"
    /\ NothingToRename(id, at)
    /\ recorder' = [recorder EXCEPT ![r] =
                      [pc |-> "reserve", id |-> id, at |-> at, row |-> 0]]
    /\ UNCHANGED <<now, app, posting, worker, trace>>

\* reserve_submission with now = applied_at.
RecordReserves(r) ==
    LET id == recorder[r].id
        at == recorder[r].at
    IN /\ recorder[r].pc = "reserve"
       /\ \E p \in Postings, a \in Apps :
            /\ IsPostingOf(p, id)
            /\ posting' = PostingSeen(p, id)
            /\ \/ /\ MayReserve(p, id, at)
                  /\ Insert(a, p, id, at)
                  /\ recorder' = [recorder EXCEPT ![r] =
                                    [@ EXCEPT !.pc = "mark", !.row = a]]
               \/ /\ ~MayReserve(p, id, at)
                  /\ RefusedFor(a, p, id, at)
                  /\ recorder' = [recorder EXCEPT ![r] =
                                    [@ EXCEPT !.pc = "read", !.row = a]]
                  /\ UNCHANGED app
       /\ UNCHANGED <<now, worker, trace>>

\* get: an entry that has a confirmation source is returned as it is, another
\* is marked submitted on the day it has or on the day reported.
RecordReads(r) ==
    LET row == app[recorder[r].row]
    IN /\ recorder[r].pc = "read"
       /\ \/ /\ row.sourced
             /\ recorder' = [recorder EXCEPT ![r] = RecorderIdle]
          \/ /\ ~row.sourced
             /\ \E at \in IF row.applied = {} THEN {recorder[r].at}
                          ELSE row.applied :
                  recorder' = [recorder EXCEPT ![r] =
                                 [@ EXCEPT !.pc = "mark", !.at = at]]
       /\ UNCHANGED <<now, app, posting, worker, trace>>

RecordMarks(r) ==
    /\ recorder[r].pc = "mark"
    /\ MarkSubmitted(recorder[r].row, recorder[r].at)
    /\ recorder' = [recorder EXCEPT ![r] = RecorderIdle]
    /\ UNCHANGED <<now, posting, worker, trace>>

RecorderCrash(r) ==
    /\ recorder[r].pc # "idle"
    /\ recorder' = [recorder EXCEPT ![r] = RecorderIdle]
    /\ UNCHANGED <<now, app, posting, worker, trace>>

-----------------------------------------------------------------------------
\* The event watcher sees a post-apply page.
WatcherConfirms(id) ==
    /\ \E p \in Postings, a \in Apps : RecordConfirmed(a, p, id)
    /\ UNCHANGED <<now, worker, recorder, trace>>

\* confirm_with_provider: evidence from after the row was last updated.
ProviderConfirms(a, at) ==
    /\ Used(a)
    /\ app[a].updated <= at /\ at <= now
    /\ MarkSubmitted(a, at)
    /\ UNCHANGED <<now, posting, worker, recorder, trace>>

\* A day passes; the waits between reservation and click, and between the
\* reported date and the transaction that uses it, are bounded.
Tick ==
    /\ now < Horizon
    /\ \A w \in Workers :
         worker[w].pc = "reserved" =>
             now - trace[worker[w].row].reserved < MaxStall
    /\ \A r \in Recorders :
         recorder[r].pc = "reserve" => now - recorder[r].at < MaxReportLag
    /\ now' = now + 1
    /\ UNCHANGED <<app, posting, worker, recorder, trace>>

Next ==
    \/ \E w \in Workers :
         \/ \E id \in Identities : Reserve(w, id) \/ ReserveRefused(w, id)
         \/ GateBlocked(w)
         \/ Click(w)
         \/ OutcomeUnknown(w)
         \/ PostApply(w)
         \/ WorkerCrash(w)
    \/ \E r \in Recorders :
         \/ \E id \in Identities, at \in (now - MaxReportLag)..now :
              RecordRenames(r, id, at) \/ RecordStart(r, id, at)
         \/ RecordReserves(r)
         \/ RecordReads(r)
         \/ RecordMarks(r)
         \/ RecorderCrash(r)
    \/ \E id \in Identities : WatcherConfirms(id)
    \/ \E a \in Apps, at \in 0..Horizon : ProviderConfirms(a, at)
    \/ Tick

Spec == Init /\ [][Next]_vars

-----------------------------------------------------------------------------
\* Properties

TypeOK ==
    /\ now \in 0..Horizon
    /\ app \in [Apps ->
         [state : AppState \cup {"absent"}, title : Titles \cup {NoTitle},
          posting : Postings \cup {0}, applied : SUBSET Int, updated : Int,
          sourced : BOOLEAN]]
    /\ posting \in [Postings -> [title : Titles \cup {NoTitle},
                                 job : Jobs \cup {NoJob}]]
    /\ worker \in [Workers -> [pc : {"idle", "reserved", "clicked"},
                               row : Apps \cup {0}]]
    /\ recorder \in [Recorders ->
         [pc : {"idle", "reserve", "read", "mark"},
          id : [title : Titles \cup {NoTitle}, job : Jobs \cup {NoJob}],
          at : Int, row : Apps \cup {0}]]
    /\ trace \in [Apps ->
         [under : Titles \cup {NoTitle}, reserved : Int,
          clicked : SUBSET Int, renamed : BOOLEAN]]

\* Two final clicks for one title are a whole duplicate window apart, less the
\* time a worker may stall before its click and the lag of a reported date,
\* whatever workers, recorders, watcher, crashes and retries interleave
\* (README.md:76-78).  Rows renamed by title reconciliation are excepted.
ClicksAreSpaced ==
    \A a, b \in Apps :
        /\ a # b
        /\ trace[a].under = trace[b].under
        /\ ~trace[a].renamed /\ ~trace[b].renamed
        => \A t \in trace[a].clicked, u \in trace[b].clicked :
             \/ t - u > Window - MaxStall - MaxReportLag
             \/ u - t > Window - MaxStall - MaxReportLag

\* An attempt whose click took effect is never recorded as one that did not
\* happen: FAILED would make the role eligible at once.
ClickNeverForgotten ==
    \A a \in Apps :
        trace[a].clicked # {} =>
            app[a].state \in {"submitting", "submission_unknown", "submitted"}

\* "A confirmed match from the previous 30 days is skipped" (README.md:76-77):
\* no worker reserves a role that has a confirmed application on record under
\* that title within the window, title reconciliation apart.
ConfirmedMatchIsSkipped ==
    [][\A w \in Workers, a \in Apps :
         /\ worker[w].pc = "idle" /\ worker'[w].pc = "reserved"
         /\ trace[a].under = trace'[worker'[w].row].under
         /\ ~trace[a].renamed
         => \A t \in app[a].applied : t < now - Window]_vars
=============================================================================
