------------------------- MODULE FinalSubmitProofs -------------------------
(***************************************************************************)
(* Proofs about FinalSubmit, for any number of workers, recorders, titles, *)
(* jobs, rows and days: no two clicks for one title within the duplicate   *)
(* window, and no click that is recorded as one that did not happen.       *)
(***************************************************************************)
EXTENDS FinalSubmit, TLAPS

-----------------------------------------------------------------------------
\* Types

AppRow == [state : AppState \cup {"absent"}, title : Titles \cup {NoTitle},
           posting : Postings \cup {0}, applied : SUBSET Int, updated : Int,
           sourced : BOOLEAN]
PostingRow == [title : Titles \cup {NoTitle}, job : Jobs \cup {NoJob}]
WorkerRow == [pc : {"idle", "reserved", "clicked"}, row : Apps \cup {0}]
RecorderRow == [pc : {"idle", "reserve", "read", "mark"},
                id : PostingRow, at : Int, row : Apps \cup {0}]
TraceRow == [under : Titles \cup {NoTitle}, reserved : Int,
             clicked : SUBSET Int, renamed : BOOLEAN]

LEMMA TypeParts ==
    TypeOK <=> /\ now \in 0..Horizon
               /\ app \in [Apps -> AppRow]
               /\ posting \in [Postings -> PostingRow]
               /\ worker \in [Workers -> WorkerRow]
               /\ recorder \in [Recorders -> RecorderRow]
               /\ trace \in [Apps -> TraceRow]
  BY DEF TypeOK, AppRow, PostingRow, WorkerRow, RecorderRow, TraceRow

LEMMA TypePartsNext ==
    ASSUME now' \in 0..Horizon, app' \in [Apps -> AppRow],
           posting' \in [Postings -> PostingRow],
           worker' \in [Workers -> WorkerRow],
           recorder' \in [Recorders -> RecorderRow],
           trace' \in [Apps -> TraceRow]
    PROVE  TypeOK'
  BY DEF TypeOK, AppRow, PostingRow, WorkerRow, RecorderRow, TraceRow

LEMMA MarkType ==
    ASSUME app \in [Apps -> AppRow], now \in Int,
           NEW a, NEW state \in AppState, NEW applied \in SUBSET Int,
           NEW sourced \in BOOLEAN, Mark(a, state, applied, sourced)
    PROVE  app' \in [Apps -> AppRow]
<1>1. CASE a \in Apps
  <2> DEFINE row == [app[a] EXCEPT !.state = state,
                        !.applied = IF applied = {} THEN app[a].applied
                                    ELSE applied,
                        !.updated = now, !.sourced = sourced]
  <2>1. row \in AppRow
    BY <1>1 DEF AppRow
  <2>2. app' = [app EXCEPT ![a] = row]
    BY DEF Mark
  <2> HIDE DEF row
  <2>. QED  BY <2>1, <2>2
<1>2. CASE a \notin Apps
  BY <1>2 DEF Mark
<1>. QED  BY <1>1, <1>2

LEMMA InsertType ==
    ASSUME app \in [Apps -> AppRow], NEW a \in Apps, NEW p \in Postings,
           NEW id \in PostingRow, NEW at \in Int, Insert(a, p, id, at)
    PROVE  app' \in [Apps -> AppRow]
  BY DEF Insert, NoApp, AppRow, AppState, Unresolved, PostingRow

LEMMA PostingType ==
    ASSUME posting \in [Postings -> PostingRow], NEW p \in Postings,
           NEW id \in PostingRow
    PROVE  PostingSeen(p, id) \in [Postings -> PostingRow]
  BY DEF PostingSeen, PostingRow

LEMMA InitType == Init => TypeOK
  BY SubmitAssumption, HistoryAssumption
     DEF Init, HistoryInit, TypeOK, NoApp, NoPosting, Idle, RecorderIdle,
         NoTrace

\* A recorder that reads or marks a row has one.
RowsFound ==
    \A r \in Recorders :
        recorder[r].pc \in {"read", "mark"} => recorder[r].row \in Apps

LEMMA TypeStep == TypeOK /\ RowsFound /\ [Next]_vars => TypeOK'
<1> SUFFICES ASSUME TypeOK, RowsFound, [Next]_vars PROVE TypeOK'
  OBVIOUS
<1>t. /\ now \in 0..Horizon /\ now \in Int /\ Horizon \in Int
      /\ app \in [Apps -> AppRow]
      /\ posting \in [Postings -> PostingRow]
      /\ worker \in [Workers -> WorkerRow]
      /\ recorder \in [Recorders -> RecorderRow]
      /\ trace \in [Apps -> TraceRow]
  BY TypeParts, SubmitAssumption
<1>i. Idle \in WorkerRow /\ RecorderIdle \in RecorderRow
  BY DEF Idle, RecorderIdle, WorkerRow, RecorderRow, PostingRow
<1>d. Identities \subseteq PostingRow
  BY DEF Identities, PostingRow
<1>s. \A st \in {"submitted", "submission_unknown", "failed"} : st \in AppState
  BY DEF AppState, Unresolved
<1>1. ASSUME NEW w \in Workers, NEW id \in Identities, Reserve(w, id)
      PROVE  TypeOK'
  <2>1. PICK p \in Postings, a \in Apps :
          /\ Insert(a, p, id, now)
          /\ posting' = PostingSeen(p, id)
          /\ worker' = [worker EXCEPT ![w] = [pc |-> "reserved", row |-> a]]
          /\ trace' = [trace EXCEPT ![a] =
                         [NoTrace EXCEPT !.under = id.title, !.reserved = now]]
    BY <1>1 DEF Reserve
  <2>2. app' \in [Apps -> AppRow]
    BY <2>1, <1>t, <1>d, InsertType
  <2>3. posting' \in [Postings -> PostingRow]
    BY <2>1, <1>t, <1>d, PostingType DEF PostingRow
  <2>4. worker' \in [Workers -> WorkerRow]
    BY <2>1, <1>t DEF WorkerRow
  <2>5. [NoTrace EXCEPT !.under = id.title, !.reserved = now] \in TraceRow
    BY <1>t DEF NoTrace, TraceRow, Identities
  <2>6. trace' \in [Apps -> TraceRow]
    BY <2>1, <2>5, <1>t
  <2>. QED  BY <1>1, <1>t, <2>2, <2>3, <2>4, <2>6, TypePartsNext DEF Reserve
<1>2. ASSUME NEW w \in Workers, NEW id \in Identities, ReserveRefused(w, id)
      PROVE  TypeOK'
  <2>1. posting' \in [Postings -> PostingRow]
    BY <1>2, <1>t, <1>d, PostingType DEF ReserveRefused, PostingRow
  <2>. QED  BY <1>2, <1>t, <2>1, TypePartsNext DEF ReserveRefused
<1>3. ASSUME NEW w \in Workers, GateBlocked(w)
      PROVE  TypeOK'
  <2>1. app' \in [Apps -> AppRow]
    BY <1>3, <1>t, <1>s, MarkType DEF GateBlocked, MarkFailed
  <2>2. worker' \in [Workers -> WorkerRow]
    BY <1>3, <1>t, <1>i DEF GateBlocked
  <2>. QED  BY <1>3, <1>t, <2>1, <2>2, TypePartsNext DEF GateBlocked
<1>4. ASSUME NEW w \in Workers, Click(w)
      PROVE  TypeOK'
  <2>1. worker' \in [Workers -> WorkerRow]
    BY <1>4, <1>t DEF Click, WorkerRow
  <2>2. trace' \in [Apps -> TraceRow]
    BY <1>4, <1>t DEF Click, TraceRow
  <2>. QED  BY <1>4, <1>t, <2>1, <2>2, TypePartsNext DEF Click
<1>5. ASSUME NEW w \in Workers, OutcomeUnknown(w)
      PROVE  TypeOK'
  <2>1. app' \in [Apps -> AppRow]
    BY <1>5, <1>t, <1>s, MarkType DEF OutcomeUnknown, MarkSubmissionUnknown
  <2>2. worker' \in [Workers -> WorkerRow]
    BY <1>5, <1>t, <1>i DEF OutcomeUnknown
  <2>. QED  BY <1>5, <1>t, <2>1, <2>2, TypePartsNext DEF OutcomeUnknown
<1>6. ASSUME NEW w \in Workers, PostApply(w)
      PROVE  TypeOK'
  <2>1. app' \in [Apps -> AppRow]
    BY <1>6, <1>t, <1>s, MarkType DEF PostApply, MarkSubmitted
  <2>2. worker' \in [Workers -> WorkerRow]
    BY <1>6, <1>t, <1>i DEF PostApply
  <2>. QED  BY <1>6, <1>t, <2>1, <2>2, TypePartsNext DEF PostApply
<1>7. ASSUME NEW w \in Workers, WorkerCrash(w)
      PROVE  TypeOK'
  <2>1. worker' \in [Workers -> WorkerRow]
    BY <1>7, <1>t, <1>i DEF WorkerCrash
  <2>. QED  BY <1>7, <1>t, <2>1, TypePartsNext DEF WorkerCrash
<1>8. ASSUME NEW r \in Recorders, NEW id \in Identities, NEW at \in Int,
             RecordRenames(r, id, at)
      PROVE  TypeOK'
  <2>1. PICK a \in Apps : /\ Rename(a, id)
                          /\ trace' = [trace EXCEPT ![a].renamed = TRUE]
    BY <1>8 DEF RecordRenames
  <2>2. PICK p \in Postings :
          /\ posting' = PostingSeen(p, id)
          /\ app' = [app EXCEPT ![a] =
                       [@ EXCEPT !.title = id.title, !.posting = p]]
    BY <2>1 DEF Rename
  <2>3. app' \in [Apps -> AppRow]
    <3>1. app[a] \in AppRow /\ id.title \in Titles
      BY <1>t DEF Identities
    <3>2. [app[a] EXCEPT !.title = id.title, !.posting = p] \in AppRow
      BY <3>1 DEF AppRow
    <3>. QED  BY <3>2, <2>2, <1>t
  <2>4. posting' \in [Postings -> PostingRow]
    BY <2>2, <1>t, <1>d, PostingType DEF PostingRow
  <2>5. trace' \in [Apps -> TraceRow]
    BY <2>1, <1>t DEF TraceRow
  <2>. QED  BY <1>8, <1>t, <2>3, <2>4, <2>5, TypePartsNext DEF RecordRenames
<1>9. ASSUME NEW r \in Recorders, NEW id \in Identities, NEW at \in Int,
             RecordStart(r, id, at)
      PROVE  TypeOK'
  <2>1. [pc |-> "reserve", id |-> id, at |-> at, row |-> 0] \in RecorderRow
    BY <1>d DEF RecorderRow
  <2>2. recorder' \in [Recorders -> RecorderRow]
    BY <1>9, <1>t, <2>1 DEF RecordStart
  <2>. QED  BY <1>9, <1>t, <2>2, TypePartsNext DEF RecordStart
<1>10. ASSUME NEW r \in Recorders, RecordReserves(r)
       PROVE  TypeOK'
  <2> DEFINE id == recorder[r].id
             at == recorder[r].at
  <2>1. id \in PostingRow /\ at \in Int
    BY <1>t DEF RecorderRow
  <2>2. PICK p \in Postings, a \in Apps :
          /\ posting' = PostingSeen(p, id)
          /\ \/ Insert(a, p, id, at) /\ recorder' = [recorder EXCEPT ![r] =
                  [@ EXCEPT !.pc = "mark", !.row = a]]
             \/ app' = app /\ recorder' = [recorder EXCEPT ![r] =
                  [@ EXCEPT !.pc = "read", !.row = a]]
    BY <1>10 DEF RecordReserves
  <2>3. posting' \in [Postings -> PostingRow]
    BY <2>1, <2>2, <1>t, PostingType DEF PostingRow
  <2>4. app' \in [Apps -> AppRow]
    BY <2>1, <2>2, <1>t, InsertType
  <2>5. \A pc \in {"mark", "read"} :
          [recorder[r] EXCEPT !.pc = pc, !.row = a] \in RecorderRow
    BY <1>t DEF RecorderRow
  <2>6. recorder' \in [Recorders -> RecorderRow]
    BY <2>2, <2>5, <1>t
  <2>. QED  BY <1>10, <1>t, <2>3, <2>4, <2>6, TypePartsNext DEF RecordReserves
<1>11. ASSUME NEW r \in Recorders, RecordReads(r)
       PROVE  TypeOK'
  <2>1. recorder' \in [Recorders -> RecorderRow]
    <3>1. ASSUME NEW at \in Int
          PROVE  [recorder[r] EXCEPT !.pc = "mark", !.at = at] \in RecorderRow
      BY <1>t DEF RecorderRow
    <3>2. recorder[r].at \in Int
      BY <1>t DEF RecorderRow
    <3>3. app[recorder[r].row].applied \subseteq Int
      BY <1>11, <1>t DEF RowsFound, RecordReads, AppRow
    <3>4. \/ recorder' = [recorder EXCEPT ![r] = RecorderIdle]
          \/ \E at \in Int : recorder' = [recorder EXCEPT ![r] =
                                [@ EXCEPT !.pc = "mark", !.at = at]]
      BY <1>11, <3>2, <3>3 DEF RecordReads
    <3>. QED  BY <3>4, <3>1, <1>t, <1>i
  <2>. QED  BY <1>11, <1>t, <2>1, TypePartsNext DEF RecordReads
<1>12. ASSUME NEW r \in Recorders, RecordMarks(r)
       PROVE  TypeOK'
  <2>1. {recorder[r].at} \in SUBSET Int
    BY <1>t DEF RecorderRow
  <2>2. app' \in [Apps -> AppRow]
    BY <1>12, <1>t, <1>s, <2>1, MarkType DEF RecordMarks, MarkSubmitted
  <2>3. recorder' \in [Recorders -> RecorderRow]
    BY <1>12, <1>t, <1>i DEF RecordMarks
  <2>. QED  BY <1>12, <1>t, <2>2, <2>3, TypePartsNext DEF RecordMarks
<1>13. ASSUME NEW r \in Recorders, RecorderCrash(r)
       PROVE  TypeOK'
  <2>1. recorder' \in [Recorders -> RecorderRow]
    BY <1>13, <1>t, <1>i DEF RecorderCrash
  <2>. QED  BY <1>13, <1>t, <2>1, TypePartsNext DEF RecorderCrash
<1>14. ASSUME NEW id \in Identities, WatcherConfirms(id)
       PROVE  TypeOK'
  <2>1. PICK p \in Postings, a \in Apps : RecordConfirmed(a, p, id)
    BY <1>14 DEF WatcherConfirms
  <2>2. posting' \in [Postings -> PostingRow]
    BY <2>1, <1>t, <1>d, PostingType DEF RecordConfirmed, PostingRow
  <2>3. [app[a] EXCEPT !.state = "submitted", !.applied = {now},
                       !.updated = now, !.sourced = TRUE, !.posting = p]
          \in AppRow
    BY <1>t, <1>s DEF AppRow
  <2>4. [state |-> "submitted", title |-> id.title, posting |-> p,
         applied |-> {now}, updated |-> now, sourced |-> TRUE] \in AppRow
    BY <1>t, <1>s DEF AppRow, Identities
  <2>5. app' \in [Apps -> AppRow]
    BY <2>1, <2>3, <2>4, <1>t DEF RecordConfirmed
  <2>. QED  BY <1>14, <1>t, <2>2, <2>5, TypePartsNext DEF WatcherConfirms
<1>15. ASSUME NEW a \in Apps, NEW at \in 0..Horizon, ProviderConfirms(a, at)
       PROVE  TypeOK'
  <2>1. {at} \in SUBSET Int
    BY <1>t
  <2>2. app' \in [Apps -> AppRow]
    BY <1>15, <1>t, <1>s, <2>1, MarkType DEF ProviderConfirms, MarkSubmitted
  <2>. QED  BY <1>15, <1>t, <2>2, TypePartsNext DEF ProviderConfirms
<1>16. ASSUME Tick
       PROVE  TypeOK'
  <2>1. now' \in 0..Horizon
    BY <1>16, <1>t DEF Tick
  <2>. QED  BY <1>16, <1>t, <2>1, TypePartsNext DEF Tick
<1>17. ASSUME UNCHANGED vars
       PROVE  TypeOK'
  BY <1>17, <1>t, TypePartsNext DEF vars
<1>18. \A at \in (now - MaxReportLag)..now : at \in Int
  BY <1>t, SubmitAssumption
<1>. QED
  BY <1>1, <1>2, <1>3, <1>4, <1>5, <1>6, <1>7, <1>8, <1>9, <1>10, <1>11,
     <1>12, <1>13, <1>14, <1>15, <1>16, <1>17, <1>18 DEF Next

-----------------------------------------------------------------------------
\* The inductive invariant

Live == Unresolved \cup {"submitted"}

\* The row's attempt has been clicked, or its worker may still click.
Pending(a) ==
    \/ trace[a].clicked # {}
    \/ \E w \in Workers : worker[w].pc = "reserved" /\ worker[w].row = a

\* What the row shows of the attempt a worker reserved it for.  A pending
\* attempt keeps the row from FAILED; its dates are those of the attempt, less
\* the lag of a report; its title is the one it was reserved under.
RowAgrees(a) ==
    /\ ~Used(a) => trace[a] = NoTrace
    /\ app[a].state = "submitted" => app[a].applied # {}
    /\ trace[a].under # NoTitle =>
         /\ trace[a].reserved <= now
         /\ trace[a].reserved <= app[a].updated
         /\ \A t \in app[a].applied : trace[a].reserved - MaxReportLag <= t
         /\ ~trace[a].renamed => app[a].title = trace[a].under
    /\ \A t \in trace[a].clicked :
         /\ trace[a].under # NoTitle
         /\ trace[a].reserved <= t /\ t <= trace[a].reserved + MaxStall
    /\ Pending(a) => app[a].state \in Live

\* A worker holds a row it reserved, and before its click it is in time.
WorkerAgrees(w) ==
    worker[w].pc # "idle" =>
        /\ worker[w].row \in Apps
        /\ Used(worker[w].row)
        /\ trace[worker[w].row].under # NoTitle
        /\ worker[w].pc = "reserved" =>
             /\ trace[worker[w].row].clicked = {}
             /\ now <= trace[worker[w].row].reserved + MaxStall

OneOwner ==
    \A v, w \in Workers :
        v # w /\ worker[v].pc # "idle" /\ worker[w].pc # "idle"
            => worker[v].row # worker[w].row

\* The date a recorder is about to write is no earlier than the reservation of
\* the row it writes to, less the lag.
RecorderAgrees(r) ==
    /\ recorder[r].pc = "reserve" => now - MaxReportLag <= recorder[r].at
    /\ recorder[r].pc \in {"read", "mark"} =>
         /\ recorder[r].row \in Apps
         /\ Used(recorder[r].row)
         /\ trace[recorder[r].row].under # NoTitle =>
              trace[recorder[r].row].reserved - MaxReportLag <= recorder[r].at

Apart(s, t, d) == t - s > d \/ s - t > d

\* Pending attempts under one title were reserved a window apart, less the lag.
ReservationsSpaced ==
    \A a, b \in Apps :
        /\ a # b /\ Pending(a) /\ Pending(b)
        /\ trace[a].under = trace[b].under
        /\ ~trace[a].renamed /\ ~trace[b].renamed
        => Apart(trace[a].reserved, trace[b].reserved, Window - MaxReportLag)

IInv ==
    /\ TypeOK
    /\ \A a \in Apps : RowAgrees(a)
    /\ \A w \in Workers : WorkerAgrees(w)
    /\ OneOwner
    /\ \A r \in Recorders : RecorderAgrees(r)
    /\ ReservationsSpaced

LEMMA InitInv == Init => IInv
<1> SUFFICES ASSUME Init PROVE IInv
  OBVIOUS
<1>1. \A a \in Apps : trace[a] = NoTrace /\ ~Used(a) /\ app[a] = NoApp
  BY DEF Init, HistoryInit, Used, NoApp
<1>2. \A w \in Workers : worker[w].pc = "idle"
  BY DEF Init, Idle
<1>3. \A a \in Apps : ~Pending(a)
  BY <1>1, <1>2 DEF Pending, NoTrace
<1>4. ASSUME NEW a \in Apps PROVE RowAgrees(a)
  <2>1. app[a].state = "absent"
    BY <1>1 DEF NoApp
  <2>2. trace[a] = NoTrace
    BY <1>1
  <2>3. trace[a].under = NoTitle /\ trace[a].clicked = {}
    BY <2>2 DEF NoTrace
  <2>. QED  BY <2>1, <2>2, <2>3, <1>3 DEF RowAgrees
<1>5. \A w \in Workers : WorkerAgrees(w)
  BY <1>2 DEF WorkerAgrees
<1>6. OneOwner
  BY <1>2 DEF OneOwner
<1>7. \A r \in Recorders : RecorderAgrees(r)
  BY DEF Init, RecorderIdle, RecorderAgrees
<1>8. ReservationsSpaced
  BY <1>3 DEF ReservationsSpaced
<1>. QED  BY InitType, <1>4, <1>5, <1>6, <1>7, <1>8 DEF IInv

-----------------------------------------------------------------------------
\* What a step keeps

\* Most steps reserve nothing, click nothing and take no time.
Calm ==
    /\ now' = now /\ trace' = trace
    /\ \A w \in Workers : worker'[w] \in {worker[w], Idle}
    /\ \A a \in Apps : Used(a) => Used(a)'

LEMMA CalmPending ==
    ASSUME Calm, NEW a \in Apps, Pending(a)'
    PROVE  Pending(a)
  BY DEF Calm, Pending, Idle

LEMMA CalmWorkers ==
    ASSUME IInv, Calm
    PROVE  /\ \A w \in Workers : WorkerAgrees(w)'
           /\ OneOwner'
           /\ ReservationsSpaced'
<1>1. ASSUME NEW w \in Workers PROVE WorkerAgrees(w)'
  BY DEF IInv, Calm, WorkerAgrees, Idle
<1>2. OneOwner'
  BY DEF IInv, Calm, OneOwner, Idle
<1>3. ReservationsSpaced'
  BY CalmPending DEF IInv, Calm, ReservationsSpaced
<1>. QED  BY <1>1, <1>2, <1>3

LEMMA CalmRecorder ==
    ASSUME IInv, Calm, NEW r \in Recorders,
           recorder'[r] \in {recorder[r], RecorderIdle}
    PROVE  RecorderAgrees(r)'
  BY DEF IInv, Calm, RecorderAgrees, RecorderIdle

LEMMA CalmRow ==
    ASSUME IInv, Calm, NEW a \in Apps, app'[a] = app[a]
    PROVE  RowAgrees(a)'
<1>1. RowAgrees(a)
  BY DEF IInv
<1>2. Pending(a)' => Pending(a)
  BY CalmPending
<1>. QED  BY <1>1, <1>2 DEF Calm, RowAgrees, Used

\* A row that was not in use belongs to no attempt.
LEMMA FreshRow ==
    ASSUME IInv, NEW a \in Apps, ~Used(a)
    PROVE  trace[a] = NoTrace /\ ~Pending(a)
<1>1. trace[a] = NoTrace
  BY DEF IInv, RowAgrees
<1>2. ASSUME NEW w \in Workers, worker[w].pc = "reserved"
      PROVE  worker[w].row # a
  BY <1>2 DEF IInv, WorkerAgrees, Used
<1>. QED  BY <1>1, <1>2 DEF Pending, NoTrace

LEMMA MarkUsed ==
    ASSUME TypeOK, NEW a \in Apps, NEW state \in AppState, NEW applied,
           NEW sourced, Mark(a, state, applied, sourced)
    PROVE  /\ \A b \in Apps : Used(b) => Used(b)'
           /\ \A b \in Apps \ {a} : app'[b] = app[b]
           /\ app'[a].state = state
           /\ app'[a].title = app[a].title
           /\ app'[a].updated = now
           /\ app'[a].applied = IF applied = {} THEN app[a].applied ELSE applied
           /\ Used(a) /\ Used(a)'
<1>1. app \in [Apps -> AppRow]
  BY TypeParts
<1>2. state # "absent"
  BY DEF AppState, Unresolved
<1>. QED  BY <1>1, <1>2 DEF Mark, Used, AppRow

\* A mark keeps a row in agreement when it records the attempt's own dates and
\* never FAILED for a pending attempt.
LEMMA MarkedRows ==
    ASSUME IInv, Calm, NEW a \in Apps, NEW state \in AppState,
           NEW applied \in SUBSET Int, NEW sourced,
           Mark(a, state, applied, sourced),
           state = "submitted" => applied # {},
           trace[a].under # NoTitle =>
               \A t \in applied : trace[a].reserved - MaxReportLag <= t,
           Pending(a)' => state \in Live
    PROVE  \A b \in Apps : RowAgrees(b)'
<1>1. TypeOK /\ RowAgrees(a)
  BY DEF IInv
<1>2. ASSUME NEW b \in Apps \ {a} PROVE RowAgrees(b)'
  BY <1>1, MarkUsed, CalmRow
<1>3. /\ app'[a].state = state /\ app'[a].title = app[a].title
      /\ app'[a].updated = now
      /\ app'[a].applied = IF applied = {} THEN app[a].applied ELSE applied
      /\ Used(a) /\ Used(a)'
  BY <1>1, MarkUsed, ZenonT(40)
<1>4. trace'[a] = trace[a] /\ now' = now
  BY DEF Calm
<1>5. app'[a].state = "submitted" => app'[a].applied # {}
  BY <1>3
<1>6. ASSUME trace[a].under # NoTitle
      PROVE /\ trace[a].reserved <= now
            /\ \A t \in app'[a].applied : trace[a].reserved - MaxReportLag <= t
            /\ ~trace[a].renamed => app[a].title = trace[a].under
  BY <1>1, <1>3, <1>6 DEF RowAgrees
<1>7. \A t \in trace[a].clicked :
         /\ trace[a].under # NoTitle
         /\ trace[a].reserved <= t /\ t <= trace[a].reserved + MaxStall
  BY <1>1 DEF RowAgrees
<1>8. Pending(a)' => app'[a].state \in Live
  BY <1>3
<1>9. RowAgrees(a)'
  BY <1>3, <1>4, <1>5, <1>6, <1>7, <1>8 DEF RowAgrees
<1>. QED  BY <1>2, <1>9

-----------------------------------------------------------------------------
\* The steps of a worker

\* A new reservation meets every earlier one under its title in the history: a
\* submitted row applied to, or an unresolved row updated, before the window.
LEMMA ReserveSpaced ==
    ASSUME IInv, NEW p \in Postings, NEW id \in Identities,
           MayReserve(p, id, now),
           NEW b \in Apps, Pending(b), trace[b].under = id.title,
           ~trace[b].renamed
    PROVE  Apart(trace[b].reserved, now, Window - MaxReportLag)
<1>1. /\ now \in Int /\ trace[b].reserved \in Int /\ app[b].updated \in Int
      /\ app[b].applied \subseteq Int /\ MaxReportLag \in Nat /\ Window \in Nat
  BY TypeParts, SubmitAssumption, HistoryAssumption DEF IInv, AppRow, TraceRow
<1>2. RowAgrees(b)
  BY DEF IInv
<1>3. id.title # NoTitle
  BY HistoryAssumption DEF Identities
<1>4. b \in Matching(p, id) /\ app[b].state \in Live
  BY <1>2, <1>3 DEF RowAgrees, Matching, Used, Live, Unresolved
<1>5. CASE app[b].state = "submitted"
  <2>1. PICK t \in app[b].applied : trace[b].reserved - MaxReportLag <= t
    BY <1>2, <1>3, <1>5 DEF RowAgrees
  <2>2. t < now - Window
    BY <1>1, <1>4, <1>5, <2>1 DEF MayReserve, RecentSubmitted
  <2>. QED  BY <1>1, <2>1, <2>2 DEF Apart
<1>6. CASE app[b].state \in Unresolved
  <2>1. app[b].updated < now - Window
    BY <1>1, <1>4, <1>6 DEF MayReserve, RecentUnresolved
  <2>2. trace[b].reserved <= app[b].updated
    BY <1>2, <1>3 DEF RowAgrees
  <2>. QED  BY <1>1, <2>1, <2>2 DEF Apart
<1>. QED  BY <1>4, <1>5, <1>6 DEF Live

LEMMA ReserveInv ==
    ASSUME IInv, NEW w \in Workers, NEW id \in Identities, Reserve(w, id),
           TypeOK'
    PROVE  IInv'
<1>1. PICK p \in Postings, a \in Apps :
        /\ MayReserve(p, id, now)
        /\ Insert(a, p, id, now)
        /\ worker' = [worker EXCEPT ![w] = [pc |-> "reserved", row |-> a]]
        /\ trace' = [trace EXCEPT ![a] =
                       [NoTrace EXCEPT !.under = id.title, !.reserved = now]]
  BY DEF Reserve
<1>2. /\ worker[w].pc = "idle" /\ now' = now /\ recorder' = recorder
      /\ ~Used(a) /\ id.title # NoTitle /\ id.title \in Titles
  BY <1>1, HistoryAssumption DEF Reserve, Insert, NextApp, Identities
<1>3. /\ now \in Int /\ worker \in [Workers -> WorkerRow]
      /\ app \in [Apps -> AppRow] /\ trace \in [Apps -> TraceRow]
      /\ MaxReportLag \in Nat /\ MaxStall \in Nat
  BY TypeParts, SubmitAssumption DEF IInv
<1>4. trace[a] = NoTrace /\ ~Pending(a)
  BY <1>2, FreshRow
<1>5. /\ trace'[a].under = id.title /\ trace'[a].reserved = now
      /\ trace'[a].clicked = {} /\ trace'[a].renamed = FALSE
      /\ \A b \in Apps \ {a} : trace'[b] = trace[b]
  BY <1>1, <1>3 DEF NoTrace
<1>6. /\ app'[a].state = "submitting" /\ app'[a].title = id.title
      /\ app'[a].updated = now /\ app'[a].applied = {}
      /\ \A b \in Apps \ {a} : app'[b] = app[b]
  BY <1>1, <1>3 DEF Insert, NoApp
<1>7. /\ worker'[w].pc = "reserved" /\ worker'[w].row = a
      /\ \A v \in Workers \ {w} : worker'[v] = worker[v]
  BY <1>1, <1>3
<1>8. ASSUME NEW b \in Apps \ {a} PROVE Pending(b)' <=> Pending(b)
  BY <1>2, <1>5, <1>7 DEF Pending
<1>9. \A b \in Apps : Used(b)' <=> Used(b) \/ b = a
  BY <1>6 DEF Used
<1>10. ASSUME NEW v \in Workers \ {w}, worker[v].pc # "idle"
       PROVE  worker[v].row \in Apps \ {a}
  BY <1>2, <1>10 DEF IInv, WorkerAgrees, Used
<1>11. ASSUME NEW b \in Apps PROVE RowAgrees(b)'
  <2>1. CASE b = a
    BY <2>1, <1>2, <1>3, <1>5, <1>6
       DEF RowAgrees, Used, Live, Unresolved
  <2>2. CASE b # a
    <3>1. RowAgrees(b) /\ (Pending(b)' <=> Pending(b))
      BY <2>2, <1>8 DEF IInv
    <3>. QED  BY <2>2, <3>1, <1>2, <1>5, <1>6 DEF RowAgrees, Used
  <2>. QED  BY <2>1, <2>2
<1>12. ASSUME NEW v \in Workers PROVE WorkerAgrees(v)'
  <2>1. CASE v = w
    BY <2>1, <1>2, <1>3, <1>5, <1>7, <1>6 DEF WorkerAgrees, Used
  <2>2. CASE v # w
    <3>1. WorkerAgrees(v) /\ worker'[v] = worker[v]
      BY <2>2, <1>7 DEF IInv
    <3>. QED  BY <2>2, <3>1, <1>2, <1>5, <1>6, <1>10 DEF WorkerAgrees, Used
  <2>. QED  BY <2>1, <2>2
<1>13. OneOwner'
  BY <1>2, <1>7, <1>10 DEF IInv, OneOwner
<1>14. ASSUME NEW r \in Recorders PROVE RecorderAgrees(r)'
  <2>1. RecorderAgrees(r)
    BY DEF IInv
  <2>2. ASSUME recorder[r].pc \in {"read", "mark"}
        PROVE  recorder[r].row \in Apps \ {a}
    BY <2>1, <2>2, <1>2 DEF RecorderAgrees, Used
  <2>. QED  BY <2>1, <2>2, <1>2, <1>5, <1>6 DEF RecorderAgrees, Used
<1>15. ASSUME NEW b \in Apps \ {a}, Pending(b), trace[b].under = id.title,
              ~trace[b].renamed
       PROVE  /\ Apart(trace[b].reserved, now, Window - MaxReportLag)
              /\ Apart(now, trace[b].reserved, Window - MaxReportLag)
  <2>1. Apart(trace[b].reserved, now, Window - MaxReportLag)
    BY <1>1, <1>15, ReserveSpaced
  <2>. QED  BY <2>1 DEF Apart
<1>16. ReservationsSpaced'
  <2> SUFFICES ASSUME NEW b \in Apps, NEW c \in Apps, b # c,
                      Pending(b)', Pending(c)',
                      trace'[b].under = trace'[c].under,
                      ~trace'[b].renamed, ~trace'[c].renamed
               PROVE  Apart(trace'[b].reserved, trace'[c].reserved,
                            Window - MaxReportLag)
    BY DEF ReservationsSpaced, Apart
  <2>1. CASE b = a
    BY <2>1, <1>5, <1>8, <1>15
  <2>2. CASE c = a
    BY <2>2, <1>5, <1>8, <1>15
  <2>3. CASE b # a /\ c # a
    BY <2>3, <1>5, <1>8 DEF IInv, ReservationsSpaced
  <2>. QED  BY <2>1, <2>2, <2>3
<1>. QED  BY <1>11, <1>12, <1>13, <1>14, <1>16 DEF IInv

LEMMA ClickInv ==
    ASSUME IInv, NEW w \in Workers, Click(w), TypeOK'
    PROVE  IInv'
<1>0. PICK a \in Apps : a = worker[w].row
  BY DEF Click, IInv, WorkerAgrees
<1>1. /\ now \in Int /\ worker \in [Workers -> WorkerRow]
      /\ trace \in [Apps -> TraceRow]
  BY TypeParts DEF IInv
<1>2. /\ worker[w].pc = "reserved" /\ WorkerAgrees(w) /\ OneOwner
      /\ now' = now /\ app' = app /\ recorder' = recorder
  BY DEF Click, IInv
<1>3. /\ trace[a].under # NoTitle /\ trace[a].clicked = {}
      /\ now <= trace[a].reserved + MaxStall /\ RowAgrees(a) /\ Pending(a)
  BY <1>0, <1>2 DEF WorkerAgrees, IInv, Pending
<1>4. /\ trace'[a].clicked = {now} /\ trace'[a].under = trace[a].under
      /\ trace'[a].reserved = trace[a].reserved
      /\ trace'[a].renamed = trace[a].renamed
      /\ \A b \in Apps \ {a} : trace'[b] = trace[b]
  BY <1>0, <1>1 DEF Click, TraceRow
<1>5. /\ worker'[w].pc = "clicked" /\ worker'[w].row = a
      /\ \A v \in Workers \ {w} : worker'[v] = worker[v]
  BY <1>0, <1>1 DEF Click, WorkerRow
<1>6. ASSUME NEW b \in Apps, Pending(b)' PROVE Pending(b)
  <2>1. CASE b = a
    BY <2>1, <1>3
  <2>2. CASE b # a
    BY <2>2, <1>4, <1>5, <1>6 DEF Pending
  <2>. QED  BY <2>1, <2>2
<1>7. ASSUME NEW b \in Apps PROVE RowAgrees(b)'
  <2>1. RowAgrees(b) /\ (Pending(b)' => Pending(b))
    BY <1>6 DEF IInv
  <2>2. CASE b = a
    <3>1. /\ Used(a) /\ Used(a)'
          /\ trace[a].reserved <= now
      BY <1>2, <1>3 DEF RowAgrees, Used, Live, Unresolved
    <3>. QED  BY <2>1, <2>2, <3>1, <1>2, <1>3, <1>4 DEF RowAgrees
  <2>3. CASE b # a
    BY <2>1, <2>3, <1>2, <1>4 DEF RowAgrees, Used
  <2>. QED  BY <2>2, <2>3
<1>8. ASSUME NEW v \in Workers PROVE WorkerAgrees(v)'
  <2>1. WorkerAgrees(v) /\ (v # w /\ worker[v].pc # "idle" => worker[v].row # a)
    BY <1>0, <1>2 DEF IInv, OneOwner
  <2>2. CASE v = w
    BY <2>1, <2>2, <1>0, <1>2, <1>3, <1>4, <1>5 DEF WorkerAgrees, Used
  <2>3. CASE v # w
    BY <2>1, <2>3, <1>2, <1>4, <1>5 DEF WorkerAgrees, Used
  <2>. QED  BY <2>2, <2>3
<1>9. OneOwner'
  BY <1>0, <1>2, <1>5 DEF OneOwner
<1>10. ASSUME NEW r \in Recorders PROVE RecorderAgrees(r)'
  <2>1. RecorderAgrees(r)
    BY DEF IInv
  <2>2. \A b \in Apps : /\ trace'[b].under = trace[b].under
                        /\ trace'[b].reserved = trace[b].reserved
    BY <1>4
  <2>. QED  BY <2>1, <2>2, <1>2 DEF RecorderAgrees, Used
<1>11. ReservationsSpaced'
  BY <1>4, <1>6 DEF IInv, ReservationsSpaced, Apart
<1>. QED  BY <1>7, <1>8, <1>9, <1>10, <1>11 DEF IInv

\* The worker lets go of its row and marks it: FAILED only before its click.
LEMMA WorkerMarkInv ==
    ASSUME IInv, NEW w \in Workers, worker[w].pc # "idle",
           NEW state \in AppState, NEW applied \in SUBSET Int, NEW sourced,
           Mark(worker[w].row, state, applied, sourced),
           worker' = [worker EXCEPT ![w] = Idle],
           now' = now, trace' = trace, recorder' = recorder, TypeOK',
           state \in Live \/ worker[w].pc = "reserved",
           state = "submitted" => applied # {},
           \A t \in applied : t = now
    PROVE  IInv'
<1>0. PICK a \in Apps : a = worker[w].row
  BY DEF IInv, WorkerAgrees
<1>1. TypeOK /\ WorkerAgrees(w) /\ OneOwner /\ worker \in [Workers -> WorkerRow]
  BY TypeParts DEF IInv
<1>2. /\ Mark(a, state, applied, sourced) /\ RowAgrees(a) /\ Used(a)
      /\ trace[a].under # NoTitle
  BY <1>0, <1>1 DEF WorkerAgrees, IInv
<1>3. Calm
  <2>1. \A b \in Apps : Used(b) => Used(b)'
    BY <1>1, <1>2, MarkUsed
  <2>. QED  BY <1>1, <2>1 DEF Calm
<1>4. Pending(a)' => state \in Live
  <2>1. ASSUME NEW v \in Workers, worker'[v].pc = "reserved"
        PROVE  worker'[v].row # a
    BY <2>1, <1>0, <1>1 DEF OneOwner, Idle
  <2>2. worker[w].pc = "reserved" => trace[a].clicked = {}
    BY <1>0, <1>1 DEF WorkerAgrees
  <2>. QED  BY <2>1, <2>2 DEF Pending
<1>5. trace[a].under # NoTitle =>
        \A t \in applied : trace[a].reserved - MaxReportLag <= t
  <2>1. trace[a].reserved \in Int /\ now \in Int /\ MaxReportLag \in Nat
    BY <1>2, TypeParts, SubmitAssumption DEF IInv, TraceRow
  <2>. QED  BY <2>1, <1>2 DEF RowAgrees
<1>6. \A b \in Apps : RowAgrees(b)'
  BY <1>2, <1>3, <1>4, <1>5, MarkedRows
<1>7. \A r \in Recorders : RecorderAgrees(r)'
  BY <1>3, CalmRecorder
<1>. QED  BY <1>3, <1>6, <1>7, CalmWorkers DEF IInv

\* A calm step that leaves the rows and the recorders' alone, or resets one.
LEMMA QuietInv ==
    ASSUME IInv, TypeOK', now' = now, app' = app, trace' = trace,
           \A w \in Workers : worker'[w] \in {worker[w], Idle},
           \A r \in Recorders : recorder'[r] \in {recorder[r], RecorderIdle}
    PROVE  IInv'
<1>1. Calm
  BY DEF Calm, Used
<1>. QED  BY <1>1, CalmWorkers, CalmRow, CalmRecorder DEF IInv

LEMMA WorkerInv ==
    ASSUME IInv, NEW w \in Workers, TypeOK',
           \/ \E id \in Identities : ReserveRefused(w, id)
           \/ GateBlocked(w) \/ OutcomeUnknown(w)
           \/ PostApply(w) \/ WorkerCrash(w)
    PROVE  IInv'
<1>t. worker \in [Workers -> WorkerRow] /\ now \in Int
  BY TypeParts DEF IInv
<1>1. CASE \E id \in Identities : ReserveRefused(w, id)
  BY <1>1, QuietInv DEF ReserveRefused
<1>2. CASE GateBlocked(w)
  <2>1. "failed" \in AppState
    BY DEF AppState
  <2>. QED  BY <1>2, <2>1, WorkerMarkInv DEF GateBlocked, MarkFailed
<1>3. CASE OutcomeUnknown(w)
  <2>1. "submission_unknown" \in AppState /\ "submission_unknown" \in Live
    BY DEF AppState, Live, Unresolved
  <2>. QED
    BY <1>3, <2>1, WorkerMarkInv DEF OutcomeUnknown, MarkSubmissionUnknown
<1>4. CASE PostApply(w)
  <2>1. "submitted" \in AppState /\ "submitted" \in Live
    BY DEF AppState, Live
  <2>2. {now} \in SUBSET Int /\ {now} # {} /\ \A t \in {now} : t = now
    BY <1>t
  <2>. QED
    BY <1>4, <2>1, <2>2, WorkerMarkInv DEF PostApply, MarkSubmitted
<1>5. CASE WorkerCrash(w)
  BY <1>5, <1>t, QuietInv DEF WorkerCrash
<1>. QED  BY <1>1, <1>2, <1>3, <1>4, <1>5

-----------------------------------------------------------------------------
\* The steps of a recorder

LEMMA RenameInv ==
    ASSUME IInv, NEW r \in Recorders, NEW id \in Identities, NEW at \in Int,
           RecordRenames(r, id, at), TypeOK'
    PROVE  IInv'
<1>1. PICK a \in Apps :
        /\ Rename(a, id)
        /\ trace' = [trace EXCEPT ![a].renamed = TRUE]
        /\ Renames(a, id, at)
  BY DEF RecordRenames
<1>2. /\ app \in [Apps -> AppRow] /\ trace \in [Apps -> TraceRow]
  BY TypeParts DEF IInv
<1>3. now' = now /\ worker' = worker /\ recorder' = recorder
  BY DEF RecordRenames
<1>4. app[a].state = "submitted"
  BY <1>1 DEF Renames, OfSameJob, SameDayVariants
<1>5. \A b \in Apps : /\ app'[b].state = app[b].state
                      /\ app'[b].applied = app[b].applied
                      /\ app'[b].updated = app[b].updated
                      /\ b # a => app'[b].title = app[b].title
  BY <1>1, <1>2 DEF Rename, AppRow
<1>6. \A b \in Apps : /\ trace'[b].under = trace[b].under
                      /\ trace'[b].reserved = trace[b].reserved
                      /\ trace'[b].clicked = trace[b].clicked
                      /\ b # a => trace'[b] = trace[b]
  BY <1>1, <1>2 DEF TraceRow
<1>7. trace'[a].renamed = TRUE
  BY <1>1, <1>2 DEF TraceRow
<1>8. ASSUME NEW b \in Apps
      PROVE  (Used(b)' <=> Used(b)) /\ (Pending(b)' <=> Pending(b))
  BY <1>3, <1>5, <1>6 DEF Used, Pending
<1>9. ASSUME NEW b \in Apps PROVE RowAgrees(b)'
  <2>1. RowAgrees(b) /\ (Used(b)' <=> Used(b)) /\ (Pending(b)' <=> Pending(b))
    BY <1>8 DEF IInv
  <2>2. CASE b = a
    <3>1. Used(b)
      BY <2>2, <1>4 DEF Used
    <3>. QED  BY <2>1, <2>2, <3>1, <1>3, <1>5, <1>6, <1>7 DEF RowAgrees
  <2>3. CASE b # a
    BY <2>1, <2>3, <1>3, <1>5, <1>6 DEF RowAgrees
  <2>. QED  BY <2>2, <2>3
<1>10. ASSUME NEW w \in Workers PROVE WorkerAgrees(w)'
  <2>1. WorkerAgrees(w)
    BY DEF IInv
  <2>. QED  BY <2>1, <1>3, <1>5, <1>6 DEF WorkerAgrees, Used
<1>11. OneOwner'
  BY <1>3 DEF IInv, OneOwner
<1>12. ASSUME NEW q \in Recorders PROVE RecorderAgrees(q)'
  <2>1. RecorderAgrees(q)
    BY DEF IInv
  <2>. QED  BY <2>1, <1>3, <1>5, <1>6 DEF RecorderAgrees, Used
<1>13. ReservationsSpaced'
  BY <1>6, <1>7, <1>8 DEF IInv, ReservationsSpaced, Apart
<1>. QED  BY <1>9, <1>10, <1>11, <1>12, <1>13 DEF IInv

LEMMA RecordStartInv ==
    ASSUME IInv, NEW r \in Recorders, NEW id \in Identities,
           NEW at \in (now - MaxReportLag)..now, RecordStart(r, id, at), TypeOK'
    PROVE  IInv'
<1>1. Calm /\ app' = app
  BY DEF RecordStart, Calm, Used
<1>2. recorder \in [Recorders -> RecorderRow] /\ now \in Int
  BY TypeParts DEF IInv
<1>3. RecorderAgrees(r)'
  <2>1. recorder'[r].pc = "reserve" /\ recorder'[r].at = at /\ now' = now
    BY <1>2 DEF RecordStart
  <2>2. now - MaxReportLag <= at
    BY <1>2, SubmitAssumption
  <2>. QED  BY <2>1, <2>2 DEF RecorderAgrees
<1>4. ASSUME NEW q \in Recorders \ {r} PROVE RecorderAgrees(q)'
  BY <1>1, <1>2, CalmRecorder DEF RecordStart
<1>. QED  BY <1>1, <1>3, <1>4, CalmWorkers, CalmRow DEF IInv

LEMMA RecordReservesInv ==
    ASSUME IInv, NEW r \in Recorders, RecordReserves(r), TypeOK'
    PROVE  IInv'
<1>1. PICK p \in Postings, a \in Apps :
        \/ /\ Insert(a, p, recorder[r].id, recorder[r].at)
           /\ recorder' = [recorder EXCEPT ![r] =
                             [@ EXCEPT !.pc = "mark", !.row = a]]
        \/ /\ RefusedFor(a, p, recorder[r].id, recorder[r].at)
           /\ recorder' = [recorder EXCEPT ![r] =
                             [@ EXCEPT !.pc = "read", !.row = a]]
           /\ app' = app
  BY DEF RecordReserves
<1>2. /\ now \in Int /\ app \in [Apps -> AppRow]
      /\ trace \in [Apps -> TraceRow]
      /\ recorder \in [Recorders -> RecorderRow]
      /\ MaxReportLag \in Nat /\ recorder[r].at \in Int
  BY TypeParts, SubmitAssumption DEF IInv, RecorderRow
<1>3. /\ now' = now /\ trace' = trace /\ worker' = worker
      /\ recorder[r].pc = "reserve" /\ RecorderAgrees(r)
  BY DEF RecordReserves, IInv
<1>4. ASSUME NEW q \in Recorders \ {r} PROVE recorder'[q] = recorder[q]
  BY <1>1, <1>2
<1>5. /\ recorder'[r].pc \in {"mark", "read"} /\ recorder'[r].row = a
      /\ recorder'[r].at = recorder[r].at
  <2>1. ASSUME NEW pc,
               recorder' = [recorder EXCEPT ![r] =
                              [@ EXCEPT !.pc = pc, !.row = a]]
        PROVE  /\ recorder'[r].pc = pc /\ recorder'[r].row = a
               /\ recorder'[r].at = recorder[r].at
    BY <1>2, <2>1 DEF RecorderRow
  <2>. QED  BY <1>1, <2>1
<1>6. CASE Insert(a, p, recorder[r].id, recorder[r].at)
  <2>0. ~Used(a)
    BY <1>6 DEF Insert, NextApp
  <2>1. trace[a] = NoTrace /\ ~Pending(a)
    BY <2>0, FreshRow
  <2>2. /\ app'[a].state = "submitting"
        /\ \A b \in Apps \ {a} : app'[b] = app[b]
    BY <1>2, <1>6 DEF Insert, NoApp
  <2>3. Calm /\ Used(a)'
    BY <1>3, <2>2 DEF Calm, Used
  <2>4. trace[a].under = NoTitle /\ trace[a].clicked = {}
    BY <2>1 DEF NoTrace
  <2>5. ~Pending(a)'
    BY <2>1, <2>3, CalmPending
  <2>6. RowAgrees(a)'
    BY <1>3, <2>2, <2>3, <2>4, <2>5 DEF RowAgrees
  <2>7. ASSUME NEW b \in Apps \ {a} PROVE RowAgrees(b)'
    BY <2>2, <2>3, CalmRow
  <2>8. RecorderAgrees(r)'
    BY <1>3, <1>5, <2>2, <2>4 DEF RecorderAgrees, Used
  <2>9. ASSUME NEW q \in Recorders \ {r} PROVE RecorderAgrees(q)'
    BY <1>4, <2>3, CalmRecorder
  <2>. QED  BY <2>3, <2>6, <2>7, <2>8, <2>9, CalmWorkers DEF IInv
<1>7. CASE RefusedFor(a, p, recorder[r].id, recorder[r].at) /\ app' = app
  <2>1. Calm
    BY <1>3, <1>7 DEF Calm, Used
  <2>2. Used(a)
    BY <1>7 DEF RefusedFor, LastApplied, LastUpdated, RecentSubmitted,
                RecentUnresolved, Matching
  <2>3. trace[a].under # NoTitle => trace[a].reserved <= now
    BY DEF IInv, RowAgrees
  <2>4. now - MaxReportLag <= recorder[r].at
    BY <1>3 DEF RecorderAgrees
  <2>5. trace[a].reserved \in Int
    BY <1>2 DEF TraceRow
  <2>6. trace[a].under # NoTitle =>
          trace[a].reserved - MaxReportLag <= recorder[r].at
    BY <1>2, <2>3, <2>4, <2>5
  <2>7. RecorderAgrees(r)'
    BY <1>3, <1>5, <1>7, <2>2, <2>6 DEF RecorderAgrees, Used
  <2>8. ASSUME NEW q \in Recorders \ {r} PROVE RecorderAgrees(q)'
    BY <1>4, <2>1, CalmRecorder
  <2>. QED  BY <1>7, <2>1, <2>7, <2>8, CalmRow, CalmWorkers DEF IInv
<1>. QED  BY <1>1, <1>6, <1>7

LEMMA RecordReadsInv ==
    ASSUME IInv, NEW r \in Recorders, RecordReads(r), TypeOK'
    PROVE  IInv'
<1>1. /\ now' = now /\ trace' = trace /\ worker' = worker /\ app' = app
      /\ recorder[r].pc = "read" /\ RecorderAgrees(r)
      /\ recorder \in [Recorders -> RecorderRow]
  BY TypeParts DEF RecordReads, IInv
<1>2. Calm
  BY <1>1 DEF Calm, Used
<1>3. CASE recorder' = [recorder EXCEPT ![r] = RecorderIdle]
  BY <1>1, <1>3, QuietInv
<1>4. ASSUME NEW at \in {recorder[r].at} \cup app[recorder[r].row].applied,
             recorder' = [recorder EXCEPT ![r] =
                            [@ EXCEPT !.pc = "mark", !.at = at]]
      PROVE  IInv'
  <2>1. PICK a \in Apps : a = recorder[r].row
    BY <1>1 DEF RecorderAgrees
  <2>2. /\ recorder'[r].pc = "mark" /\ recorder'[r].row = a
        /\ recorder'[r].at = at
        /\ \A q \in Recorders \ {r} : recorder'[q] = recorder[q]
    BY <1>1, <1>4, <2>1 DEF RecorderRow
  <2>3. trace[a].under # NoTitle => trace[a].reserved - MaxReportLag <= at
    <3>1. RowAgrees(a)
      BY DEF IInv
    <3>. QED  BY <1>1, <1>4, <2>1, <3>1 DEF RowAgrees, RecorderAgrees
  <2>4. RecorderAgrees(r)'
    BY <1>1, <2>1, <2>2, <2>3 DEF RecorderAgrees, Used
  <2>5. ASSUME NEW q \in Recorders \ {r} PROVE RecorderAgrees(q)'
    BY <1>2, <2>2, CalmRecorder
  <2>. QED  BY <1>1, <1>2, <2>4, <2>5, CalmRow, CalmWorkers DEF IInv
<1>. QED  BY <1>3, <1>4 DEF RecordReads

LEMMA RecordMarksInv ==
    ASSUME IInv, NEW r \in Recorders, RecordMarks(r), TypeOK'
    PROVE  IInv'
<1>1. /\ now' = now /\ trace' = trace /\ worker' = worker
      /\ recorder[r].pc = "mark" /\ RecorderAgrees(r)
      /\ recorder \in [Recorders -> RecorderRow]
      /\ TypeOK
  BY TypeParts DEF RecordMarks, IInv
<1>2. PICK a \in Apps : a = recorder[r].row
  BY <1>1 DEF RecorderAgrees
<1>3. recorder[r].at \in Int /\ "submitted" \in AppState /\ "submitted" \in Live
  BY <1>1 DEF RecorderRow, AppState, Live
<1>4. Mark(a, "submitted", {recorder[r].at}, TRUE)
  BY <1>2 DEF RecordMarks, MarkSubmitted
<1>5. Calm
  <2>1. \A b \in Apps : Used(b) => Used(b)'
    BY <1>1, <1>3, <1>4, MarkUsed
  <2>. QED  BY <1>1, <2>1 DEF Calm
<1>6. trace[a].under # NoTitle =>
        \A t \in {recorder[r].at} : trace[a].reserved - MaxReportLag <= t
  BY <1>1, <1>2 DEF RecorderAgrees
<1>7. \A b \in Apps : RowAgrees(b)'
  <2>1. {recorder[r].at} \in SUBSET Int /\ {recorder[r].at} # {}
    BY <1>3
  <2>. QED  BY <1>3, <1>4, <1>5, <1>6, <2>1, MarkedRows
<1>8. \A q \in Recorders : RecorderAgrees(q)'
  BY <1>1, <1>5, CalmRecorder DEF RecordMarks
<1>. QED  BY <1>5, <1>7, <1>8, CalmWorkers DEF IInv

LEMMA RecorderCrashInv ==
    ASSUME IInv, NEW r \in Recorders, RecorderCrash(r), TypeOK'
    PROVE  IInv'
<1>1. recorder \in [Recorders -> RecorderRow]
  BY TypeParts DEF IInv
<1>. QED  BY <1>1, QuietInv DEF RecorderCrash

-----------------------------------------------------------------------------
\* Watcher, provider and clock

LEMMA WatcherInv ==
    ASSUME IInv, NEW id \in Identities, WatcherConfirms(id), TypeOK'
    PROVE  IInv'
<1>1. PICK p \in Postings, a \in Apps : RecordConfirmed(a, p, id)
  BY DEF WatcherConfirms
<1>2. /\ now' = now /\ trace' = trace /\ worker' = worker
      /\ recorder' = recorder
  BY DEF WatcherConfirms
<1>3. /\ now \in Int /\ MaxReportLag \in Nat /\ app \in [Apps -> AppRow]
      /\ trace[a].reserved \in Int
  BY TypeParts, SubmitAssumption DEF IInv, TraceRow
<1>4. \/ app' = app
      \/ /\ Used(a)
         /\ app' = [app EXCEPT ![a] =
                      [@ EXCEPT !.state = "submitted", !.applied = {now},
                                !.updated = now, !.sourced = TRUE,
                                !.posting = p]]
      \/ /\ ~Used(a)
         /\ app' = [app EXCEPT ![a] =
                      [state |-> "submitted", title |-> id.title,
                       posting |-> p, applied |-> {now}, updated |-> now,
                       sourced |-> TRUE]]
  BY <1>1 DEF RecordConfirmed, LastUpdated, WatcherUnresolved, Matching, NextApp
<1>5. CASE app' = app
  BY <1>2, <1>5, QuietInv
<1>6. ASSUME app' # app
      PROVE  /\ app'[a].state = "submitted" /\ app'[a].applied = {now}
             /\ app'[a].updated = now
             /\ Used(a) => app'[a].title = app[a].title
             /\ \A b \in Apps \ {a} : app'[b] = app[b]
  <2>1. CASE Used(a)
    <3> DEFINE row == [app[a] EXCEPT !.state = "submitted", !.applied = {now},
                                     !.updated = now, !.sourced = TRUE,
                                     !.posting = p]
    <3>1. app' = [app EXCEPT ![a] = row]
      BY <1>4, <1>6, <2>1
    <3>2. /\ row.state = "submitted" /\ row.applied = {now}
          /\ row.updated = now /\ row.title = app[a].title
      BY <1>3 DEF AppRow
    <3> HIDE DEF row
    <3>. QED  BY <1>3, <3>1, <3>2
  <2>2. CASE ~Used(a)
    BY <1>3, <1>4, <1>6, <2>2
  <2>. QED  BY <2>1, <2>2
<1>7. CASE app' # app
  <2>1. Calm /\ Used(a)'
    BY <1>2, <1>6, <1>7 DEF Calm, Used
  <2>2. ~Used(a) => trace[a].under = NoTitle /\ trace[a].clicked = {}
    BY FreshRow DEF NoTrace
  <2>3. RowAgrees(a)
    BY DEF IInv
  <2>4. trace[a].under # NoTitle => trace[a].reserved - MaxReportLag <= now
    BY <1>3, <2>3 DEF RowAgrees
  <2>5. RowAgrees(a)'
    BY <1>2, <1>6, <1>7, <2>1, <2>2, <2>3, <2>4 DEF RowAgrees, Live
  <2>6. ASSUME NEW b \in Apps \ {a} PROVE RowAgrees(b)'
    BY <1>6, <1>7, <2>1, CalmRow
  <2>7. \A r \in Recorders : RecorderAgrees(r)'
    BY <1>2, <2>1, CalmRecorder
  <2>. QED  BY <2>1, <2>5, <2>6, <2>7, CalmWorkers DEF IInv
<1>. QED  BY <1>5, <1>7

LEMMA ProviderInv ==
    ASSUME IInv, NEW a \in Apps, NEW at \in 0..Horizon,
           ProviderConfirms(a, at), TypeOK'
    PROVE  IInv'
<1>1. /\ now' = now /\ trace' = trace /\ worker' = worker
      /\ recorder' = recorder /\ app[a].updated <= at /\ TypeOK
      /\ Mark(a, "submitted", {at}, TRUE)
  BY DEF ProviderConfirms, MarkSubmitted, IInv
<1>2. /\ "submitted" \in AppState /\ "submitted" \in Live
      /\ at \in Int /\ MaxReportLag \in Nat /\ app[a].updated \in Int
      /\ trace[a].reserved \in Int
  BY <1>1, TypeParts, SubmitAssumption DEF AppState, Live, AppRow, TraceRow
<1>3. Calm
  <2>1. \A b \in Apps : Used(b) => Used(b)'
    BY <1>1, <1>2, MarkUsed
  <2>. QED  BY <1>1, <2>1 DEF Calm
<1>4. trace[a].under # NoTitle =>
        \A t \in {at} : trace[a].reserved - MaxReportLag <= t
  <2>1. trace[a].under # NoTitle => trace[a].reserved <= app[a].updated
    BY DEF IInv, RowAgrees
  <2>. QED  BY <1>1, <1>2, <2>1
<1>5. \A b \in Apps : RowAgrees(b)'
  <2>1. {at} \in SUBSET Int /\ {at} # {}
    BY <1>2
  <2>. QED  BY <1>1, <1>2, <1>3, <1>4, <2>1, MarkedRows
<1>6. \A r \in Recorders : RecorderAgrees(r)'
  BY <1>1, <1>3, CalmRecorder
<1>. QED  BY <1>3, <1>5, <1>6, CalmWorkers DEF IInv

LEMMA TickInv ==
    ASSUME IInv, Tick, TypeOK'
    PROVE  IInv'
<1>1. /\ now' = now + 1 /\ app' = app /\ worker' = worker
      /\ recorder' = recorder /\ trace' = trace
  BY DEF Tick
<1>2. /\ now \in Int /\ MaxReportLag \in Nat /\ MaxStall \in Nat
      /\ trace \in [Apps -> TraceRow] /\ recorder \in [Recorders -> RecorderRow]
  BY TypeParts, SubmitAssumption DEF IInv
<1>3. \A a \in Apps : trace[a].reserved \in Int
  BY <1>2 DEF TraceRow
<1>4. ASSUME NEW a \in Apps
      PROVE  (Used(a)' <=> Used(a)) /\ (Pending(a)' <=> Pending(a))
  BY <1>1 DEF Used, Pending
<1>5. ASSUME NEW a \in Apps PROVE RowAgrees(a)'
  <2>1. RowAgrees(a) /\ (Used(a)' <=> Used(a)) /\ (Pending(a)' <=> Pending(a))
    BY <1>4 DEF IInv
  <2>2. trace[a].reserved <= now => trace[a].reserved <= now'
    BY <1>1, <1>2, <1>3
  <2>. QED  BY <1>1, <2>1, <2>2 DEF RowAgrees
<1>6. ASSUME NEW w \in Workers PROVE WorkerAgrees(w)'
  <2>1. WorkerAgrees(w)
    BY DEF IInv
  <2>2. ASSUME worker[w].pc = "reserved", worker[w].row \in Apps
        PROVE  now' <= trace[worker[w].row].reserved + MaxStall
    BY <1>1, <1>2, <1>3, <2>2 DEF Tick
  <2>. QED  BY <1>1, <2>1, <2>2 DEF WorkerAgrees, Used
<1>7. OneOwner'
  BY <1>1 DEF IInv, OneOwner
<1>8. ASSUME NEW r \in Recorders PROVE RecorderAgrees(r)'
  <2>1. RecorderAgrees(r)
    BY DEF IInv
  <2>2. recorder[r].at \in Int
    BY <1>2 DEF RecorderRow
  <2>3. recorder[r].pc = "reserve" => now' - MaxReportLag <= recorder[r].at
    BY <1>1, <1>2, <2>2 DEF Tick
  <2>. QED  BY <1>1, <2>1, <2>3 DEF RecorderAgrees, Used
<1>9. ReservationsSpaced'
  BY <1>1, <1>4 DEF IInv, ReservationsSpaced, Apart
<1>. QED  BY <1>5, <1>6, <1>7, <1>8, <1>9 DEF IInv

-----------------------------------------------------------------------------
\* The invariant holds, and what follows from it

LEMMA Inductive == IInv /\ [Next]_vars => IInv'
<1> SUFFICES ASSUME IInv, [Next]_vars PROVE IInv'
  OBVIOUS
<1>0. TypeOK'
  <2>1. RowsFound
    BY DEF IInv, RecorderAgrees, RowsFound
  <2>. QED  BY <2>1, TypeStep DEF IInv
<1>1. ASSUME NEW w \in Workers, NEW id \in Identities, Reserve(w, id)
      PROVE  IInv'
  BY <1>0, <1>1, ReserveInv
<1>2. ASSUME NEW w \in Workers, Click(w)
      PROVE  IInv'
  BY <1>0, <1>2, ClickInv
<1>3. ASSUME NEW w \in Workers,
             \/ \E id \in Identities : ReserveRefused(w, id)
             \/ GateBlocked(w) \/ OutcomeUnknown(w)
             \/ PostApply(w) \/ WorkerCrash(w)
      PROVE  IInv'
  BY <1>0, <1>3, WorkerInv
<1>4. ASSUME NEW r \in Recorders, NEW id \in Identities,
             NEW at \in (now - MaxReportLag)..now,
             RecordRenames(r, id, at) \/ RecordStart(r, id, at)
      PROVE  IInv'
  <2>1. at \in Int
    OBVIOUS
  <2>. QED  BY <1>0, <1>4, <2>1, RenameInv, RecordStartInv
<1>5. ASSUME NEW r \in Recorders,
             \/ RecordReserves(r) \/ RecordReads(r)
             \/ RecordMarks(r) \/ RecorderCrash(r)
      PROVE  IInv'
  BY <1>0, <1>5, RecordReservesInv, RecordReadsInv, RecordMarksInv,
     RecorderCrashInv
<1>6. ASSUME NEW id \in Identities, WatcherConfirms(id)
      PROVE  IInv'
  BY <1>0, <1>6, WatcherInv
<1>7. ASSUME NEW a \in Apps, NEW at \in 0..Horizon, ProviderConfirms(a, at)
      PROVE  IInv'
  BY <1>0, <1>7, ProviderInv
<1>8. CASE Tick
  BY <1>0, <1>8, TickInv
<1>9. CASE UNCHANGED vars
  BY <1>0, <1>9, QuietInv DEF vars
<1>. QED
  BY <1>1, <1>2, <1>3, <1>4, <1>5, <1>6, <1>7, <1>8, <1>9 DEF Next

LEMMA Always == Spec => []IInv
  BY InitInv, Inductive, PTL DEF Spec

\* The rows, program counters and dates of final-submit flows, recorders and
\* history keep their types (submission_history.py:615-702).
THEOREM HistoryTyped == Spec => []TypeOK
<1>1. IInv => TypeOK
  BY DEF IInv
<1>. QED  BY Always, <1>1, PTL

\* However many workers, recorders and confirmations interleave, crash and are
\* retried, an attempt whose final click took effect stays on record as one
\* that may have been submitted (indeed_smart_apply_runner.py:579-638).
THEOREM ClicksRemembered == Spec => []ClickNeverForgotten
<1>1. IInv => ClickNeverForgotten
  BY DEF IInv, RowAgrees, Pending, Live, Unresolved, ClickNeverForgotten
<1>. QED  BY Always, <1>1, PTL

\* Final clicks under one title are a duplicate window apart, less a worker's
\* stall and a report's lag (reserve_submission, submission_history.py:125-285).
THEOREM ClicksSpaced == Spec => []ClicksAreSpaced
<1>1. ASSUME IInv PROVE ClicksAreSpaced
  <2> SUFFICES ASSUME NEW a \in Apps, NEW b \in Apps, a # b,
                      trace[a].under = trace[b].under,
                      ~trace[a].renamed, ~trace[b].renamed,
                      NEW t \in trace[a].clicked, NEW u \in trace[b].clicked
               PROVE  \/ t - u > Window - MaxStall - MaxReportLag
                      \/ u - t > Window - MaxStall - MaxReportLag
    BY DEF ClicksAreSpaced
  <2>1. Apart(trace[a].reserved, trace[b].reserved, Window - MaxReportLag)
    BY <1>1 DEF IInv, ReservationsSpaced, Pending
  <2>2. /\ trace[a].reserved <= t /\ t <= trace[a].reserved + MaxStall
        /\ trace[b].reserved <= u /\ u <= trace[b].reserved + MaxStall
    BY <1>1 DEF IInv, RowAgrees
  <2>3. /\ t \in Int /\ u \in Int
        /\ trace[a].reserved \in Int /\ trace[b].reserved \in Int
        /\ Window \in Int /\ MaxStall \in Int /\ MaxReportLag \in Int
    BY <1>1, TypeParts, SubmitAssumption, HistoryAssumption DEF IInv, TraceRow
  <2>. QED  BY <2>1, <2>2, <2>3 DEF Apart
<1>. QED  BY Always, <1>1, PTL
=============================================================================
