----------------------------- MODULE SetUpProofs -----------------------------
(***************************************************************************)
(* The inductive invariants of what is set up before a goal starts: the    *)
(* profile with its automatic start (Onboarding), the configuration of a   *)
(* model provider (LocalAI), the social sources and their sessions         *)
(* (SocialScrape), the crawl of the person's site (AgenticCrawl) and the   *)
(* resumes (IndustryBuild), for any threads and contents.  What they show  *)
(* is stated in PartsProofs.                                               *)
(***************************************************************************)
EXTENDS Parts, Integers, Sequences, FiniteSetTheorems, TLAPS

-----------------------------------------------------------------------------
\* Setting up.  A goal that is started by itself is created, and recorded, under
\* the auto-start lock; the tables it is recorded in outlive the server, the lock
\* does not.

Answers == [Onboard!Fields -> AnswerValues \cup {"none"}]
RouteState == {"none", "plain", "default"}
GoalRow == [by : {"auto", "person"}, of : 0..MaxRevisions, live : BOOLEAN]
Locked == {"active", "create", "mark", "record"}
ThreadPc == {"idle", "correct", "prefer", "auto", "person", "blocker", "save answer",
             "collect", "verify", "clear", "routes", "route"} \cup Locked
ThreadRow ==
    [pc : ThreadPc, field : Onboard!Fields, value : AnswerValues \cup {"none"}, got : Answers,
     known : SUBSET Onboard!Routed, default : BOOLEAN, at : Nat \ {0},
     key : 0..MaxRevisions, prior : 0..MaxGoals]

TablesTyped ==
    /\ sound \in BOOLEAN /\ answers \in Answers /\ identity \in Answers
    /\ revision \in 0..MaxRevisions
    /\ routes \in [Onboard!Routed -> RouteState]
    /\ goals \in Seq(GoalRow) /\ Len(goals) <= MaxGoals
    /\ started \in [1..MaxRevisions -> 0..MaxGoals]
ThreadsTyped == threads \in [Threads -> ThreadRow]
SetUpTyped == TablesTyped /\ lock \in Threads \cup {0} /\ ThreadsTyped

\* No table changes.
Stays == UNCHANGED <<sound, answers, identity, revision, routes, goals, started>>
\* The thread goes on as row, and the others stay.
Becomes(t, row) ==
    /\ ThreadsTyped' /\ threads'[t] = row
    /\ \A u \in Threads \ {t} : threads'[u] = threads[u]

LEMMA IdleTyped ==
    ASSUME Onboard!OnboardingAssumption
    PROVE Onboard!Idle \in ThreadRow /\ Onboard!Idle.pc = "idle"
<1>1. Onboard!Empty \in Answers
  BY DEF Onboard!Empty, Answers
<1> QED
  BY <1>1 DEF Onboard!OnboardingAssumption, Onboard!Idle, ThreadRow, ThreadPc, Onboard!Fields

LEMMA RowBecomes ==
    ASSUME ThreadsTyped, NEW t \in Threads, NEW row \in ThreadRow,
           threads' = [threads EXCEPT ![t] = row]
    PROVE Becomes(t, row)
  BY DEF ThreadsTyped, Becomes

LEMMA DoneBecomes ==
    ASSUME Onboard!OnboardingAssumption, ThreadsTyped, NEW t \in Threads, Onboard!Done(t)
    PROVE Becomes(t, Onboard!Idle)
  BY IdleTyped, RowBecomes DEF Onboard!Done

LEMMA GoBecomes ==
    ASSUME ThreadsTyped, NEW t \in Threads, NEW pc \in ThreadPc, Onboard!Go(t, pc)
    PROVE /\ Becomes(t, threads'[t]) /\ threads'[t].pc = pc
          /\ threads'[t].got = threads[t].got /\ threads'[t].key = threads[t].key
          /\ threads'[t].prior = threads[t].prior
<1>1. PICK row : row = [threads[t] EXCEPT !.pc = pc]
  OBVIOUS
<1>2. /\ row \in ThreadRow /\ row.pc = pc /\ row.got = threads[t].got
      /\ row.key = threads[t].key /\ row.prior = threads[t].prior
  BY <1>1 DEF ThreadsTyped, ThreadRow
<1>3. threads' = [threads EXCEPT ![t] = row]
  BY <1>1 DEF Onboard!Go
<1>4. Becomes(t, row)
  BY <1>2, <1>3, RowBecomes
<1> QED  BY <1>2, <1>4 DEF Becomes

\* The rows of goals keep who started them and for which revision.
KeepsOrigins ==
    /\ goals' \in Seq(GoalRow)
    /\ \A g \in 1..Len(goals) : goals'[g].by = goals[g].by /\ goals'[g].of = goals[g].of

LEMMA EndedGoals ==
    ASSUME TablesTyped, NEW ended, ended = [g \in DOMAIN goals |-> [goals[g] EXCEPT !.live = FALSE]]
    PROVE /\ ended \in Seq(GoalRow) /\ Len(ended) = Len(goals)
          /\ \A g \in 1..Len(goals) : ended[g].by = goals[g].by /\ ended[g].of = goals[g].of
<1>1. goals \in Seq(GoalRow) /\ DOMAIN goals = 1..Len(goals) /\ Len(goals) \in Nat
  BY DEF TablesTyped
<1>2. ASSUME NEW g \in 1..Len(goals)
      PROVE /\ ended[g] \in GoalRow
            /\ ended[g].by = goals[g].by /\ ended[g].of = goals[g].of
  <2>1. goals[g] \in GoalRow
    BY <1>1
  <2>2. ended[g] = [goals[g] EXCEPT !.live = FALSE]
    BY <1>1
  <2>3. PICK row : row = goals[g]
    OBVIOUS
  <2>4. [row EXCEPT !.live = FALSE] \in GoalRow
        /\ [row EXCEPT !.live = FALSE].by = row.by /\ [row EXCEPT !.live = FALSE].of = row.of
    BY <2>1, <2>3, ZenonT(40) DEF GoalRow
  <2> QED  BY <2>2, <2>3, <2>4
<1>3. ended \in [1..Len(goals) -> GoalRow]
  BY <1>1, <1>2
<1>4. ended \in Seq(GoalRow) /\ Len(ended) = Len(goals)
  BY <1>1, <1>3
<1> QED  BY <1>2, <1>4

LEMMA CreateKeeps ==
    ASSUME TablesTyped, NEW t \in Threads, threads[t].key \in 0..MaxRevisions,
           NEW by \in {"auto", "person"}, MaxGoals \in Nat, Onboard!Create(t, by)
    PROVE /\ KeepsOrigins /\ Len(goals') = Len(goals) + 1 /\ Len(goals') <= MaxGoals
          /\ goals'[Len(goals) + 1].by = by /\ goals'[Len(goals) + 1].of = threads[t].key
<1>1. PICK ended : ended = [g \in DOMAIN goals |-> [goals[g] EXCEPT !.live = FALSE]]
  OBVIOUS
<1>2. /\ ended \in Seq(GoalRow) /\ Len(ended) = Len(goals)
      /\ \A g \in 1..Len(goals) : ended[g].by = goals[g].by /\ ended[g].of = goals[g].of
  BY <1>1, EndedGoals, Zenon
<1>3. PICK row \in GoalRow : row = [by |-> by, of |-> threads[t].key, live |-> TRUE]
  BY DEF GoalRow
<1>4. goals' = Append(ended, row) /\ Len(goals) < MaxGoals
  BY <1>1, <1>3 DEF Onboard!Create
<1>5. /\ goals' \in Seq(GoalRow) /\ Len(goals') = Len(goals) + 1
      /\ goals'[Len(goals) + 1] = row
      /\ \A g \in 1..Len(goals) : goals'[g] = ended[g]
  BY <1>2, <1>4
<1>6. Len(goals') <= MaxGoals
  BY <1>2, <1>4, <1>5
<1> QED  BY <1>2, <1>3, <1>5, <1>6 DEF KeepsOrigins

LEMMA EndKeeps ==
    ASSUME TablesTyped, Onboard!GoalEnds
    PROVE KeepsOrigins /\ Len(goals') = Len(goals)
<1>1. goals \in Seq(GoalRow) /\ DOMAIN goals = 1..Len(goals) /\ Len(goals) \in Nat
  BY DEF TablesTyped
<1>2. PICK g \in DOMAIN goals : goals' = [goals EXCEPT ![g].live = FALSE]
  BY DEF Onboard!GoalEnds, Onboard!Active
<1>3. PICK row : row = [goals[g] EXCEPT !.live = FALSE]
  OBVIOUS
<1>4. goals[g] \in GoalRow
  BY <1>1
<1>5. row \in GoalRow /\ row.by = goals[g].by /\ row.of = goals[g].of
  BY <1>3, <1>4 DEF GoalRow
<1>6. goals' = [goals EXCEPT ![g] = row]
  BY <1>2, <1>3
<1>7. goals' \in [1..Len(goals) -> GoalRow]
  BY <1>1, <1>5, <1>6
<1>8. goals' \in Seq(GoalRow) /\ Len(goals') = Len(goals)
  BY <1>1, <1>7
<1> QED  BY <1>1, <1>5, <1>6, <1>8 DEF KeepsOrigins

\* What a thread has read still holds: a verified identity is whole and stays so, a
\* resume that had a route keeps one.
Answering(row) ==
    /\ row.pc = "verify" => Onboard!Complete(row.got)
    /\ row.pc \in {"prefer", "routes"} => row.at = 1
    /\ row.pc \in {"routes", "route"} => Onboard!Complete(identity)
    /\ row.pc = "route" =>
         /\ \A r \in row.known : routes[r] # "none"
         /\ \A i \in DOMAIN Resumes : i < row.at => routes[Resumes[i]] # "none"

\* No goal after g was started by revision n itself.
Last(g, n) ==
    /\ g \in 1..Len(goals)
    /\ \A h \in 1..Len(goals) : h > g /\ goals[h].by = "auto" => goals[h].of # n

\* The thread inside the auto-start holds its lock; what it read of started holds, and
\* the goal it created is the last its revision started.
Holding(t, row) ==
    /\ row.pc \in Locked => lock = t /\ row.key \in 1..MaxRevisions
    /\ row.pc = "active" => row.prior = started[row.key]
    /\ row.pc \in Locked \ {"active"} => started[row.key] = 0
    /\ row.pc \in {"mark", "record"} => Last(row.prior, row.key)

NoSecond ==
    \A g, h \in 1..Len(goals) :
        g < h /\ goals[g].by = "auto" /\ goals[h].by = "auto" /\ goals[h].of = goals[g].of
        => started[goals[g].of] # g
Whole ==
    /\ identity = Onboard!Empty \/ Onboard!Complete(identity)
    /\ revision > 0 => Onboard!Complete(identity) /\ \A r \in Onboard!Routed : routes[r] # "none"
    /\ \A q, r \in Onboard!Routed : routes[q] = "default" /\ routes[r] = "default" => q = r

SetUpInv ==
    /\ SetUpTyped /\ Whole /\ NoSecond
    /\ \A t \in Threads : Answering(threads[t]) /\ Holding(t, threads[t])

\* What the other threads rely on.
RoutesKept ==
    /\ Onboard!Complete(identity) => Onboard!Complete(identity)'
    /\ \A r \in Onboard!Routed : routes[r] # "none" => routes'[r] # "none"
StartsKept ==
    /\ UNCHANGED <<lock, started>> /\ KeepsOrigins
    /\ Len(goals) <= Len(goals')
    /\ \A h \in 1..Len(goals') : h > Len(goals) => goals'[h].by # "auto"

LEMMA OtherAnswers ==
    ASSUME NEW row \in ThreadRow, Onboard!OnboardingAssumption, Answering(row), RoutesKept
    PROVE Answering(row)'
<1>1. \A i \in DOMAIN Resumes : Resumes[i] \in Onboard!Routed
  BY DEF Onboard!Routed
<1> QED  BY <1>1 DEF Answering, RoutesKept, ThreadRow, Onboard!Complete

LEMMA OtherHolds ==
    ASSUME NEW u \in Threads, NEW row \in ThreadRow, TablesTyped, Holding(u, row),
           row.pc \in Locked => StartsKept
    PROVE Holding(u, row)'
<1>1. CASE row.pc \notin Locked
  BY <1>1 DEF Holding, Locked
<1>2. CASE row.pc \in Locked
  <2>1. ASSUME NEW g, NEW n, Last(g, n) PROVE Last(g, n)'
    <3>1. Len(goals) \in Nat /\ Len(goals') \in Nat
      BY <1>2 DEF TablesTyped, StartsKept, KeepsOrigins
    <3>2. g \in 1..Len(goals')
      BY <1>2, <2>1, <3>1 DEF Last, StartsKept
    <3>3. ASSUME NEW h \in 1..Len(goals'), h > g, goals'[h].by = "auto" PROVE goals'[h].of # n
      <4>1. h \in 1..Len(goals)
        BY <1>2, <3>1, <3>3 DEF StartsKept
      <4> QED  BY <1>2, <2>1, <3>3, <4>1 DEF StartsKept, KeepsOrigins, Last
    <3> QED  BY <3>2, <3>3 DEF Last
  <2>2. lock' = lock /\ started' = started
    BY <1>2 DEF StartsKept
  <2>3. row.pc \in {"mark", "record"} => Last(row.prior, row.key)'
    <3>1. PICK g, n : g = row.prior /\ n = row.key
      OBVIOUS
    <3>2. row.pc \in {"mark", "record"} => Last(g, n)'
      BY <2>1, <3>1 DEF Holding
    <3> QED  BY <3>1, <3>2 DEF Last
  <2> QED  BY <2>2, <2>3 DEF Holding
<1> QED  BY <1>1, <1>2

\* Nothing a table holds changes: what is left to show of a step.
LEMMA ThreadMoves ==
    ASSUME Onboard!OnboardingAssumption, SetUpInv, NEW t \in Threads, NEW row,
           Becomes(t, row), Stays,
           lock' = lock \/ (lock \in {0, t} /\ lock' \in {0, t}),
           Answering(row)', Holding(t, row)'
    PROVE SetUpInv'
<1>1. SetUpTyped' /\ Whole' /\ NoSecond'
  BY DEF SetUpInv, SetUpTyped, TablesTyped, Whole, NoSecond, Becomes, Stays,
         Onboard!Complete
<1>2. ASSUME NEW u \in Threads PROVE Answering(threads[u])' /\ Holding(u, threads[u])'
  <2>1. CASE u = t
    BY <2>1 DEF Becomes, Answering, Holding, Last
  <2>2. CASE u # t
    <3>1. PICK x \in ThreadRow : x = threads[u]
      BY DEF SetUpInv, SetUpTyped, ThreadsTyped
    <3>2. x = threads'[u]
      BY <2>2, <3>1 DEF Becomes
    <3>3. RoutesKept
      BY DEF RoutesKept, Stays, Onboard!Complete
    <3>4. x.pc \in Locked => lock = u
      BY <3>1 DEF SetUpInv, Holding
    <3>5. lock' = lock => StartsKept
      BY DEF StartsKept, KeepsOrigins, Stays, SetUpInv, SetUpTyped, TablesTyped
    <3>6. x.pc \in Locked => StartsKept
      BY <2>2, <3>4, <3>5 DEF Onboard!OnboardingAssumption
    <3>7. Answering(x)' /\ Holding(u, x)'
      BY <3>1, <3>3, <3>6, OtherAnswers, OtherHolds DEF SetUpInv, SetUpTyped
    <3> QED  BY <3>2, <3>7 DEF Answering, Holding, Last
  <2> QED  BY <2>1, <2>2
<1> QED  BY <1>1, <1>2 DEF SetUpInv

LEMMA PlainMoves ==
    ASSUME Onboard!OnboardingAssumption, SetUpInv, NEW t \in Threads, NEW row,
           Becomes(t, row), Stays,
           lock' = lock \/ (lock \in {0, t} /\ lock' \in {0, t}),
           row.pc \notin {"verify", "prefer", "routes", "route"} \cup Locked
    PROVE SetUpInv'
<1>1. Answering(row)' /\ Holding(t, row)'
  BY DEF Answering, Holding, Locked
<1> QED  BY <1>1, ThreadMoves

LEMMA DoneMoves ==
    ASSUME Onboard!OnboardingAssumption, SetUpInv, NEW t \in Threads, Onboard!Done(t),
           Stays, lock' = lock \/ (lock \in {0, t} /\ lock' \in {0, t})
    PROVE SetUpInv'
<1>1. Becomes(t, Onboard!Idle)
  BY DoneBecomes DEF SetUpInv, SetUpTyped
<1>2. Onboard!Idle.pc \notin {"verify", "prefer", "routes", "route"} \cup Locked
  BY IdleTyped DEF Locked
<1> QED  BY <1>1, <1>2, PlainMoves

LEMMA GoMoves ==
    ASSUME Onboard!OnboardingAssumption, SetUpInv, NEW t \in Threads,
           NEW pc \in ThreadPc \ ({"verify", "prefer", "routes", "route"} \cup Locked),
           Onboard!Go(t, pc), Stays, lock' = lock
    PROVE SetUpInv'
<1>1. Becomes(t, threads'[t]) /\ threads'[t].pc = pc
  BY GoBecomes DEF SetUpInv, SetUpTyped
<1>2. PICK row : row = threads'[t]
  OBVIOUS
<1>3. Becomes(t, row) /\ row.pc = pc
  BY <1>1, <1>2
<1>4. row.pc \notin {"verify", "prefer", "routes", "route"} \cup Locked
  BY <1>3
<1> QED  BY <1>3, <1>4, PlainMoves

LEMMA InvParts ==
    ASSUME SetUpInv, NEW t \in Threads
    PROVE /\ TablesTyped /\ ThreadsTyped /\ Whole /\ NoSecond /\ lock \in Threads \cup {0}
          /\ threads[t] \in ThreadRow /\ Answering(threads[t]) /\ Holding(t, threads[t])
  BY DEF SetUpInv, SetUpTyped, ThreadsTyped

LEMMA RequestSteps ==
    ASSUME Onboard!OnboardingAssumption, SetUpInv, NEW t \in Threads,
           Onboard!Receive(t) \/ Onboard!CorrectionOpen(t) \/ Onboard!CheckBlocker(t)
           \/ Onboard!CollectAnswers(t) \/ Onboard!PreferencesOpen(t)
    PROVE SetUpInv'
<1>0. /\ TablesTyped /\ ThreadsTyped /\ Whole
      /\ threads[t] \in ThreadRow /\ Answering(threads[t]) /\ Holding(t, threads[t])
  BY InvParts
<1>1. CASE Onboard!Receive(t)
  <2>1. PICK kind \in {"correct", "prefer", "auto", "person"}, f \in Onboard!Fields, v \in AnswerValues :
          threads' = [threads EXCEPT ![t] = [Onboard!Idle EXCEPT !.pc = kind, !.field = f,
                                                                   !.value = v]]
    BY <1>1 DEF Onboard!Receive
  <2>2. PICK row : row = [Onboard!Idle EXCEPT !.pc = kind, !.field = f, !.value = v]
    OBVIOUS
  <2>3. row \in ThreadRow /\ row.pc = kind /\ row.at = 1
    BY <2>2, IdleTyped DEF ThreadRow, ThreadPc, Onboard!Idle
  <2>4. Becomes(t, row)
    BY <1>0, <2>1, <2>2, <2>3, RowBecomes
  <2>5. Answering(row)' /\ Holding(t, row)'
    BY <2>3 DEF Answering, Holding, Locked
  <2>6. Stays /\ lock' = lock
    BY <1>1 DEF Onboard!Receive, Onboard!tables, Stays
  <2> QED  BY <2>4, <2>5, <2>6, ThreadMoves
<1>2. CASE Onboard!CorrectionOpen(t)
  <2>1. Stays /\ lock' = lock
    BY <1>2 DEF Onboard!CorrectionOpen, Onboard!tables, Stays
  <2>2. "blocker" \in ThreadPc \ ({"verify", "prefer", "routes", "route"} \cup Locked)
    BY DEF ThreadPc, Locked
  <2> QED  BY <1>2, <2>1, <2>2, GoMoves, DoneMoves DEF Onboard!CorrectionOpen
<1>3. CASE Onboard!CheckBlocker(t)
  <2>1. Stays /\ lock' = lock
    BY <1>3 DEF Onboard!CheckBlocker, Onboard!tables, Stays
  <2>2. "save answer" \in ThreadPc \ ({"verify", "prefer", "routes", "route"} \cup Locked)
    BY DEF ThreadPc, Locked
  <2> QED  BY <1>3, <2>1, <2>2, GoMoves, DoneMoves DEF Onboard!CheckBlocker
<1>4. CASE Onboard!CollectAnswers(t)
  <2>0. Stays /\ lock' = lock
    BY <1>4 DEF Onboard!CollectAnswers, Onboard!tables, Stays
  <2>1. ASSUME Onboard!Complete(answers),
               threads' = [threads EXCEPT ![t].pc = "verify", ![t].got = answers]
        PROVE SetUpInv'
    <3>1. PICK row : row = [threads[t] EXCEPT !.pc = "verify", !.got = answers]
      OBVIOUS
    <3>2. row \in ThreadRow /\ row.pc = "verify" /\ row.got = answers
      BY <1>0, <3>1 DEF TablesTyped, ThreadRow, ThreadPc
    <3>3. threads' = [threads EXCEPT ![t] = row]
      BY <1>0, <2>1, <3>1 DEF ThreadsTyped
    <3>4. Becomes(t, row)
      BY <1>0, <3>2, <3>3, RowBecomes
    <3>5. Answering(row)' /\ Holding(t, row)'
      BY <2>1, <3>2 DEF Answering, Holding, Locked, Onboard!Complete
    <3> QED  BY <2>0, <3>4, <3>5, ThreadMoves
  <2> QED  BY <1>4, <2>0, <2>1, DoneMoves DEF Onboard!CollectAnswers
<1>5. CASE Onboard!PreferencesOpen(t)
  <2>0. Stays /\ lock' = lock
    BY <1>5 DEF Onboard!PreferencesOpen, Onboard!tables, Stays
  <2>1. ASSUME Onboard!Verified, Onboard!Go(t, "routes") PROVE SetUpInv'
    <3>1. /\ Becomes(t, threads'[t]) /\ threads'[t].pc = "routes"
      BY <1>0, <2>1, GoBecomes DEF ThreadPc
    <3>2. threads'[t].at = 1
      BY <1>0, <1>5, <2>1 DEF Onboard!Go, Onboard!PreferencesOpen, Answering, ThreadsTyped, ThreadRow
    <3>3. PICK row : row = threads'[t]
      OBVIOUS
    <3>4. Onboard!Complete(identity)'
      BY <1>0, <2>0, <2>1 DEF Whole, Onboard!Verified, Stays, Onboard!Complete
    <3>5. Answering(row)' /\ Holding(t, row)'
      BY <3>1, <3>2, <3>3, <3>4 DEF Answering, Holding, Locked
    <3>6. Becomes(t, row)
      BY <3>1, <3>3
    <3> QED  BY <2>0, <3>5, <3>6, ThreadMoves
  <2> QED  BY <1>5, <2>0, <2>1, DoneMoves DEF Onboard!PreferencesOpen
<1> QED  BY <1>1, <1>2, <1>3, <1>4, <1>5

\* A step that writes a table: what is left to show when the others may rely on it.
LEMMA TableMoves ==
    ASSUME Onboard!OnboardingAssumption, SetUpInv, NEW t \in Threads, NEW row,
           Becomes(t, row), TablesTyped', lock' \in Threads \cup {0}, Whole', NoSecond',
           RoutesKept, lock # t => StartsKept, Answering(row)', Holding(t, row)'
    PROVE SetUpInv'
<1>1. ASSUME NEW u \in Threads PROVE Answering(threads[u])' /\ Holding(u, threads[u])'
  <2>1. CASE u = t
    BY <2>1 DEF Becomes, Answering, Holding, Last
  <2>2. CASE u # t
    <3>1. PICK x \in ThreadRow : x = threads[u]
      BY DEF SetUpInv, SetUpTyped, ThreadsTyped
    <3>2. x = threads'[u]
      BY <2>2, <3>1 DEF Becomes
    <3>3. x.pc \in Locked => StartsKept
      BY <2>2, <3>1 DEF SetUpInv, Holding
    <3>4. Answering(x)' /\ Holding(u, x)'
      BY <3>1, <3>3, OtherAnswers, OtherHolds DEF SetUpInv, SetUpTyped
    <3> QED  BY <3>2, <3>4 DEF Answering, Holding, Last
  <2> QED  BY <2>1, <2>2
<1> QED  BY <1>1 DEF SetUpInv, SetUpTyped, Becomes

\* A thread that only goes on to another point of its work.
LEMMA GoneOn ==
    ASSUME SetUpInv, NEW t \in Threads, NEW pc \in ThreadPc, Onboard!Go(t, pc)
    PROVE \E row \in ThreadRow :
             /\ Becomes(t, row) /\ row.pc = pc /\ row.got = threads[t].got
             /\ row.key = threads[t].key /\ row.prior = threads[t].prior
<1>1. PICK row : row = threads'[t]
  OBVIOUS
<1>2. /\ Becomes(t, row) /\ row.pc = pc /\ row.got = threads[t].got
      /\ row.key = threads[t].key /\ row.prior = threads[t].prior
  BY <1>1, GoBecomes DEF SetUpInv, SetUpTyped
<1>3. row \in ThreadRow
  BY <1>2 DEF Becomes, ThreadsTyped
<1> QED  BY <1>2, <1>3

LEMMA IdentitySteps ==
    ASSUME Onboard!OnboardingAssumption, SetUpInv, NEW t \in Threads,
           Onboard!SaveAnswer(t) \/ Onboard!SaveIdentity(t) \/ Onboard!ClearAnswers(t)
    PROVE SetUpInv'
<1>0. /\ TablesTyped /\ ThreadsTyped /\ Whole /\ NoSecond /\ lock \in Threads \cup {0}
      /\ threads[t] \in ThreadRow /\ Answering(threads[t]) /\ Holding(t, threads[t])
  BY InvParts
<1>u. UNCHANGED <<goals, started, lock>>
  BY DEF Onboard!SaveAnswer, Onboard!SaveIdentity, Onboard!ClearAnswers
<1>1. StartsKept
  BY <1>0, <1>u DEF StartsKept, KeepsOrigins, TablesTyped
<1>2. NoSecond' /\ lock' \in Threads \cup {0}
  BY <1>0, <1>u DEF NoSecond
<1>3. CASE Onboard!SaveAnswer(t) \/ Onboard!ClearAnswers(t)
  <2>1. TablesTyped'
    <3>1. Onboard!Empty \in Answers
      BY DEF Onboard!Empty, Answers
    <3>2. threads[t].field \in Onboard!Fields /\ threads[t].value \in AnswerValues \cup {"none"}
      BY <1>0 DEF ThreadRow
    <3>3. answers' \in Answers
      BY <1>0, <1>3, <3>1, <3>2 DEF TablesTyped, Onboard!SaveAnswer, Onboard!ClearAnswers, Answers
    <3> QED  BY <1>0, <1>3, <3>3 DEF TablesTyped, Onboard!SaveAnswer, Onboard!ClearAnswers
  <2>2. Whole' /\ RoutesKept
    BY <1>0, <1>3 DEF Whole, RoutesKept, Onboard!Complete, Onboard!SaveAnswer,
                      Onboard!ClearAnswers
  <2>3. PICK row : Becomes(t, row) /\ row.pc \in {"collect", "idle"}
    <3>1. CASE Onboard!SaveAnswer(t)
      <4>1. "collect" \in ThreadPc /\ Onboard!Go(t, "collect")
        BY <3>1 DEF Onboard!SaveAnswer, ThreadPc
      <4>2. \E row \in ThreadRow : Becomes(t, row) /\ row.pc = "collect"
        BY <4>1, GoneOn
      <4> QED  BY <4>2
    <3>2. CASE Onboard!ClearAnswers(t)
      BY <1>0, <3>2, DoneBecomes, IdleTyped DEF Onboard!ClearAnswers
    <3> QED  BY <1>3, <3>1, <3>2
  <2>4. Answering(row)' /\ Holding(t, row)'
    BY <2>3 DEF Answering, Holding, Locked
  <2> QED  BY <1>1, <1>2, <2>1, <2>2, <2>3, <2>4, TableMoves
<1>4. CASE Onboard!SaveIdentity(t)
  <2>1. Onboard!Complete(threads[t].got) /\ threads[t].got \in Answers
    BY <1>0, <1>4 DEF Answering, Onboard!SaveIdentity, ThreadRow
  <2>2. Onboard!Complete(identity)' /\ TablesTyped'
    BY <1>0, <1>4, <2>1 DEF TablesTyped, Onboard!SaveIdentity, Onboard!Complete
  <2>3. Whole' /\ RoutesKept
    BY <1>0, <1>4, <2>2 DEF Whole, RoutesKept, Onboard!SaveIdentity, Onboard!Complete
  <2>4. PICK row : Becomes(t, row) /\ row.pc = "clear"
    <3>1. "clear" \in ThreadPc /\ Onboard!Go(t, "clear")
      BY <1>4 DEF Onboard!SaveIdentity, ThreadPc
    <3> QED  BY <3>1, GoneOn
  <2>5. Answering(row)' /\ Holding(t, row)'
    BY <2>4 DEF Answering, Holding, Locked
  <2> QED  BY <1>1, <1>2, <2>2, <2>3, <2>4, <2>5, TableMoves
<1> QED  BY <1>3, <1>4

\* A resume that has a route keeps one when another is routed, and there is one default.
LEMMA RouteKept ==
    ASSUME TablesTyped, Whole, NEW r \in Onboard!Routed, NEW default \in BOOLEAN,
           routes' = IF default
                     THEN [q \in DOMAIN routes |-> IF q = r THEN "default"
                                                   ELSE Onboard!Plain(routes[q])]
                     ELSE [routes EXCEPT ![r] = "plain"]
    PROVE /\ routes' \in [Onboard!Routed -> RouteState] /\ routes'[r] # "none"
          /\ \A q \in Onboard!Routed : routes[q] # "none" => routes'[q] # "none"
          /\ \A p, q \in Onboard!Routed : routes'[p] = "default" /\ routes'[q] = "default" => p = q
<1>1. routes \in [Onboard!Routed -> {"none", "plain", "default"}]
  BY DEF TablesTyped, RouteState
<1>2. CASE default
  <2>1. routes' = [q \in Onboard!Routed |-> IF q = r THEN "default" ELSE Onboard!Plain(routes[q])]
    BY <1>1, <1>2
  <2> QED  BY <1>1, <2>1 DEF Onboard!Plain, RouteState
<1>3. CASE ~default
  <2>1. routes' = [routes EXCEPT ![r] = "plain"]
    BY <1>3
  <2> QED  BY <1>1, <2>1 DEF Whole, RouteState
<1> QED  BY <1>2, <1>3

LEMMA PreferenceSteps ==
    ASSUME Onboard!OnboardingAssumption, SetUpInv, NEW t \in Threads,
           Onboard!ReadRoutes(t) \/ Onboard!EnsureRoute(t) \/ Onboard!SavePreferences(t)
    PROVE SetUpInv'
<1>0. /\ TablesTyped /\ ThreadsTyped /\ Whole /\ NoSecond /\ lock \in Threads \cup {0}
      /\ threads[t] \in ThreadRow /\ Answering(threads[t]) /\ Holding(t, threads[t])
  BY InvParts
<1>1. CASE Onboard!ReadRoutes(t)
  <2>1. Stays /\ lock' = lock
    BY <1>1 DEF Onboard!ReadRoutes, Onboard!tables, Stays
  <2>2. PICK routed, default :
           /\ routed = {r \in DOMAIN routes : routes[r] # "none"}
           /\ default = \E r \in DOMAIN routes : routes[r] = "default"
    OBVIOUS
  <2>3. PICK row : row = [threads[t] EXCEPT !.pc = "route", !.known = routed, !.default = default]
    OBVIOUS
  <2>4. routed \in SUBSET Onboard!Routed /\ default \in BOOLEAN
    BY <1>0, <2>2 DEF TablesTyped
  <2>5. row \in ThreadRow /\ row.pc = "route" /\ row.known = routed /\ row.at = threads[t].at
    BY <1>0, <2>3, <2>4 DEF ThreadRow, ThreadPc
  <2>6. threads' = [threads EXCEPT ![t] = row]
    BY <1>1, <2>2, <2>3, Zenon DEF Onboard!ReadRoutes
  <2>7. Becomes(t, row)
    BY <1>0, <2>5, <2>6, RowBecomes
  <2>8. threads[t].at = 1 /\ Onboard!Complete(identity)
    BY <1>0, <1>1 DEF Answering, Onboard!ReadRoutes
  <2>9. \A i \in DOMAIN Resumes : i \in Nat \ {0}
    BY DEF Onboard!OnboardingAssumption
  <2>10. Answering(row)' /\ Holding(t, row)'
    BY <2>1, <2>2, <2>5, <2>8, <2>9 DEF Answering, Holding, Locked, Stays, Onboard!Complete
  <2> QED  BY <2>1, <2>7, <2>10, ThreadMoves
<1>3. CASE Onboard!SavePreferences(t)
  <2>1. Onboard!Complete(identity) /\ \A r \in Onboard!Routed : routes[r] # "none"
    <3>1. /\ threads[t].at \in Nat /\ threads[t].at > Len(Resumes)
          /\ DOMAIN Resumes = 1..Len(Resumes) /\ Len(Resumes) \in Nat
      BY <1>0, <1>3 DEF Onboard!SavePreferences, ThreadRow, Onboard!OnboardingAssumption
    <3>2. \A i \in DOMAIN Resumes : i < threads[t].at
      BY <3>1
    <3> QED  BY <1>0, <1>3, <3>2 DEF Onboard!SavePreferences, Answering, Onboard!Routed
  <2>2. Whole' /\ RoutesKept
    BY <1>0, <1>3, <2>1 DEF Whole, RoutesKept, Onboard!Complete, Onboard!SavePreferences
  <2>3. TablesTyped'
    BY <1>0, <1>3 DEF TablesTyped, Onboard!SavePreferences, Onboard!OnboardingAssumption
  <2>4. StartsKept /\ NoSecond' /\ lock' \in Threads \cup {0}
    BY <1>0, <1>3, SMTT(20) DEF StartsKept, KeepsOrigins, TablesTyped, NoSecond, Onboard!SavePreferences
  <2>5. Becomes(t, Onboard!Idle)
    BY <1>0, <1>3, DoneBecomes DEF Onboard!SavePreferences
  <2>6. Answering(Onboard!Idle)' /\ Holding(t, Onboard!Idle)'
    BY IdleTyped DEF Answering, Holding, Locked, Onboard!Idle
  <2> QED  BY <2>2, <2>3, <2>4, <2>5, <2>6, TableMoves
<1>2. CASE Onboard!EnsureRoute(t)
  <2>1. PICK r, default : r = Resumes[threads[t].at] /\ default = (r = Preferred /\ ~threads[t].default)
    OBVIOUS
  <2>2. /\ threads[t].pc = "route" /\ threads[t].at \in DOMAIN Resumes /\ r \in Onboard!Routed
        /\ default \in BOOLEAN /\ DOMAIN Resumes \subseteq Nat /\ threads[t].at \in Nat \ {0}
    BY <1>0, <1>2, <2>1 DEF Onboard!EnsureRoute, ThreadRow, Onboard!OnboardingAssumption,
                            Onboard!Routed
  <2>3. /\ UNCHANGED <<sound, answers, identity, revision, goals, started, lock>>
    BY <1>2 DEF Onboard!EnsureRoute
  <2>4. ASSUME UNCHANGED routes PROVE Stays /\ lock' = lock
    BY <2>3, <2>4 DEF Stays
  <2>5. ASSUME NEW row \in ThreadRow, row.pc = "route", row.at = threads[t].at + 1,
               row.known = threads[t].known, RoutesKept, routes'[r] # "none"
        PROVE Answering(row)' /\ Holding(t, row)'
    <3>1. Onboard!Complete(identity) /\ Onboard!Complete(identity)'
      BY <1>0, <2>2, <2>5 DEF Answering, RoutesKept
    <3>2. \A q \in row.known : routes'[q] # "none"
      BY <1>0, <2>2, <2>5 DEF Answering, RoutesKept, ThreadRow
    <3>3. ASSUME NEW i \in DOMAIN Resumes, i < row.at PROVE routes'[Resumes[i]] # "none"
      <4>1. i < threads[t].at \/ i = threads[t].at
        BY <2>2, <2>5, <3>3
      <4>2. Resumes[i] \in Onboard!Routed
        BY DEF Onboard!Routed
      <4> QED  BY <1>0, <2>1, <2>2, <2>5, <4>1, <4>2 DEF Answering, RoutesKept
    <3> QED  BY <2>5, <3>1, <3>2, <3>3 DEF Answering, Holding, Locked
  <2>6. CASE r \in threads[t].known
    <3>1. UNCHANGED routes /\ threads' = [threads EXCEPT ![t].at = @ + 1]
      BY <1>2, <2>1, <2>6 DEF Onboard!EnsureRoute
    <3>2. PICK row : row = [threads[t] EXCEPT !.at = @ + 1]
      OBVIOUS
    <3>3. /\ row \in ThreadRow /\ row.pc = "route" /\ row.at = threads[t].at + 1
          /\ row.known = threads[t].known
      BY <1>0, <2>2, <3>2 DEF ThreadRow
    <3>4. threads' = [threads EXCEPT ![t] = row]
      BY <3>1, <3>2
    <3>5. Becomes(t, row)
      BY <1>0, <3>3, <3>4, RowBecomes
    <3>6. RoutesKept /\ routes'[r] # "none"
      BY <1>0, <2>2, <2>3, <2>6, <3>1 DEF RoutesKept, Onboard!Complete, Answering
    <3> QED  BY <2>4, <2>5, <3>1, <3>3, <3>5, <3>6, ThreadMoves
  <2>7. CASE r \notin threads[t].known /\ ~sound
    BY <1>2, <2>1, <2>4, <2>7, DoneMoves DEF Onboard!EnsureRoute
  <2>8. CASE r \notin threads[t].known /\ sound
    <3>1. /\ threads' = [threads EXCEPT ![t].at = @ + 1, ![t].default = @ \/ default]
          /\ routes' = IF default
                       THEN [q \in DOMAIN routes |-> IF q = r THEN "default"
                                                     ELSE Onboard!Plain(routes[q])]
                       ELSE [routes EXCEPT ![r] = "plain"]
      BY <1>2, <2>1, <2>8, Zenon DEF Onboard!EnsureRoute
    <3>2. /\ routes' \in [Onboard!Routed -> RouteState] /\ routes'[r] # "none"
          /\ \A q \in Onboard!Routed : routes[q] # "none" => routes'[q] # "none"
          /\ \A p, q \in Onboard!Routed :
               routes'[p] = "default" /\ routes'[q] = "default" => p = q
      BY <1>0, <2>2, <3>1, RouteKept
    <3>3. PICK row : row = [threads[t] EXCEPT !.at = @ + 1, !.default = @ \/ default]
      OBVIOUS
    <3>a. PICK at, usual : at = threads[t].at + 1 /\ usual = (threads[t].default \/ default)
      OBVIOUS
    <3>b. threads' = [threads EXCEPT ![t].at = at, ![t].default = usual]
      BY <3>1, <3>a, Zenon
    <3>c. row = [threads[t] EXCEPT !.at = at, !.default = usual]
      BY <3>3, <3>a, Zenon
    <3>d. at \in Nat \ {0} /\ at = threads[t].at + 1
      BY <2>2, <3>a
    <3>e. threads[t].default \in BOOLEAN
      BY <1>0 DEF ThreadRow
    <3>f. usual \in BOOLEAN
      BY <2>2, <3>a, <3>e
    <3>4. /\ row \in ThreadRow /\ row.pc = "route" /\ row.at = threads[t].at + 1
          /\ row.known = threads[t].known
      BY <1>0, <2>2, <3>c, <3>d, <3>f DEF ThreadRow
    <3>5. threads' = [threads EXCEPT ![t] = row]
      BY <3>b, <3>c, Zenon
    <3>6. Becomes(t, row)
      BY <1>0, <3>4, <3>5, RowBecomes
    <3>7. TablesTyped' /\ Whole' /\ RoutesKept
      BY <1>0, <2>3, <3>2 DEF TablesTyped, Whole, RoutesKept, Onboard!Complete
    <3>8. StartsKept /\ NoSecond' /\ lock' \in Threads \cup {0}
      BY <1>0, <2>3 DEF StartsKept, KeepsOrigins, TablesTyped, NoSecond
    <3> QED  BY <2>5, <3>2, <3>4, <3>6, <3>7, <3>8, TableMoves
  <2> QED  BY <2>6, <2>7, <2>8
<1> QED  BY <1>1, <1>2, <1>3

LEMMA AutoStartSteps ==
    ASSUME Onboard!OnboardingAssumption, SetUpInv, NEW t \in Threads,
           Onboard!AutoStart(t) \/ Onboard!NothingActive(t) \/ Onboard!MarkOpen(t)
    PROVE SetUpInv'
<1>0. /\ TablesTyped /\ ThreadsTyped /\ Whole /\ NoSecond /\ lock \in Threads \cup {0}
      /\ threads[t] \in ThreadRow /\ Answering(threads[t]) /\ Holding(t, threads[t])
  BY InvParts
<1>1. Stays
  BY DEF Onboard!AutoStart, Onboard!NothingActive, Onboard!MarkOpen, Onboard!tables, Stays
<1>2. CASE Onboard!AutoStart(t)
  <2>1. ASSUME revision > 0, lock' = t,
               threads' = [threads EXCEPT ![t].pc = "active", ![t].key = revision,
                                          ![t].prior = started[revision]]
        PROVE SetUpInv'
    <3>1. revision \in 1..MaxRevisions /\ started[revision] \in 0..MaxGoals
      BY <1>0, <2>1 DEF TablesTyped, Onboard!OnboardingAssumption
    <3>2. PICK row : row = [threads[t] EXCEPT !.pc = "active", !.key = revision,
                                              !.prior = started[revision]]
      OBVIOUS
    <3>a. PICK n, g : n = revision /\ g = started[revision]
      OBVIOUS
    <3>b. /\ threads' = [threads EXCEPT ![t].pc = "active", ![t].key = n, ![t].prior = g]
          /\ row = [threads[t] EXCEPT !.pc = "active", !.key = n, !.prior = g]
      BY <2>1, <3>2, <3>a, Zenon
    <3>c. n \in 0..MaxRevisions /\ g \in 0..MaxGoals
      BY <1>0, <3>1, <3>a DEF TablesTyped
    <3>d. row \in ThreadRow /\ row.pc = "active" /\ row.key = n /\ row.prior = g
      BY <1>0, <3>b, <3>c DEF ThreadRow, ThreadPc, Locked
    <3>3. row \in ThreadRow /\ row.pc = "active" /\ row.key = revision /\ row.prior = started[revision]
      BY <3>a, <3>d
    <3>4. threads' = [threads EXCEPT ![t] = row]
      BY <3>b, Zenon
    <3>5. Becomes(t, row)
      BY <1>0, <3>3, <3>4, RowBecomes
    <3>6. Answering(row)' /\ Holding(t, row)'
      BY <1>1, <2>1, <3>1, <3>3 DEF Answering, Holding, Stays, Locked
    <3>7. lock \in {0, t} /\ lock' \in {0, t}
      BY <1>2, <2>1 DEF Onboard!AutoStart, Onboard!Free
    <3> QED  BY <1>1, <3>5, <3>6, <3>7, ThreadMoves
  <2> QED  BY <1>1, <1>2, <2>1, DoneMoves DEF Onboard!AutoStart
<1>3. CASE Onboard!NothingActive(t)
  <2>1. lock = t /\ threads[t].key \in 1..MaxRevisions /\ threads[t].prior = started[threads[t].key]
    BY <1>0, <1>3 DEF Holding, Onboard!NothingActive, Locked
  <2>2. ASSUME threads[t].prior = 0, Onboard!Go(t, "create"), UNCHANGED lock PROVE SetUpInv'
    <3>1. "create" \in ThreadPc
      BY DEF ThreadPc, Locked
    <3>2. PICK row \in ThreadRow :
             /\ Becomes(t, row) /\ row.pc = "create" /\ row.got = threads[t].got
             /\ row.key = threads[t].key /\ row.prior = threads[t].prior
      BY <2>2, <3>1, GoneOn
    <3>3. Answering(row)' /\ Holding(t, row)'
      BY <1>1, <2>1, <2>2, <3>2 DEF Answering, Holding, Stays, Locked
    <3> QED  BY <1>1, <2>2, <3>2, <3>3, ThreadMoves
  <2> QED  BY <1>1, <1>3, <2>1, <2>2, DoneMoves DEF Onboard!NothingActive
<1>4. CASE Onboard!MarkOpen(t)
  <2>1. /\ lock = t /\ threads[t].key \in 1..MaxRevisions /\ started[threads[t].key] = 0
        /\ Last(threads[t].prior, threads[t].key)
    BY <1>0, <1>4 DEF Holding, Onboard!MarkOpen, Locked
  <2>2. ASSUME Onboard!Go(t, "record"), UNCHANGED lock PROVE SetUpInv'
    <3>1. "record" \in ThreadPc
      BY DEF ThreadPc, Locked
    <3>2. PICK row \in ThreadRow :
             /\ Becomes(t, row) /\ row.pc = "record" /\ row.got = threads[t].got
             /\ row.key = threads[t].key /\ row.prior = threads[t].prior
      BY <2>2, <3>1, GoneOn
    <3>3. Answering(row)' /\ Holding(t, row)'
      BY <1>1, <2>1, <2>2, <3>2 DEF Answering, Holding, Stays, Locked, Last
    <3> QED  BY <1>1, <2>2, <3>2, <3>3, ThreadMoves
  <2> QED  BY <1>1, <1>4, <2>1, <2>2, DoneMoves DEF Onboard!MarkOpen
<1> QED  BY <1>2, <1>3, <1>4

\* Creating a goal: it is the last of its revision, which had none recorded.
LEMMA CreateSteps ==
    ASSUME Onboard!OnboardingAssumption, SetUpInv, NEW t \in Threads,
           Onboard!CreateGoal(t) \/ Onboard!PersonStarts(t)
    PROVE SetUpInv'
<1>0. /\ TablesTyped /\ ThreadsTyped /\ Whole /\ NoSecond /\ lock \in Threads \cup {0}
      /\ threads[t] \in ThreadRow /\ Answering(threads[t]) /\ Holding(t, threads[t])
  BY InvParts
<1>1. PICK by \in {"auto", "person"} :
         /\ Onboard!Create(t, by)
         /\ by = "auto" => Onboard!CreateGoal(t)
         /\ by = "person" => Onboard!PersonStarts(t)
  BY DEF Onboard!CreateGoal, Onboard!PersonStarts
<1>2. /\ KeepsOrigins /\ Len(goals') = Len(goals) + 1 /\ Len(goals') <= MaxGoals
      /\ goals'[Len(goals) + 1].by = by /\ goals'[Len(goals) + 1].of = threads[t].key
  <2>1. threads[t].key \in 0..MaxRevisions /\ MaxGoals \in Nat
    BY <1>0 DEF ThreadRow, Onboard!OnboardingAssumption
  <2> QED  BY <1>0, <1>1, <2>1, CreateKeeps
<1>3. UNCHANGED <<sound, answers, identity, revision, routes, started, lock>>
  BY <1>1 DEF Onboard!Create
<1>4. Len(goals) \in Nat /\ Len(goals) + 1 \in 1..Len(goals') /\ goals' \in Seq(GoalRow)
  BY <1>0, <1>2 DEF TablesTyped, KeepsOrigins
<1>5. TablesTyped' /\ Whole' /\ RoutesKept /\ lock' \in Threads \cup {0}
  BY <1>0, <1>2, <1>3, <1>4 DEF TablesTyped, Whole, RoutesKept, Onboard!Complete
<1>6. CASE by = "auto"
  <2>1. /\ threads[t].pc = "create"
        /\ threads' = [threads EXCEPT ![t].pc = "mark", ![t].prior = Len(goals) + 1]
    BY <1>1, <1>6 DEF Onboard!CreateGoal
  <2>2. lock = t /\ threads[t].key \in 1..MaxRevisions /\ started[threads[t].key] = 0
    BY <1>0, <2>1 DEF Holding, Locked
  <2>3. NoSecond'
    <3> SUFFICES ASSUME NEW g \in 1..Len(goals'), NEW h \in 1..Len(goals'), g < h,
                        goals'[g].by = "auto", goals'[h].by = "auto", goals'[h].of = goals'[g].of
                 PROVE started'[goals'[g].of] # g
      BY DEF NoSecond
    <3>1. g \in 1..Len(goals)
      BY <1>2, <1>4
    <3>2. CASE h \in 1..Len(goals)
      BY <1>0, <1>2, <1>3, <3>1, <3>2 DEF NoSecond, KeepsOrigins
    <3>3. CASE h = Len(goals) + 1
      BY <1>2, <1>3, <2>2, <3>1, <3>3
    <3> QED  BY <1>2, <1>4, <3>2, <3>3
  <2>5. PICK row : row = [threads[t] EXCEPT !.pc = "mark", !.prior = Len(goals) + 1]
    OBVIOUS
  <2>6. /\ row \in ThreadRow /\ row.pc = "mark" /\ row.prior = Len(goals) + 1
        /\ row.key = threads[t].key
    <3>1. Len(goals) + 1 \in 0..MaxGoals
      BY <1>2, <1>4 DEF Onboard!OnboardingAssumption
    <3> QED  BY <1>0, <2>5, <3>1 DEF ThreadRow, ThreadPc, Locked
  <2>7. threads' = [threads EXCEPT ![t] = row]
    BY <2>1, <2>5, Zenon
  <2>8. Becomes(t, row)
    BY <1>0, <2>6, <2>7, RowBecomes
  <2>9. Answering(row)' /\ Holding(t, row)'
    <3>1. PICK g, n : g = Len(goals) + 1 /\ n = threads[t].key
      OBVIOUS
    <3>2. g \in 1..Len(goals') /\ ~(\E h \in 1..Len(goals') : h > g)
      BY <1>2, <1>4, <3>1
    <3>3. Last(g, n)'
      BY <3>2 DEF Last
    <3>4. row.prior = g /\ row.key = n
      BY <2>6, <3>1
    <3>5. Last(row.prior, row.key)'
      BY <3>3, <3>4
    <3> QED  BY <1>3, <2>2, <2>6, <3>5 DEF Answering, Holding, Locked
  <2> QED  BY <1>5, <2>2, <2>3, <2>8, <2>9, TableMoves
<1>7. CASE by = "person"
  <2>1. NoSecond'
    <3> SUFFICES ASSUME NEW g \in 1..Len(goals'), NEW h \in 1..Len(goals'), g < h,
                        goals'[g].by = "auto", goals'[h].by = "auto", goals'[h].of = goals'[g].of
                 PROVE started'[goals'[g].of] # g
      BY DEF NoSecond
    <3>1. g \in 1..Len(goals)
      BY <1>2, <1>4
    <3>2. h # Len(goals) + 1
      BY <1>2, <1>7
    <3>3. h \in 1..Len(goals)
      BY <1>2, <1>4, <3>2
    <3> QED  BY <1>0, <1>2, <1>3, <3>1, <3>3 DEF NoSecond, KeepsOrigins
  <2>2. StartsKept
    <3>1. ASSUME NEW h \in 1..Len(goals'), h > Len(goals) PROVE goals'[h].by # "auto"
      <4>1. h = Len(goals) + 1
        BY <1>2, <1>4, <3>1
      <4> QED  BY <1>2, <1>7, <4>1
    <3> QED  BY <1>2, <1>3, <1>4, <3>1 DEF StartsKept
  <2>3. Becomes(t, Onboard!Idle)
    BY <1>0, <1>1, <1>7, DoneBecomes DEF Onboard!PersonStarts
  <2>4. Answering(Onboard!Idle)' /\ Holding(t, Onboard!Idle)'
    BY IdleTyped DEF Answering, Holding, Locked, Onboard!Idle
  <2> QED  BY <1>5, <2>1, <2>2, <2>3, <2>4, TableMoves
<1> QED  BY <1>6, <1>7

\* Recording it: the goal recorded is the last its revision started.
LEMMA RecordStep ==
    ASSUME Onboard!OnboardingAssumption, SetUpInv, NEW t \in Threads, Onboard!RecordStarted(t)
    PROVE SetUpInv'
<1>0. /\ TablesTyped /\ ThreadsTyped /\ Whole /\ NoSecond /\ lock \in Threads \cup {0}
      /\ threads[t] \in ThreadRow /\ Answering(threads[t]) /\ Holding(t, threads[t])
  BY InvParts
<1>1. PICK n, g : n = threads[t].key /\ g = threads[t].prior
  OBVIOUS
<1>2. lock = t /\ n \in 1..MaxRevisions /\ started[n] = 0 /\ Last(g, n) /\ g \in 0..MaxGoals
  BY <1>0, <1>1 DEF Holding, Locked, Onboard!RecordStarted, ThreadRow
<1>3. /\ UNCHANGED <<sound, answers, identity, revision, routes, goals>> /\ lock' = 0
      /\ started' = [started EXCEPT ![n] = g]
  BY <1>0, <1>1, <1>2 DEF Onboard!RecordStarted, TablesTyped
<1>4. TablesTyped' /\ Whole' /\ RoutesKept
  BY <1>0, <1>2, <1>3 DEF TablesTyped, Whole, RoutesKept, Onboard!Complete
<1>5. NoSecond'
  BY <1>0, <1>2, <1>3 DEF NoSecond, Last, TablesTyped
<1>6. Becomes(t, Onboard!Idle)
  BY <1>0, DoneBecomes DEF Onboard!RecordStarted
<1>7. Answering(Onboard!Idle)' /\ Holding(t, Onboard!Idle)'
  BY IdleTyped DEF Answering, Holding, Locked, Onboard!Idle
<1> QED  BY <1>2, <1>3, <1>4, <1>5, <1>6, <1>7, TableMoves

LEMMA WorldSteps ==
    ASSUME Onboard!OnboardingAssumption, SetUpInv,
           Onboard!ArtifactsChange \/ Onboard!GoalEnds \/ Onboard!Restart
    PROVE SetUpInv'
<1>0. TablesTyped /\ ThreadsTyped /\ Whole /\ NoSecond /\ lock \in Threads \cup {0}
  BY DEF SetUpInv, SetUpTyped
<1>1. CASE Onboard!ArtifactsChange
  BY <1>1 DEF SetUpInv, SetUpTyped, TablesTyped, ThreadsTyped, Whole, NoSecond, Answering,
              Holding, Last, Onboard!Complete, Onboard!ArtifactsChange
<1>2. CASE Onboard!GoalEnds
  <2>1. KeepsOrigins /\ Len(goals') = Len(goals) /\ Len(goals) \in Nat
    BY <1>0, <1>2, EndKeeps DEF TablesTyped
  <2>2. UNCHANGED <<sound, answers, identity, revision, routes, started, lock, threads>>
    BY <1>2 DEF Onboard!GoalEnds
  <2>3. TablesTyped' /\ Whole' /\ NoSecond' /\ RoutesKept /\ StartsKept
    <3>1. TablesTyped'
      BY <1>0, <2>1, <2>2 DEF TablesTyped, KeepsOrigins
    <3>2. Whole'
      BY <1>0, <2>2 DEF Whole, Onboard!Complete
    <3>3. NoSecond'
      BY <1>0, <2>1, <2>2 DEF NoSecond, KeepsOrigins
    <3>4. RoutesKept /\ StartsKept
      BY <2>1, <2>2 DEF RoutesKept, StartsKept, Onboard!Complete
    <3> QED  BY <3>1, <3>2, <3>3, <3>4
  <2>4. ASSUME NEW u \in Threads PROVE Answering(threads[u])' /\ Holding(u, threads[u])'
    <3>1. PICK x \in ThreadRow : x = threads[u]
      BY <1>0 DEF ThreadsTyped
    <3>2. Answering(x)' /\ Holding(u, x)'
      BY <1>0, <2>3, <3>1, OtherAnswers, OtherHolds DEF SetUpInv
    <3> QED  BY <2>2, <3>1, <3>2 DEF Answering, Holding, Last
  <2> QED  BY <1>0, <2>2, <2>3, <2>4 DEF SetUpInv, SetUpTyped, ThreadsTyped
<1>3. CASE Onboard!Restart
  <2>1. Stays /\ lock' = 0 /\ \A u \in Threads : threads'[u] = Onboard!Idle
    BY <1>3 DEF Onboard!Restart, Onboard!tables, Stays
  <2>2. ThreadsTyped'
    BY <1>3, IdleTyped DEF ThreadsTyped, Onboard!Restart
  <2>3. TablesTyped' /\ Whole' /\ NoSecond'
    BY <1>0, <2>1 DEF TablesTyped, Whole, NoSecond, Stays, Onboard!Complete
  <2>4. \A u \in Threads : Answering(threads[u])' /\ Holding(u, threads[u])'
    BY <2>1, IdleTyped DEF Answering, Holding, Locked, Onboard!Idle
  <2> QED  BY <2>1, <2>2, <2>3, <2>4 DEF SetUpInv, SetUpTyped
<1> QED  BY <1>1, <1>2, <1>3

LEMMA SetUpInit ==
    ASSUME Onboard!OnboardingAssumption, Onboard!Init PROVE SetUpInv
<1>1. Onboard!Empty \in Answers
  BY DEF Onboard!Empty, Answers
<1>2. PICK v \in AnswerValues \cup {"none"} : identity = [f \in Onboard!Fields |-> v]
  BY DEF Onboard!Init
<1>3. identity \in Answers /\ (identity = Onboard!Empty \/ Onboard!Complete(identity))
  BY <1>2 DEF Answers, Onboard!Empty, Onboard!Complete
<1>4. goals \in Seq(GoalRow) /\ Len(goals) = 0
  BY DEF Onboard!Init
<1>5. TablesTyped /\ Whole /\ NoSecond
  BY <1>1, <1>3, <1>4 DEF TablesTyped, Whole, NoSecond, RouteState, Onboard!Init,
                          Onboard!OnboardingAssumption
<1>6. ThreadsTyped /\ lock = 0 /\ \A t \in Threads : threads[t] = Onboard!Idle
  BY IdleTyped DEF ThreadsTyped, Onboard!Init
<1>7. \A t \in Threads : Answering(threads[t]) /\ Holding(t, threads[t])
  BY <1>6, IdleTyped DEF Answering, Holding, Locked, Onboard!Idle
<1> QED  BY <1>5, <1>6, <1>7 DEF SetUpInv, SetUpTyped

LEMMA SetUpKept ==
    ASSUME Onboard!OnboardingAssumption, SetUpInv, [Onboard!Next]_(Onboard!onboardVars)
    PROVE SetUpInv'
<1>1. ASSUME NEW t \in Threads, Onboard!Serve(t) PROVE SetUpInv'
  BY <1>1, RequestSteps, IdentitySteps, PreferenceSteps, AutoStartSteps, CreateSteps,
     RecordStep DEF Onboard!Serve
<1>2. CASE UNCHANGED Onboard!onboardVars
  BY <1>2 DEF Onboard!onboardVars, SetUpInv, SetUpTyped, TablesTyped, ThreadsTyped, Whole,
              NoSecond, Answering, Holding, Last, Onboard!Complete
<1> QED  BY <1>1, <1>2, WorldSteps DEF Onboard!Next

LEMMA SetUpShows ==
    ASSUME SetUpInv PROVE Onboard!TypeOK /\ Onboard!OneGoalPerRevision
<1>1. TablesTyped /\ Whole /\ NoSecond
  BY DEF SetUpInv, SetUpTyped
<1>2. DOMAIN goals = 1..Len(goals) /\ DOMAIN routes = Onboard!Routed
  BY <1>1 DEF TablesTyped
<1>3. Onboard!OneGoalPerRevision
  BY <1>1, <1>2 DEF Onboard!OneGoalPerRevision, NoSecond, Whole
<1>4. Onboard!TypeOK
  BY DEF SetUpInv, SetUpTyped, TablesTyped, Onboard!TypeOK, GoalRow, Answers, RouteState
<1> QED  BY <1>3, <1>4

-----------------------------------------------------------------------------
\* The model provider.

\* Providers that are named anywhere; keys are named by them too.
Names == {"none"} \cup {i.provider : i \in Inputs} \cup {e.provider : e \in Environments}
Configs == [state : {"none", "empty", "torn", "whole"}, provider : Names,
            key : Names, url : BOOLEAN]
\* A configuration that may be used.
SoundConfig(c) == c.key \in {"none", c.provider} /\ AI!Valid(c)
\* What loads is sound.
SoundFile(c) == c \in Configs /\ (c.state = "whole" => SoundConfig(c))

Callers == [pc : {"idle", "open", "write", "replace", "ask"}, config : Configs,
            handle : {"none", "temp", "file", "gone"}]

\* A thread that is under way has a whole sound configuration, and one that writes has
\* a file open.
CallerSound(t) ==
    /\ callers[t].pc # "idle" => callers[t].config.state = "whole"
                                 /\ SoundConfig(callers[t].config)
    /\ callers[t].pc = "write" => callers[t].handle # "none"

AIInv ==
    /\ SoundFile(file) /\ SoundFile(temp)
    /\ environment \in Environments
    /\ callers \in [Threads -> Callers]
    /\ told \in [requests : SUBSET Configs, cited : SUBSET Evidence]
    /\ \A t \in Threads : CallerSound(t)
    /\ \A c \in told.requests : SoundConfig(c)

LEMMA UnreadableTyped ==
    ASSUME NEW s \in {"none", "empty", "torn"}
    PROVE AI!Unreadable(s) \in Configs /\ AI!Unreadable(s).state = s
<1>1. "none" \in Names /\ s \in {"none", "empty", "torn", "whole"}
  BY DEF Names
<1>2. \A b \in BOOLEAN : [state |-> s, provider |-> "none", key |-> "none", url |-> b] \in Configs
  BY <1>1 DEF Configs
<1>3. AI!Unreadable(s) \in Configs
  <2>1. FALSE \in BOOLEAN
    BY Zenon
  <2> QED  BY <1>2, <2>1, Zenon DEF AI!Unreadable
<1>4. AI!Unreadable(s).state = s
  BY Zenon DEF AI!Unreadable
<1> QED  BY <1>3, <1>4

LEMMA NoConfigSound == AI!NoConfig \in Configs /\ SoundConfig(AI!NoConfig)
<1>1. AI!NoConfig \in Configs
  BY UnreadableTyped DEF AI!NoConfig
<1>2. AI!NoConfig.provider = "none" /\ AI!NoConfig.key = "none"
  BY Zenon DEF AI!NoConfig, AI!Unreadable
<1> QED  BY <1>1, <1>2 DEF SoundConfig, AI!Valid, AI!KeyRequired, AI!UrlRequired

LEMMA UnreadableSound ==
    ASSUME NEW s \in {"empty", "torn"}
    PROVE SoundFile(AI!Unreadable(s)) /\ AI!Unreadable(s).state = s
  BY UnreadableTyped DEF SoundFile

\* Loading gives a sound configuration whatever is in the file.
LEMMA LoadSound ==
    ASSUME NEW c, SoundFile(c)
    PROVE AI!Load(c) \in Configs /\ SoundConfig(AI!Load(c))
  BY NoConfigSound DEF AI!Load, SoundFile

LEMMA IdleSound == AI!Idle \in Callers /\ AI!Idle.pc = "idle"
  BY NoConfigSound DEF AI!Idle, Callers

\* A merge keeps a stored key only with its own provider.
LEMMA MergedSound ==
    ASSUME AI!AIAssumption, NEW i \in Inputs, NEW e, e \in Configs, SoundConfig(e)
    PROVE /\ AI!Merged(i, e) \in Configs /\ AI!Merged(i, e).state = "whole"
          /\ AI!Merged(i, e).key \in {"none", AI!Merged(i, e).provider}
<1>1. i.provider \in Names /\ i.key \in Names /\ i.url \in BOOLEAN
  BY DEF AI!AIAssumption, Names
<1>2. \A k \in Names : AI!Config(i.provider, k, i.url) \in Configs
  BY <1>1 DEF AI!Config, Configs
<1>3. CASE AI!Preserves(i, e)
  <2>1. AI!Merged(i, e) = AI!Config(i.provider, e.key, i.url) /\ e.key = i.provider
    BY <1>3 DEF AI!Merged, AI!Preserves, SoundConfig
  <2> QED  BY <1>1, <1>2, <2>1 DEF AI!Config
<1>4. CASE ~AI!Preserves(i, e)
  <2>1. AI!Merged(i, e) = AI!Config(i.provider, i.key, i.url)
    BY <1>4 DEF AI!Merged
  <2> QED  BY <1>1, <1>2, <2>1 DEF AI!Config, AI!AIAssumption
<1> QED  BY <1>3, <1>4

LEMMA EnvironmentSound == ASSUME AI!AIAssumption, NEW e \in Environments PROVE SoundFile(e)
<1>1. CASE e = AI!NoConfig
  BY <1>1, NoConfigSound DEF SoundFile
<1>2. CASE e # AI!NoConfig
  <2>1. /\ e = AI!Config(e.provider, e.key, e.url) /\ e.url \in BOOLEAN /\ SoundConfig(e)
        /\ e.provider \in Names /\ e.key \in Names
    BY <1>2 DEF AI!AIAssumption, SoundConfig, Names
  <2> QED  BY <2>1 DEF AI!Config, Configs, SoundFile
<1> QED  BY <1>1, <1>2

LEMMA AIInit == ASSUME AI!AIAssumption, AI!Init PROVE AIInv
<1>1. SoundFile(AI!NoConfig)
  BY NoConfigSound DEF SoundFile
<1>2. callers \in [Threads -> Callers] /\ \A t \in Threads : CallerSound(t)
  BY IdleSound DEF AI!Init, CallerSound
<1> QED  BY <1>1, <1>2 DEF AI!Init, AIInv, AI!AIAssumption
-----------------------------------------------------------------------------
\* A thread that moves keeps the others as they are.
LEMMA OneCaller ==
    ASSUME callers \in [Threads -> Callers], NEW t \in Threads, NEW c \in Callers,
           \A u \in Threads : CallerSound(u),
           callers' = [callers EXCEPT ![t] = c],
           c.pc # "idle" => c.config.state = "whole" /\ SoundConfig(c.config),
           c.pc = "write" => c.handle # "none"
    PROVE callers' \in [Threads -> Callers] /\ \A u \in Threads : CallerSound(u)'
<1>1. callers' \in [Threads -> Callers]
  OBVIOUS
<1>2. ASSUME NEW u \in Threads PROVE CallerSound(u)'
  <2>1. CASE u = t
    <3>1. callers'[u] = c
      BY <2>1
    <3> QED  BY <3>1 DEF CallerSound, SoundConfig, AI!Valid
  <2>2. CASE u # t
    <3>1. callers'[u] = callers[u]
      BY <2>2
    <3> QED  BY <3>1 DEF CallerSound, SoundConfig, AI!Valid
  <2> QED  BY <2>1, <2>2
<1> QED  BY <1>1, <1>2

LEMMA RestKeeps ==
    ASSUME AIInv, NEW t \in Threads, AI!Rest(t)
    PROVE callers' \in [Threads -> Callers] /\ \A u \in Threads : CallerSound(u)'
<1>1. callers' = [callers EXCEPT ![t] = AI!Idle]
  BY DEF AI!Rest
<1> QED  BY <1>1, IdleSound, OneCaller DEF AIInv

LEMMA StoreSteps ==
    ASSUME AI!AIAssumption, AIInv, NEW t \in Threads, AI!BeginSave(t) \/ AI!OpenTemp(t)
    PROVE AIInv'
<1>1. CASE AI!BeginSave(t)
  <2>1. PICK i \in Inputs :
           /\ AI!Valid(AI!Merged(i, AI!Load(file)))
           /\ callers' = [callers EXCEPT ![t] = [AI!Idle EXCEPT !.pc = "open",
                                                   !.config = AI!Merged(i, AI!Load(file))]]
    BY <1>1 DEF AI!BeginSave
  <2>2. PICK c : c = [AI!Idle EXCEPT !.pc = "open", !.config = AI!Merged(i, AI!Load(file))]
    OBVIOUS
  <2>3. SoundConfig(AI!Merged(i, AI!Load(file))) /\ AI!Merged(i, AI!Load(file)) \in Configs
        /\ AI!Merged(i, AI!Load(file)).state = "whole"
    BY <2>1, MergedSound, LoadSound DEF AIInv, SoundConfig
  <2>4. /\ c \in Callers /\ c.pc = "open" /\ c.config = AI!Merged(i, AI!Load(file))
        /\ callers' = [callers EXCEPT ![t] = c]
    BY <2>1, <2>2, <2>3, IdleSound DEF Callers
  <2>5. callers' \in [Threads -> Callers] /\ \A u \in Threads : CallerSound(u)'
    BY <2>3, <2>4, OneCaller DEF AIInv
  <2> QED  BY <1>1, <2>5 DEF AI!BeginSave, AIInv
<1>2. CASE AI!OpenTemp(t)
  <2>1. PICK c : c = [callers[t] EXCEPT !.pc = "write", !.handle = "temp"]
    OBVIOUS
  <2>2. /\ c \in Callers /\ c.pc = "write" /\ c.config = callers[t].config
        /\ c.handle = "temp" /\ callers' = [callers EXCEPT ![t] = c]
    BY <1>2, <2>1 DEF AI!OpenTemp, AIInv, Callers
  <2>3. callers[t].config.state = "whole" /\ SoundConfig(callers[t].config)
    BY <1>2 DEF AI!OpenTemp, AIInv, CallerSound
  <2>4. callers' \in [Threads -> Callers] /\ \A u \in Threads : CallerSound(u)'
    BY <2>2, <2>3, OneCaller DEF AIInv
  <2>5. SoundFile(temp')
    BY <1>2, UnreadableSound DEF AI!OpenTemp
  <2> QED  BY <1>2, <2>4, <2>5 DEF AI!OpenTemp, AIInv
<1> QED  BY <1>1, <1>2

LEMMA WriteStep ==
    ASSUME AI!AIAssumption, AIInv, NEW t \in Threads, AI!Write(t)
    PROVE AIInv'
<1>1. callers[t].config.state = "whole" /\ SoundConfig(callers[t].config)
      /\ callers[t].config \in Configs /\ callers[t].handle \in {"temp", "file", "gone"}
  BY DEF AI!Write, AIInv, CallerSound, Callers
<1>2. \A old : \A c \in AI!Contents(t, old) : SoundFile(c)
  BY <1>1, UnreadableSound DEF AI!Contents, SoundFile
<1>3. SoundFile(file') /\ SoundFile(temp')
  BY <1>1, <1>2 DEF AI!Write, AIInv
<1>4. PICK c : c = [callers[t] EXCEPT !.pc = "replace", !.handle = "none"]
  OBVIOUS
<1>5. /\ c \in Callers /\ c.pc = "replace" /\ c.config = callers[t].config
      /\ callers' = [callers EXCEPT ![t] = c]
  BY <1>4 DEF AI!Write, AIInv, Callers
<1>6. callers' \in [Threads -> Callers] /\ \A u \in Threads : CallerSound(u)'
  BY <1>1, <1>5, OneCaller DEF AIInv
<1> QED  BY <1>3, <1>6 DEF AI!Write, AIInv

LEMMA ReplaceStep ==
    ASSUME AI!AIAssumption, AIInv, NEW t \in Threads, AI!Replace(t)
    PROVE AIInv'
<1>1. CASE temp.state = "none"
  <2>1. AI!Rest(t) /\ UNCHANGED <<file, temp, environment, told>>
    BY <1>1 DEF AI!Replace
  <2> QED  BY <2>1, RestKeeps DEF AIInv
<1>2. CASE temp.state # "none"
  <2>1. SoundFile(file') /\ SoundFile(temp')
    BY <1>2, NoConfigSound DEF AI!Replace, AIInv, SoundFile
  <2>2. callers' = [c \in Threads |-> IF c = t THEN AI!Idle
                      ELSE [callers[c] EXCEPT !.handle = AI!Renamed(@)]]
    BY <1>2 DEF AI!Replace
  <2>3. ASSUME NEW u \in Threads PROVE callers'[u] \in Callers /\ CallerSound(u)'
    <3>1. CASE u = t
      <4>1. callers'[u] = AI!Idle
        BY <2>2, <3>1
      <4> QED  BY <4>1, IdleSound DEF CallerSound
    <3>2. CASE u # t
      <4>1. callers[u] \in Callers /\ CallerSound(u)
        BY DEF AIInv
      <4>2. callers'[u] = [callers[u] EXCEPT !.handle = AI!Renamed(callers[u].handle)]
        BY <2>2, <3>2
      <4>3. /\ AI!Renamed(callers[u].handle) \in {"none", "temp", "file", "gone"}
            /\ callers[u].handle # "none" => AI!Renamed(callers[u].handle) # "none"
        BY <4>1 DEF AI!Renamed, Callers
      <4>4. /\ callers'[u] \in Callers /\ callers'[u].pc = callers[u].pc
            /\ callers'[u].config = callers[u].config
            /\ callers'[u].handle = AI!Renamed(callers[u].handle)
        BY <4>1, <4>2, <4>3 DEF Callers
      <4> QED  BY <4>1, <4>3, <4>4 DEF CallerSound, SoundConfig, AI!Valid
    <3> QED  BY <3>1, <3>2
  <2> QED  BY <1>2, <2>1, <2>2, <2>3 DEF AI!Replace, AIInv
<1> QED  BY <1>1, <1>2

LEMMA CallSteps ==
    ASSUME AI!AIAssumption, AIInv, NEW t \in Threads, AI!BeginCall(t) \/ AI!Ask(t)
    PROVE AIInv'
<1>1. CASE AI!BeginCall(t)
  <2>1. AI!Effective \in Configs /\ AI!Effective.state = "whole" /\ SoundConfig(AI!Effective)
    BY <1>1, LoadSound, EnvironmentSound DEF AI!BeginCall, AI!Effective, AIInv, SoundFile
  <2>2. PICK c : c = [AI!Idle EXCEPT !.pc = "ask", !.config = AI!Effective]
    OBVIOUS
  <2>3. /\ c \in Callers /\ c.pc = "ask" /\ c.config = AI!Effective
        /\ callers' = [callers EXCEPT ![t] = c]
    BY <1>1, <2>1, <2>2, IdleSound DEF AI!BeginCall, Callers
  <2>4. callers' \in [Threads -> Callers] /\ \A u \in Threads : CallerSound(u)'
    BY <2>1, <2>3, OneCaller DEF AIInv
  <2> QED  BY <1>1, <2>4 DEF AI!BeginCall, AIInv
<1>2. CASE AI!Ask(t)
  <2>1. callers[t].config \in Configs /\ SoundConfig(callers[t].config)
    BY <1>2 DEF AI!Ask, AIInv, CallerSound, Callers
  <2>2. /\ told' \in [requests : SUBSET Configs, cited : SUBSET Evidence]
        /\ told'.requests = told.requests \cup {callers[t].config}
    <3>1. PICK cited :
             told' = [told EXCEPT !.requests = @ \cup {callers[t].config},
                        !.cited = IF cited \subseteq Evidence THEN @ \cup cited ELSE @]
      BY <1>2, Zenon DEF AI!Ask
    <3>2. PICK more \in SUBSET Evidence :
             told' = [told EXCEPT !.requests = @ \cup {callers[t].config},
                                  !.cited = @ \cup more]
      <4>1. CASE cited \subseteq Evidence
        BY <3>1, <4>1
      <4>2. CASE ~(cited \subseteq Evidence)
        <5>1. told' = [told EXCEPT !.requests = @ \cup {callers[t].config},
                                   !.cited = @ \cup {}]
          BY <3>1, <4>2 DEF AIInv
        <5> QED  BY <5>1
      <4> QED  BY <4>1, <4>2
    <3> QED  BY <2>1, <3>2 DEF AIInv
  <2>3. \A c \in told'.requests : SoundConfig(c)
    BY <2>1, <2>2 DEF AIInv
  <2>4. callers' \in [Threads -> Callers] /\ \A u \in Threads : CallerSound(u)'
    BY <1>2, RestKeeps DEF AI!Ask
  <2> QED  BY <1>2, <2>2, <2>3, <2>4 DEF AI!Ask, AIInv
<1> QED  BY <1>1, <1>2

LEMMA RestartStep == ASSUME AI!AIAssumption, AIInv, AI!Restart PROVE AIInv'
<1>1. callers' \in [Threads -> Callers] /\ \A u \in Threads : CallerSound(u)'
  BY IdleSound DEF AI!Restart, CallerSound
<1> QED  BY <1>1 DEF AI!Restart, AIInv

LEMMA AIKept == ASSUME AI!AIAssumption, AIInv, [AI!Next]_(AI!aiVars) PROVE AIInv'
<1>1. CASE AI!Next
  BY <1>1, StoreSteps, WriteStep, ReplaceStep, CallSteps, RestartStep DEF AI!Next
<1>2. CASE UNCHANGED AI!aiVars
  BY <1>2 DEF AI!aiVars, AIInv, CallerSound
<1> QED  BY <1>1, <1>2

LEMMA AIShows == ASSUME AI!AIAssumption, AIInv PROVE AI!KeyStaysWithProvider /\ AI!TypeOK
<1>1. AI!KeyStaysWithProvider
  BY LoadSound DEF AIInv, AI!KeyStaysWithProvider, SoundConfig
<1>2. AI!TypeOK
  BY DEF AIInv, AI!TypeOK, Callers, SoundFile, Configs
<1> QED  BY <1>1, <1>2

-----------------------------------------------------------------------------
\* Sequences.

LEMMA Appended ==
    ASSUME NEW S, NEW s \in Seq(S), NEW e \in S
    PROVE /\ Append(s, e) \in Seq(S) /\ Len(Append(s, e)) = Len(s) + 1
          /\ Append(s, e)[Len(s) + 1] = e
          /\ \A i \in 1..Len(s) : Append(s, e)[i] = s[i]
  OBVIOUS

LEMMA OneMore ==
    ASSUME NEW n \in Nat
    PROVE /\ 1..n \subseteq 1..n + 1 /\ n + 1 \in 1..n + 1
          /\ \A i \in 1..n + 1 : i \in 1..n \/ i = n + 1
  OBVIOUS

LEMMA SequenceSteps ==
    ASSUME NEW S, NEW s \in Seq(S), NEW e \in S
    PROVE /\ <<>> \in Seq(S) /\ Append(s, e) \in Seq(S)
          /\ s # <<>> => Head(s) \in S /\ Tail(s) \in Seq(S)
          /\ \A i \in DOMAIN s : [s EXCEPT ![i] = e] \in Seq(S)
  OBVIOUS

LEMMA Concatenated ==
    ASSUME NEW S, NEW s \in Seq(S), NEW t \in Seq(S)
    PROVE /\ s \o t \in Seq(S) /\ Len(s \o t) = Len(s) + Len(t)
          /\ \A i \in 1..Len(s) : (s \o t)[i] = s[i]
          /\ \A i \in 1..Len(t) : (s \o t)[Len(s) + i] = t[i]
  OBVIOUS

-----------------------------------------------------------------------------
\* Collections and sessions.  What was looked at is in the collection, or a post of its
\* id or text is; a session on file is of somebody who signed in since the last
\* disconnect, while a disconnect may still owe the storage state of its vendor.

Fetchable == UNION {UNION {Social!Range(feed) : feed \in SocialFeed[v]} : v \in Vendors}
PostIds == {p.id : p \in Fetchable}
PostTexts == {p.text : p \in Fetchable}
VendorPost == [vendor : Vendors, id : PostIds, text : PostTexts]
CollectRow ==
    [pc : [Vendors -> {"idle", "cache", "make", "fetch", "done"}],
     session : [Vendors -> BOOLEAN], got : Seq(VendorPost), looked : Nat,
     posts : Seq(VendorPost), ids : SUBSET (Vendors \X PostIds), texts : SUBSET PostTexts]
SignInRow ==
    [pc : {"idle", "window", "password", "code", "cookiesOnly", "storage"},
     vendor : Vendors \cup {"none"}, account : Accounts \cup {"none"}]
SessionRow == [cookies : Accounts \cup {"none"}, storage : Accounts \cup {"none"}]

Key(p) == <<p.vendor, p.id>>
\* What is kept of a collection is known by its ids and texts, and nothing else is.
Told(posts, ids, texts) ==
    /\ \A i \in 1..Len(posts) : /\ Key(posts[i]) \in ids
                                /\ posts[i].text # Social!NoText => posts[i].text \in texts
    /\ \A k \in ids : \E i \in 1..Len(posts) : Key(posts[i]) = k
    /\ \A s \in texts : s # Social!NoText /\ \E i \in 1..Len(posts) : posts[i].text = s
Apart(posts) ==
    \A i, j \in 1..Len(posts) : i # j =>
      /\ Key(posts[i]) # Key(posts[j])
      /\ posts[i].text = posts[j].text => posts[i].text = Social!NoText
Shown(p, posts) ==
    \E j \in 1..Len(posts) : \/ Key(posts[j]) = Key(p)
                             \/ p.text # Social!NoText /\ posts[j].text = p.text
Looked(got, looked, posts) ==
    looked <= Len(got) /\ \A i \in 1..looked : Shown(got[i], posts)
CollectKept(c) ==
    /\ c \in CollectRow
    /\ Told(c.posts, c.ids, c.texts) /\ Apart(c.posts) /\ Looked(c.got, c.looked, c.posts)

CachedKept ==
    /\ cached = [v \in Vendors |-> cached[v]]
    /\ \A v \in Vendors : cached[v].posts \in SocialFeed[v] \cup {<<>>}
SignInKept ==
    /\ signIn \in SignInRow
    /\ signIn.pc # "idle" => signIn.vendor \in Vendors /\ signIn.account \in Accounts
SavedKept ==
    /\ saved \in [Vendors -> SessionRow] /\ signedIn \in [Vendors -> SUBSET Accounts]
    /\ leaving \in Vendors \cup {"none"}
    /\ \A v \in Vendors : /\ saved[v].cookies \in signedIn[v] \cup {"none"}
                          /\ leaving # v => saved[v].storage \in signedIn[v] \cup {"none"}
SocialInv == CollectKept(collect) /\ CachedKept /\ SignInKept /\ SavedKept

LEMMA PostsTyped ==
    ASSUME Social!SocialAssumption, NEW v \in Vendors,
           NEW feed \in SocialFeed[v] \cup {<<>>}
    PROVE Social!Posts(v, feed) \in Seq(VendorPost)
<1>1. CASE feed = <<>>
  <2>1. DOMAIN feed = {} /\ Len(feed) = 0
    BY <1>1
  <2>2. Social!Posts(v, feed) = <<>>
    BY <1>1, <2>1 DEF Social!Posts
  <2> QED  BY <2>2
<1>2. CASE feed \in SocialFeed[v]
  <2>1. feed \in Seq(Social!Range(feed))
    <3>1. \A w \in Vendors : \A f \in SocialFeed[w] : f \in Seq(Social!Range(f))
      BY Zenon DEF Social!SocialAssumption
    <3> QED  BY <1>2, <3>1, Zenon
  <2>2. PICK n \in Nat : n = Len(feed) /\ DOMAIN feed = 1..n
    BY <2>1
  <2>3. ASSUME NEW i \in 1..n
        PROVE [vendor |-> v, id |-> feed[i].id, text |-> feed[i].text] \in VendorPost
    <3>1. feed[i] \in Fetchable
      <4> DEFINE InFeed(f) == Social!Range(f)
      <4>1. feed[i] \in Social!Range(feed)
        BY <2>2 DEF Social!Range
      <4> HIDE DEF InFeed
      <4>2. feed[i] \in UNION {InFeed(f) : f \in SocialFeed[v]}
        <5>1. feed[i] \in InFeed(feed)
          BY <4>1 DEF InFeed
        <5> QED  BY <1>2, <5>1, Zenon
      <4>3. feed[i] \in UNION {UNION {InFeed(f) : f \in SocialFeed[w]} : w \in Vendors}
        BY <4>2, Zenon
      <4> QED  BY <4>3, Zenon DEF Fetchable, InFeed
    <3> QED  BY <3>1 DEF VendorPost, PostIds, PostTexts
  <2>4. Social!Posts(v, feed) = [i \in 1..n |-> [vendor |-> v, id |-> feed[i].id, text |-> feed[i].text]]
    BY <2>2 DEF Social!Posts
  <2> QED  BY <2>3, <2>4
<1> QED  BY <1>1, <1>2

LEMMA CollectFields ==
    ASSUME NEW c \in CollectRow
    PROVE /\ c.got \in Seq(VendorPost) /\ c.posts \in Seq(VendorPost) /\ c.looked \in Nat
          /\ c.ids \in SUBSET (Vendors \X PostIds) /\ c.texts \in SUBSET PostTexts
          /\ c.pc \in [Vendors -> {"idle", "cache", "make", "fetch", "done"}]
          /\ c.session \in [Vendors -> BOOLEAN]
          /\ Len(c.posts) \in Nat /\ Len(c.got) \in Nat
  BY DEF CollectRow

\* Nothing but where the vendors are, and what they got, changes.
LEMMA GotMore ==
    ASSUME NEW c, CollectKept(c), NEW posts \in Seq(VendorPost), NEW d \in CollectRow,
           d.posts = c.posts, d.ids = c.ids, d.texts = c.texts, d.looked = c.looked,
           d.got = c.got \o posts
    PROVE CollectKept(d)
<1>1. c \in CollectRow /\ c.got \in Seq(VendorPost) /\ c.looked \in Nat
  BY CollectFields DEF CollectKept
<1>2. PICK n \in Nat, m \in Nat : n = Len(c.got) /\ m = Len(posts)
  BY <1>1
<1>3. Len(d.got) = n + m /\ \A i \in 1..n : d.got[i] = c.got[i]
  BY <1>1, <1>2, Concatenated
<1>4. d.looked <= n + m /\ \A i \in 1..d.looked : i \in 1..n
  BY <1>1, <1>2 DEF CollectKept, Looked
<1>5. \A i \in 1..d.looked : Shown(d.got[i], d.posts)
  BY <1>3, <1>4 DEF CollectKept, Looked
<1>6. Looked(d.got, d.looked, d.posts)
  BY <1>3, <1>4, <1>5 DEF Looked
<1> QED  BY <1>6 DEF CollectKept

LEMMA OnlyPlaces ==
    ASSUME NEW c, CollectKept(c), NEW d \in CollectRow,
           d.posts = c.posts, d.ids = c.ids, d.texts = c.texts, d.looked = c.looked,
           d.got = c.got
    PROVE CollectKept(d)
  BY DEF CollectKept

LEMMA FinishKept ==
    ASSUME SocialInv, NEW v \in Vendors, NEW posts \in Seq(VendorPost),
           Social!Finish(v, posts)
    PROVE CollectKept(collect')
<1>1. collect \in CollectRow /\ CollectKept(collect)
  BY DEF SocialInv, CollectKept
<1>2. PICK got \in Seq(VendorPost) : got = collect.got \o posts
  BY <1>1, CollectFields, Concatenated
<1>3. PICK pc : pc = [collect.pc EXCEPT ![v] = "done"]
  OBVIOUS
<1>4. PICK session : session = [collect.session EXCEPT ![v] = FALSE]
  OBVIOUS
<1>5. pc \in [Vendors -> {"idle", "cache", "make", "fetch", "done"}]
  BY <1>1, <1>3, CollectFields
<1>6. session \in [Vendors -> BOOLEAN]
  BY <1>1, <1>4, CollectFields, Zenon
<1>7. collect' = [collect EXCEPT !.pc = pc, !.session = session, !.got = got]
  BY <1>2, <1>3, <1>4 DEF Social!Finish
<1>8. /\ collect' \in CollectRow /\ collect'.posts = collect.posts /\ collect'.ids = collect.ids
      /\ collect'.texts = collect.texts /\ collect'.looked = collect.looked
      /\ collect'.got = got
  BY <1>1, <1>2, <1>5, <1>6, <1>7, ZenonT(40) DEF CollectRow
<1> QED  BY <1>1, <1>2, <1>8, GotMore

LEMMA NothingCollected ==
    ASSUME NEW pc \in [Vendors -> {"idle", "cache", "make", "fetch", "done"}]
    PROVE CollectKept([pc |-> pc, session |-> [v \in Vendors |-> FALSE], got |-> <<>>,
                       looked |-> 0, posts |-> <<>>, ids |-> {}, texts |-> {}])
<1>1. PICK c : c = [pc |-> pc, session |-> [v \in Vendors |-> FALSE], got |-> <<>>,
                    looked |-> 0, posts |-> <<>>, ids |-> {}, texts |-> {}]
  OBVIOUS
<1>2. <<>> \in Seq(VendorPost) /\ Len(<<>>) = 0 /\ 1..0 = {}
  OBVIOUS
<1>3. c \in CollectRow
  BY <1>1, <1>2 DEF CollectRow
<1>4. /\ c.got = <<>> /\ c.posts = <<>> /\ c.looked = 0 /\ c.ids = {} /\ c.texts = {}
  BY <1>1
<1>5. Told(<<>>, {}, {}) /\ Apart(<<>>) /\ Looked(<<>>, 0, <<>>)
  BY <1>2 DEF Told, Apart, Looked
<1> QED  BY <1>1, <1>3, <1>4, <1>5 DEF CollectKept

LEMMA StartKept ==
    ASSUME SocialInv, Social!StartCollect
    PROVE CollectKept(collect')
<1>1. PICK enabled \in SUBSET Vendors :
         collect' = [Social!NotStarted EXCEPT
                       !.pc = [v \in Vendors |-> IF v \in enabled THEN "cache" ELSE "idle"]]
  BY DEF Social!StartCollect
<1>2. PICK pc \in [Vendors -> {"idle", "cache", "make", "fetch", "done"}] :
         pc = [v \in Vendors |-> IF v \in enabled THEN "cache" ELSE "idle"]
  OBVIOUS
<1>3. collect' = [pc |-> pc, session |-> [v \in Vendors |-> FALSE], got |-> <<>>,
                  looked |-> 0, posts |-> <<>>, ids |-> {}, texts |-> {}]
  BY <1>1, <1>2 DEF Social!NotStarted
<1> QED  BY <1>2, <1>3, NothingCollected

\* A post of an id and a text that are not known joins the others.
LEMMA NewPost ==
    ASSUME NEW posts \in Seq(VendorPost), NEW p \in VendorPost, NEW ids, NEW texts,
           Told(posts, ids, texts), Apart(posts),
           Key(p) \notin ids, ({p.text} \ {Social!NoText}) \cap texts = {}
    PROVE /\ Told(Append(posts, p), ids \cup {Key(p)}, texts \cup ({p.text} \ {Social!NoText}))
          /\ Apart(Append(posts, p))
          /\ \A q : Shown(q, posts) => Shown(q, Append(posts, p))
          /\ Shown(p, Append(posts, p))
<1>0. Len(posts) \in Nat /\ DOMAIN posts = 1..Len(posts)
  OBVIOUS
<1>1. PICK n \in Nat : n = Len(posts)
  BY <1>0
<1>2. PICK more \in Seq(VendorPost) :
        /\ more = Append(posts, p) /\ Len(more) = n + 1 /\ more[n + 1] = p
        /\ \A i \in 1..n : more[i] = posts[i]
  <2>1. /\ Append(posts, p) \in Seq(VendorPost) /\ Len(Append(posts, p)) = n + 1
        /\ Append(posts, p)[n + 1] = p
        /\ \A i \in 1..n : Append(posts, p)[i] = posts[i]
    BY <1>1, Appended
  <2> QED  BY <2>1
<1>3. \A i \in 1..n + 1 : i \in 1..n \/ i = n + 1
  BY <1>1, OneMore
<1>4. 1..n \subseteq 1..n + 1 /\ n + 1 \in 1..n + 1
  BY <1>1, OneMore
<1>5. \A i \in 1..n : /\ Key(more[i]) \in ids
                      /\ more[i].text # Social!NoText => more[i].text \in texts
  BY <1>1, <1>2 DEF Told
<1>6. p.text = Social!NoText \/ p.text \notin texts
  OBVIOUS
<1>7. Told(more, ids \cup {Key(p)}, texts \cup ({p.text} \ {Social!NoText}))
  <2>1. ASSUME NEW i \in 1..n + 1
        PROVE /\ Key(more[i]) \in ids \cup {Key(p)}
              /\ more[i].text # Social!NoText => more[i].text \in texts \cup ({p.text} \ {Social!NoText})
    BY <1>2, <1>3, <1>5
  <2>2. ASSUME NEW k \in ids \cup {Key(p)}
        PROVE \E i \in 1..n + 1 : Key(more[i]) = k
    <3>1. CASE k = Key(p)
      BY <1>2, <1>4, <3>1
    <3>2. CASE k \in ids
      <4>1. PICK i \in 1..n : Key(posts[i]) = k
        BY <1>1, <3>2 DEF Told
      <4> QED  BY <1>2, <1>4, <4>1
    <3> QED  BY <3>1, <3>2
  <2>3. ASSUME NEW s \in texts \cup ({p.text} \ {Social!NoText})
        PROVE s # Social!NoText /\ \E i \in 1..n + 1 : more[i].text = s
    <3>1. CASE s \in {p.text} \ {Social!NoText}
      BY <1>2, <1>4, <3>1
    <3>2. CASE s \in texts
      <4>1. PICK i \in 1..n : posts[i].text = s
        BY <1>1, <3>2 DEF Told
      <4>2. s # Social!NoText
        BY <3>2 DEF Told
      <4> QED  BY <1>2, <1>4, <4>1, <4>2
    <3> QED  BY <3>1, <3>2
  <2> QED  BY <1>2, <2>1, <2>2, <2>3 DEF Told
<1>8. Apart(more)
  <2>1. ASSUME NEW i \in 1..n + 1, NEW j \in 1..n + 1, i # j
        PROVE /\ Key(more[i]) # Key(more[j])
              /\ more[i].text = more[j].text => more[i].text = Social!NoText
    <3>1. CASE i \in 1..n /\ j \in 1..n
      BY <1>1, <1>2, <2>1, <3>1 DEF Apart
    <3>2. CASE i \in 1..n /\ j = n + 1
      BY <1>2, <1>5, <1>6, <3>2
    <3>3. CASE i = n + 1 /\ j \in 1..n
      BY <1>2, <1>5, <1>6, <3>3
    <3> QED  BY <1>3, <2>1, <3>1, <3>2, <3>3
  <2> QED  BY <1>2, <2>1 DEF Apart
<1>9. ASSUME NEW q, Shown(q, posts) PROVE Shown(q, more)
  <2>1. PICK j \in 1..n : \/ Key(posts[j]) = Key(q)
                          \/ q.text # Social!NoText /\ posts[j].text = q.text
    BY <1>1, <1>9 DEF Shown
  <2> QED  BY <1>2, <1>4, <2>1 DEF Shown
<1>10. Shown(p, more)
  BY <1>2, <1>4 DEF Shown
<1> QED  BY <1>2, <1>7, <1>8, <1>9, <1>10

LEMMA DedupeKept ==
    ASSUME SocialInv, Social!DedupePost
    PROVE CollectKept(collect')
<1>1. /\ collect \in CollectRow /\ CollectKept(collect)
      /\ collect.got \in Seq(VendorPost) /\ collect.posts \in Seq(VendorPost)
  BY CollectFields DEF SocialInv, CollectKept
<1>2. PICK l \in Nat, n \in Nat : l = collect.looked /\ n = Len(collect.got)
  BY <1>1, CollectFields
<1>3. l < n
  BY <1>2 DEF Social!DedupePost
<1>4. PICK p \in VendorPost : p = collect.got[l + 1]
  BY <1>1, <1>2, <1>3
<1>5. l + 1 \in Nat /\ l + 1 <= n /\ \A i \in 1..l + 1 : i \in 1..l \/ i = l + 1
  BY <1>2, <1>3
<1>6. PICK said : said = {p.text} \ {Social!NoText}
  OBVIOUS
<1>7. PICK d : /\ d = Social!Keep(collect, p)
               /\ collect' = [d EXCEPT !.looked = l + 1]
  BY <1>2, <1>4 DEF Social!DedupePost
<1>8. \A i \in 1..l : Shown(collect.got[i], collect.posts)
  BY <1>1, <1>2 DEF CollectKept, Looked
<1>9. Key(p) \in Vendors \X PostIds /\ said \in SUBSET PostTexts
  BY <1>6 DEF Key, VendorPost
<1>10. CASE Key(p) \in collect.ids \/ said \cap collect.texts # {}
  <2>1. d = collect
    BY <1>6, <1>7, <1>10 DEF Social!Keep, Key
  <2>2. collect' = [collect EXCEPT !.looked = l + 1]
    BY <1>7, <2>1
  <2>3. /\ collect' \in CollectRow /\ collect'.posts = collect.posts /\ collect'.ids = collect.ids
        /\ collect'.texts = collect.texts /\ collect'.looked = l + 1
        /\ collect'.got = collect.got
    BY <1>1, <1>5, <2>2, ZenonT(40) DEF CollectRow
  <2>4. Shown(p, collect.posts)
    <3>1. CASE Key(p) \in collect.ids
      BY <1>1, <3>1 DEF CollectKept, Told, Shown
    <3>2. CASE p.text # Social!NoText /\ p.text \in collect.texts
      BY <1>1, <3>2 DEF CollectKept, Told, Shown
    <3> QED  BY <1>6, <1>10, <3>1, <3>2
  <2>5. \A i \in 1..l + 1 : Shown(collect.got[i], collect.posts)
    BY <1>4, <1>5, <1>8, <2>4
  <2>6. Looked(collect.got, l + 1, collect.posts)
    BY <1>2, <1>5, <2>5 DEF Looked
  <2> QED  BY <1>1, <2>3, <2>6 DEF CollectKept
<1>11. CASE ~(Key(p) \in collect.ids \/ said \cap collect.texts # {})
  <2>1. PICK ids \in SUBSET (Vendors \X PostIds) : ids = collect.ids \cup {Key(p)}
    BY <1>1, <1>9, CollectFields
  <2>2. PICK texts \in SUBSET PostTexts : texts = collect.texts \cup said
    BY <1>1, <1>9, CollectFields
  <2>3. PICK posts \in Seq(VendorPost) : posts = Append(collect.posts, p)
    BY <1>1, <1>4, SequenceSteps
  <2>4. d = [collect EXCEPT !.ids = ids, !.texts = texts, !.posts = posts]
    BY <1>6, <1>7, <1>11, <2>1, <2>2, <2>3 DEF Social!Keep, Key
  <2>5. collect' = [[collect EXCEPT !.ids = ids, !.texts = texts, !.posts = posts] EXCEPT !.looked = l + 1]
    BY <1>7, <2>4
  <2>6. /\ collect' \in CollectRow /\ collect'.posts = posts /\ collect'.ids = ids
        /\ collect'.texts = texts /\ collect'.looked = l + 1
        /\ collect'.got = collect.got
    BY <1>1, <1>5, <2>1, <2>2, <2>3, <2>5, ZenonT(40) DEF CollectRow
  <2>7. /\ Told(posts, ids, texts) /\ Apart(posts) /\ Shown(p, posts)
        /\ \A q : Shown(q, collect.posts) => Shown(q, posts)
    BY <1>1, <1>4, <1>6, <1>11, <2>1, <2>2, <2>3, NewPost DEF CollectKept
  <2>8. \A i \in 1..l + 1 : Shown(collect.got[i], posts)
    BY <1>4, <1>5, <1>8, <2>7
  <2>9. Looked(collect.got, l + 1, posts)
    BY <1>2, <1>5, <2>8 DEF Looked
  <2> QED  BY <2>6, <2>7, <2>9 DEF CollectKept
<1> QED  BY <1>10, <1>11

-----------------------------------------------------------------------------
LEMMA SocialInit == ASSUME Social!SocialAssumption, Social!Init PROVE SocialInv
<1>1. CollectKept(collect)
  <2>1. collect = [pc |-> [v \in Vendors |-> "idle"], session |-> [v \in Vendors |-> FALSE],
                   got |-> <<>>, looked |-> 0, posts |-> <<>>, ids |-> {}, texts |-> {}]
    BY DEF Social!Init, Social!NotStarted
  <2> QED  BY <2>1, NothingCollected
<1>2. CachedKept
  BY DEF Social!Init, Social!NoCache, CachedKept
<1>3. SignInKept
  BY DEF Social!Init, Social!Idle, SignInKept, SignInRow
<1>4. SavedKept
  BY DEF Social!Init, SavedKept, SessionRow
<1> QED  BY <1>1, <1>2, <1>3, <1>4 DEF SocialInv

\* What a sign-in does to itself and to the files.
LEMMA SignInSteps ==
    ASSUME SocialInv,
           \/ Social!AskCode \/ Social!LetIn \/ Social!SignInFails
           \/ Social!SaveCookies \/ Social!SaveStorage
           \/ \E v \in Vendors, a \in Accounts, how \in {"window", "password", "cookiesOnly"} :
                Social!OpenSignIn(v, a, how)
    PROVE SignInKept'
<1>0. signIn \in SignInRow /\ Social!Idle \in SignInRow /\ Social!Idle.pc = "idle"
  BY DEF SocialInv, SignInKept, SignInRow, Social!Idle
<1>1. ASSUME signIn' = Social!Idle PROVE SignInKept'
  BY <1>0, <1>1 DEF SignInKept
<1>2. ASSUME NEW pc \in {"code", "cookiesOnly", "storage"}, signIn.pc # "idle",
             signIn' = [signIn EXCEPT !.pc = pc]
      PROVE SignInKept'
  <2>1. signIn' \in SignInRow /\ signIn'.vendor = signIn.vendor /\ signIn'.account = signIn.account
    BY <1>0, <1>2 DEF SignInRow
  <2> QED  BY <1>2, <2>1 DEF SocialInv, SignInKept
<1>3. CASE Social!AskCode
  BY <1>2, <1>3 DEF Social!AskCode
<1>4. CASE Social!LetIn
  BY <1>2, <1>4 DEF Social!LetIn
<1>5. CASE Social!SignInFails
  BY <1>1, <1>5 DEF Social!SignInFails
<1>6. CASE Social!SaveCookies
  BY <1>1, <1>2, <1>6 DEF Social!SaveCookies
<1>7. CASE Social!SaveStorage
  BY <1>1, <1>7 DEF Social!SaveStorage
<1>8. ASSUME NEW v \in Vendors, NEW a \in Accounts,
             NEW how \in {"window", "password", "cookiesOnly"}, Social!OpenSignIn(v, a, how)
      PROVE SignInKept'
  <2>1. signIn' = [pc |-> how, vendor |-> v, account |-> a]
    BY <1>8 DEF Social!OpenSignIn
  <2>2. signIn' \in SignInRow /\ signIn'.vendor = v /\ signIn'.account = a
    BY <2>1 DEF SignInRow
  <2> QED  BY <2>2 DEF SignInKept
<1> QED  BY <1>3, <1>4, <1>5, <1>6, <1>7, <1>8

\* Whoever is saved has signed in; a cookies' file, and a storage state that no disconnect
\* is about to clear, are of the same account or of nobody.
LEMMA SaveKept ==
    ASSUME SavedKept, NEW v \in Vendors, NEW a \in Accounts,
           NEW kind \in {"cookies", "storage"}, Social!Save(v, kind, a), leaving' = leaving
    PROVE SavedKept'
<1>1. CASE UNCHANGED <<saved, signedIn>>
  BY <1>1 DEF SavedKept
<1>2. CASE /\ saved' = [saved EXCEPT ![v][kind] = a]
           /\ signedIn' = [signedIn EXCEPT ![v] = @ \cup {a}]
  <2>1. PICK row : row = [saved[v] EXCEPT ![kind] = a]
    OBVIOUS
  <2>2. saved[v] \in SessionRow
    BY DEF SavedKept
  <2>3. /\ row \in SessionRow /\ row[kind] = a
        /\ row.cookies \in {a, saved[v].cookies} /\ row.storage \in {a, saved[v].storage}
    BY <2>1, <2>2 DEF SessionRow
  <2>4. /\ saved' = [saved EXCEPT ![v] = row]
        /\ signedIn' = [signedIn EXCEPT ![v] = signedIn[v] \cup {a}]
    BY <1>2, <2>1
  <2>5. /\ saved' \in [Vendors -> SessionRow] /\ signedIn' \in [Vendors -> SUBSET Accounts]
        /\ saved'[v] = row /\ signedIn'[v] = signedIn[v] \cup {a}
        /\ \A w \in Vendors \ {v} : saved'[w] = saved[w] /\ signedIn'[w] = signedIn[w]
    BY <2>3, <2>4 DEF SavedKept
  <2>6. ASSUME NEW w \in Vendors
        PROVE /\ saved'[w].cookies \in signedIn'[w] \cup {"none"}
              /\ leaving # w => saved'[w].storage \in signedIn'[w] \cup {"none"}
    <3>1. CASE w = v
      BY <2>3, <2>5, <3>1 DEF SavedKept
    <3>2. CASE w # v
      BY <2>5, <3>2 DEF SavedKept
    <3> QED  BY <3>1, <3>2
  <2> QED  BY <2>5, <2>6 DEF SavedKept
<1> QED  BY <1>1, <1>2 DEF Social!Save

\* A disconnect forgets who signed in, and owes the storage state until it is cleared.
LEMMA LeaveKept ==
    ASSUME Social!SocialAssumption, SavedKept,
           \/ Social!DisconnectStorage
           \/ \E v \in Vendors : Social!Disconnect(v) \/ Social!Logout(v)
    PROVE SavedKept'
<1>1. \A v \in Vendors : v # "none"
  BY DEF Social!SocialAssumption
<1>2. ASSUME NEW v \in Vendors,
             saved' = [saved EXCEPT ![v].cookies = "none"] \/ saved' = [saved EXCEPT ![v].storage = "none"]
      PROVE /\ saved' \in [Vendors -> SessionRow]
            /\ \A w \in Vendors \ {v} : saved'[w] = saved[w]
            /\ saved' = [saved EXCEPT ![v].cookies = "none"] =>
                 saved'[v].cookies = "none" /\ saved'[v].storage = saved[v].storage
            /\ saved' = [saved EXCEPT ![v].storage = "none"] =>
                 saved'[v].storage = "none" /\ saved'[v].cookies = saved[v].cookies
  BY <1>2 DEF SavedKept, SessionRow
<1>3. CASE Social!DisconnectStorage
  <2>1. PICK v \in Vendors : v = leaving
    BY <1>3 DEF Social!DisconnectStorage, SavedKept
  <2>2. /\ saved' = [saved EXCEPT ![v].storage = "none"] /\ leaving' = "none" /\ signedIn' = signedIn
    BY <1>3, <2>1 DEF Social!DisconnectStorage
  <2>3. /\ saved' \in [Vendors -> SessionRow] /\ \A w \in Vendors \ {v} : saved'[w] = saved[w]
        /\ saved'[v].storage = "none" /\ saved'[v].cookies = saved[v].cookies
    BY <1>2, <2>2
  <2> QED  BY <2>1, <2>2, <2>3 DEF SavedKept
<1>4. ASSUME NEW v \in Vendors, Social!Disconnect(v) PROVE SavedKept'
  <2>1. /\ saved' = [saved EXCEPT ![v].cookies = "none"] /\ leaving = "none" /\ leaving' = v
        /\ signedIn' = [signedIn EXCEPT ![v] = {}]
    BY <1>4 DEF Social!Disconnect
  <2>2. /\ saved' \in [Vendors -> SessionRow] /\ \A w \in Vendors \ {v} : saved'[w] = saved[w]
        /\ saved'[v].cookies = "none"
    BY <1>2, <2>1
  <2>3. /\ signedIn' \in [Vendors -> SUBSET Accounts]
        /\ \A w \in Vendors \ {v} : signedIn'[w] = signedIn[w]
    BY <2>1 DEF SavedKept
  <2> QED  BY <1>1, <2>1, <2>2, <2>3 DEF SavedKept
<1>5. ASSUME NEW v \in Vendors, Social!Logout(v) PROVE SavedKept'
  <2>1. saved' = [saved EXCEPT ![v].cookies = "none"] /\ UNCHANGED <<leaving, signedIn>>
    BY <1>5 DEF Social!Logout
  <2>2. /\ saved' \in [Vendors -> SessionRow] /\ \A w \in Vendors \ {v} : saved'[w] = saved[w]
        /\ saved'[v].cookies = "none" /\ saved'[v].storage = saved[v].storage
    BY <1>2, <2>1
  <2> QED  BY <2>1, <2>2 DEF SavedKept
<1> QED  BY <1>3, <1>4, <1>5

\* A vendor of a collection is made with the jar's session if there is no other.
LEMMA MakeKept ==
    ASSUME Social!SocialAssumption, SocialInv, NEW v \in Vendors, Social!MakeVendor(v)
    PROVE CollectKept(collect') /\ SavedKept'
<1>1. PICK jar \in BOOLEAN :
         LET fromJar == /\ EnvAccount[v] = "none" /\ saved[v].cookies = "none"
                        /\ jar /\ JarAccount[v] # "none"
             cookies == IF EnvAccount[v] # "none" THEN EnvAccount[v]
                        ELSE IF fromJar THEN JarAccount[v] ELSE saved[v].cookies
             storage == IF v = "facebook" THEN saved[v].storage ELSE "none"
         IN /\ IF fromJar THEN Social!Save(v, "cookies", JarAccount[v])
               ELSE UNCHANGED <<saved, signedIn>>
            /\ collect' = [collect EXCEPT !.pc[v] = "fetch",
                             !.session[v] = {cookies, storage} # {"none"}]
  BY DEF Social!MakeVendor
<1>2. \/ JarAccount[v] # "none" /\ Social!Save(v, "cookies", JarAccount[v])
      \/ UNCHANGED <<saved, signedIn>>
  BY <1>1, Zenon
<1>3. PICK holds \in BOOLEAN :
        collect' = [collect EXCEPT !.pc[v] = "fetch", !.session[v] = holds]
  <2> DEFINE fromJar == /\ EnvAccount[v] = "none" /\ saved[v].cookies = "none"
                        /\ jar /\ JarAccount[v] # "none"
             cookies == IF EnvAccount[v] # "none" THEN EnvAccount[v]
                        ELSE IF fromJar THEN JarAccount[v] ELSE saved[v].cookies
             storage == IF v = "facebook" THEN saved[v].storage ELSE "none"
             holding == {cookies, storage} # {"none"}
  <2>1. collect' = [collect EXCEPT !.pc[v] = "fetch", !.session[v] = holding]
    BY <1>1, Zenon
  <2>2. holding \in BOOLEAN
    OBVIOUS
  <2> HIDE DEF holding
  <2> QED  BY <2>1, <2>2
<1>4. SavedKept'
  <2>1. leaving' = leaving /\ SavedKept
    BY DEF Social!MakeVendor, SocialInv
  <2>2. CASE JarAccount[v] # "none" /\ Social!Save(v, "cookies", JarAccount[v])
    <3>1. JarAccount[v] \in Accounts
      BY <2>2 DEF Social!SocialAssumption
    <3> QED  BY <2>1, <2>2, <3>1, SaveKept
  <2>3. CASE UNCHANGED <<saved, signedIn>>
    BY <2>1, <2>3 DEF SavedKept
  <2> QED  BY <1>2, <2>2, <2>3
<1>5. CollectKept(collect')
  <2>0. collect \in CollectRow /\ CollectKept(collect)
    BY DEF SocialInv, CollectKept
  <2>1. PICK pc : pc = [collect.pc EXCEPT ![v] = "fetch"]
    OBVIOUS
  <2>2. PICK session : session = [collect.session EXCEPT ![v] = holds]
    OBVIOUS
  <2>3. pc \in [Vendors -> {"idle", "cache", "make", "fetch", "done"}]
    BY <2>0, <2>1, CollectFields
  <2>4. session \in [Vendors -> BOOLEAN]
    BY <2>0, <2>2, CollectFields, Zenon
  <2>5. collect' = [collect EXCEPT !.pc = pc, !.session = session]
    BY <1>3, <2>1, <2>2
  <2>6. /\ collect' \in CollectRow /\ collect'.posts = collect.posts /\ collect'.ids = collect.ids
        /\ collect'.texts = collect.texts /\ collect'.looked = collect.looked
        /\ collect'.got = collect.got
    BY <2>0, <2>3, <2>4, <2>5, ZenonT(40) DEF CollectRow
  <2> QED  BY <2>0, <2>6, OnlyPlaces
<1> QED  BY <1>4, <1>5

\* What a vendor answers is of its own.
LEMMA AnswerKept ==
    ASSUME Social!SocialAssumption, SocialInv, NEW v \in Vendors,
           Social!ReadCache(v) \/ Social!MakeFails(v) \/ Social!FetchRendered(v) \/ Social!FetchAnswered(v)
    PROVE CollectKept(collect') /\ CachedKept'
<1>1. CASE Social!ReadCache(v)
  <2>1. CachedKept'
    BY <1>1 DEF Social!ReadCache, SocialInv, CachedKept
  <2>2. CASE cached[v].state = "fresh"
    <3>1. Social!Posts(v, cached[v].posts) \in Seq(VendorPost)
      BY PostsTyped DEF SocialInv, CachedKept
    <3> QED  BY <1>1, <2>1, <2>2, <3>1, FinishKept DEF Social!ReadCache
  <2>3. CASE cached[v].state # "fresh"
    <3>0. collect \in CollectRow /\ CollectKept(collect)
      BY DEF SocialInv, CollectKept
    <3>1. PICK pc \in [Vendors -> {"idle", "cache", "make", "fetch", "done"}] :
            pc = [collect.pc EXCEPT ![v] = "make"]
      BY <3>0, CollectFields
    <3>2. collect' = [collect EXCEPT !.pc = pc]
      BY <1>1, <2>3, <3>1 DEF Social!ReadCache
    <3>3. /\ collect' \in CollectRow /\ collect'.posts = collect.posts /\ collect'.ids = collect.ids
          /\ collect'.texts = collect.texts /\ collect'.looked = collect.looked
          /\ collect'.got = collect.got
      BY <3>0, <3>2, ZenonT(40) DEF CollectRow
    <3> QED  BY <2>1, <3>0, <3>3, OnlyPlaces
  <2> QED  BY <2>2, <2>3
<1>2. CASE Social!MakeFails(v)
  <2>1. <<>> \in Seq(VendorPost)
    OBVIOUS
  <2>2. CachedKept'
    BY <1>2 DEF Social!MakeFails, SocialInv, CachedKept
  <2> QED  BY <1>2, <2>1, <2>2, FinishKept DEF Social!MakeFails
<1>3. ASSUME NEW feed \in SocialFeed[v] \cup {<<>>}, Social!Fetched(v, feed)
      PROVE CollectKept(collect') /\ CachedKept'
  <2>1. Social!Posts(v, feed) \in Seq(VendorPost)
    BY PostsTyped
  <2>2. CollectKept(collect')
    BY <1>3, <2>1, FinishKept DEF Social!Fetched
  <2>3. CachedKept'
    BY <1>3 DEF Social!Fetched, SocialInv, CachedKept
  <2> QED  BY <2>2, <2>3
<1>4. CASE Social!FetchRendered(v)
  BY <1>3, <1>4 DEF Social!FetchRendered
<1>5. CASE Social!FetchAnswered(v)
  BY <1>3, <1>5 DEF Social!FetchAnswered
<1> QED  BY <1>1, <1>2, <1>4, <1>5

LEMMA SocialKept ==
    ASSUME Social!SocialAssumption, SocialInv, [Social!Next]_Social!socialVars
    PROVE SocialInv'
<1>0. CollectKept(collect) /\ CachedKept /\ SignInKept /\ SavedKept
  BY DEF SocialInv
<1>1. UNCHANGED collect => CollectKept(collect')
  BY <1>0
<1>2. UNCHANGED cached => CachedKept'
  BY <1>0 DEF CachedKept
<1>3. UNCHANGED signIn => SignInKept'
  BY <1>0 DEF SignInKept
<1>4. UNCHANGED <<saved, leaving, signedIn>> => SavedKept'
  BY <1>0 DEF SavedKept
<1>5. CASE \/ Social!AskCode \/ Social!LetIn \/ Social!SignInFails
           \/ \E v \in Vendors, a \in Accounts, how \in {"window", "password", "cookiesOnly"} :
                Social!OpenSignIn(v, a, how)
  <2>1. SignInKept'
    BY <1>5, SignInSteps
  <2>2. UNCHANGED <<saved, leaving, cached, collect, signedIn>>
    BY <1>5 DEF Social!AskCode, Social!LetIn, Social!SignInFails, Social!OpenSignIn
  <2> QED  BY <1>1, <1>2, <1>4, <2>1, <2>2 DEF SocialInv
<1>6. CASE Social!SaveCookies \/ Social!SaveStorage
  <2>1. SignInKept'
    BY <1>6, SignInSteps
  <2>2. UNCHANGED <<leaving, cached, collect>>
    BY <1>6 DEF Social!SaveCookies, Social!SaveStorage
  <2>3. signIn.vendor \in Vendors /\ signIn.account \in Accounts
    BY <1>0, <1>6 DEF Social!SaveCookies, Social!SaveStorage, SignInKept
  <2>4. \E kind \in {"cookies", "storage"} : Social!Save(signIn.vendor, kind, signIn.account)
    BY <1>6 DEF Social!SaveCookies, Social!SaveStorage
  <2>5. SavedKept'
    BY <1>0, <2>2, <2>3, <2>4, SaveKept
  <2> QED  BY <1>1, <1>2, <2>1, <2>2, <2>5 DEF SocialInv
<1>7. CASE \/ Social!DisconnectStorage
           \/ \E v \in Vendors : Social!Disconnect(v) \/ Social!Logout(v)
  <2>1. SavedKept'
    BY <1>0, <1>7, LeaveKept
  <2>2. UNCHANGED <<signIn, cached, collect>>
    BY <1>7 DEF Social!DisconnectStorage, Social!Disconnect, Social!Logout
  <2> QED  BY <1>1, <1>2, <1>3, <2>1, <2>2 DEF SocialInv
<1>8. CASE Social!StartCollect \/ Social!DedupePost
  <2>1. CollectKept(collect')
    BY <1>8, StartKept, DedupeKept
  <2>2. UNCHANGED <<saved, signIn, leaving, cached, signedIn>>
    BY <1>8 DEF Social!StartCollect, Social!DedupePost
  <2> QED  BY <1>2, <1>3, <1>4, <2>1, <2>2 DEF SocialInv
<1>9. ASSUME NEW v \in Vendors, Social!MakeVendor(v) PROVE SocialInv'
  <2>1. CollectKept(collect') /\ SavedKept'
    BY <1>9, MakeKept
  <2>2. UNCHANGED <<signIn, cached>>
    BY <1>9 DEF Social!MakeVendor
  <2> QED  BY <1>2, <1>3, <2>1, <2>2 DEF SocialInv
<1>10. ASSUME NEW v \in Vendors,
              \/ Social!ReadCache(v) \/ Social!MakeFails(v)
              \/ Social!FetchRendered(v) \/ Social!FetchAnswered(v)
       PROVE SocialInv'
  <2>1. CollectKept(collect') /\ CachedKept'
    BY <1>10, AnswerKept
  <2>2. UNCHANGED <<saved, signIn, leaving, signedIn>>
    BY <1>10 DEF Social!ReadCache, Social!MakeFails, Social!FetchRendered, Social!FetchAnswered, Social!Fetched
  <2> QED  BY <1>3, <1>4, <2>1, <2>2 DEF SocialInv
<1>11. ASSUME NEW v \in Vendors, Social!Expire(v) PROVE SocialInv'
  <2>1. CachedKept'
    BY <1>0, <1>11 DEF Social!Expire, Social!NoCache, CachedKept
  <2>2. UNCHANGED <<saved, signIn, leaving, collect, signedIn>>
    BY <1>11 DEF Social!Expire
  <2> QED  BY <1>1, <1>3, <1>4, <2>1, <2>2 DEF SocialInv
<1>12. CASE UNCHANGED Social!socialVars
  BY <1>1, <1>2, <1>3, <1>4, <1>12 DEF Social!socialVars, SocialInv
<1> QED  BY <1>5, <1>6, <1>7, <1>8, <1>9, <1>10, <1>11, <1>12 DEF Social!Next

LEMMA SocialShows == ASSUME SocialInv PROVE Social!TypeOK /\ Social!CollectionIsWhole
<1>1. /\ collect \in CollectRow /\ Told(collect.posts, collect.ids, collect.texts)
      /\ Apart(collect.posts) /\ Looked(collect.got, collect.looked, collect.posts)
  BY DEF SocialInv, CollectKept
<1>2. /\ collect.posts \in Seq(VendorPost) /\ collect.looked \in Nat /\ Len(collect.got) \in Nat
      /\ DOMAIN collect.posts = 1..Len(collect.posts)
  BY <1>1, CollectFields
<1>3. Social!TypeOK
  <2>1. collect.looked \in 0..Len(collect.got)
    BY <1>1, <1>2 DEF Looked
  <2>2. collect.pc \in [Vendors -> {"idle", "cache", "make", "fetch", "done"}]
    BY <1>1, CollectFields
  <2>3. signIn.pc \in {"idle", "window", "password", "code", "cookiesOnly", "storage"}
    BY DEF SocialInv, SignInKept, SignInRow
  <2> QED  BY <2>1, <2>2, <2>3 DEF Social!TypeOK, SocialInv, SavedKept, SessionRow
<1>4. \A i, j \in DOMAIN collect.posts : i # j =>
         LET p == collect.posts[i]
             q == collect.posts[j]
         IN /\ <<p.vendor, p.id>> # <<q.vendor, q.id>>
            /\ p.text = q.text => p.text = Social!NoText
  BY <1>1, <1>2 DEF Apart, Key
<1>5. ASSUME NEW i \in 1..collect.looked
      PROVE \E q \in Social!Range(collect.posts) :
              LET p == collect.got[i]
              IN \/ q.vendor = p.vendor /\ q.id = p.id
                 \/ p.text # Social!NoText /\ q.text = p.text
  <2>1. PICK j \in 1..Len(collect.posts) :
          \/ Key(collect.posts[j]) = Key(collect.got[i])
          \/ /\ collect.got[i].text # Social!NoText
             /\ collect.posts[j].text = collect.got[i].text
    BY <1>1, <1>5 DEF Looked, Shown
  <2>2. collect.posts[j] \in Social!Range(collect.posts)
    BY <1>2, <2>1 DEF Social!Range
  <2> QED  BY <2>1, <2>2 DEF Key
<1>6. \A v \in Vendors : leaving # v =>
         {saved[v].cookies, saved[v].storage} \subseteq signedIn[v] \cup {"none"}
  BY DEF SocialInv, SavedKept
<1> QED  BY <1>3, <1>4, <1>5, <1>6 DEF Social!CollectionIsWhole

-----------------------------------------------------------------------------
\* Crawls.  What was visited and what waits fit in the budget together; what was visited
\* was extracted or has failed, but for the page at hand.

Reach == {u \in Crawl!Urls : u \notin Elsewhere}
Permitted == {u \in Reach : u \notin Forbidden}
QueueItem == [url : Reach, depth : Nat]
PageRow == [url : Reach, method : {"known", "learned", "readable"}]
CrawlRow ==
    [pc : {"pop", "fetch", "ask", "select", "ended"}, count : Nat,
     queue : Seq(QueueItem), queued : SUBSET Reach,
     visited : Seq(Permitted), skipped : SUBSET Reach, failed : SUBSET Reach,
     extracted : Seq(PageRow), item : QueueItem, links : SUBSET Reach, asked : 0..2]

Members(visited) == {visited[i] : i \in 1..Len(visited)}
Extracts(extracted) == {extracted[i].url : i \in 1..Len(extracted)}
Fits(visited, waiting) == Len(visited) + Len(waiting) <= CrawlLimit
OnceEach(visited) == \A i, j \in 1..Len(visited) : visited[i] = visited[j] => i = j
\* Either all that was visited is handled, or all but one page.
Handled(visited, extracted, failed) ==
    /\ Extracts(extracted) \cap failed = {}
    /\ Extracts(extracted) \cup failed = Members(visited)
AtHand(visited, extracted, failed, url) ==
    /\ Extracts(extracted) \cap failed = {}
    /\ url \notin Extracts(extracted) \cup failed
    /\ Extracts(extracted) \cup failed \cup {url} = Members(visited)
CrawlKept(c) ==
    /\ c \in CrawlRow /\ IsFiniteSet(c.links)
    /\ Fits(c.visited, c.queue) /\ OnceEach(c.visited)
    /\ c.pc \in {"fetch", "ask"} => AtHand(c.visited, c.extracted, c.failed, c.item.url)
    /\ c.pc \notin {"fetch", "ask"} => Handled(c.visited, c.extracted, c.failed)
    /\ c.pc = "ended" => c.queue = <<>>
RulesKept ==
    /\ known \in [Crawl!Layouts -> RuleSets \cup {Crawl!Unlearned}]
    /\ learnedOn \in [Crawl!Layouts -> SUBSET Crawl!Urls]
    /\ \A l \in Crawl!Layouts :
         known[l] # Crawl!Unlearned => \E u \in learnedOn[l] : Crawl!Valid(u, known[l])
CrawlInv == CrawlKept(crawl) /\ RulesKept

LEMMA CrawlFields ==
    ASSUME NEW c \in CrawlRow
    PROVE /\ c.queue \in Seq(QueueItem) /\ c.queued \in SUBSET Reach
          /\ c.visited \in Seq(Permitted) /\ c.extracted \in Seq(PageRow)
          /\ c.skipped \in SUBSET Reach /\ c.failed \in SUBSET Reach
          /\ c.item \in QueueItem /\ c.links \in SUBSET Reach /\ c.asked \in 0..2
          /\ c.count \in Nat /\ c.item.url \in Reach /\ c.item.depth \in Nat
          /\ Len(c.queue) \in Nat /\ Len(c.visited) \in Nat /\ Len(c.extracted) \in Nat
          /\ c.pc \in {"pop", "fetch", "ask", "select", "ended"}
<1>1. /\ c.queue \in Seq(QueueItem) /\ c.queued \in SUBSET Reach
      /\ c.visited \in Seq(Permitted) /\ c.extracted \in Seq(PageRow)
      /\ c.skipped \in SUBSET Reach /\ c.failed \in SUBSET Reach
      /\ c.item \in QueueItem /\ c.links \in SUBSET Reach /\ c.asked \in 0..2
      /\ c.count \in Nat
      /\ c.pc \in {"pop", "fetch", "ask", "select", "ended"}
  BY DEF CrawlRow
<1>2. c.item.url \in Reach /\ c.item.depth \in Nat
  BY <1>1 DEF QueueItem
<1> QED  BY <1>1, <1>2

LEMMA NewCrawlKept ==
    ASSUME Crawl!CrawlAssumption, NEW n \in Nat
    PROVE CrawlKept(Crawl!NewCrawl(n))
<1>1. Seed \in Reach
  BY DEF Crawl!CrawlAssumption, Crawl!Safe, Reach
<1>2. PICK item \in QueueItem : item = Crawl!Item(Seed, 0)
  BY <1>1 DEF QueueItem, Crawl!Item
<1>3. PICK c : c = Crawl!NewCrawl(n)
  OBVIOUS
<1>4. <<item>> \in Seq(QueueItem) /\ Len(<<item>>) = 1
  OBVIOUS
<1>5. <<>> \in Seq(Permitted) /\ <<>> \in Seq(PageRow) /\ Len(<<>>) = 0 /\ 1..0 = {}
  OBVIOUS
<1>6. c = [pc |-> "pop", count |-> n, queue |-> <<item>>, queued |-> {Seed},
           visited |-> <<>>, skipped |-> {}, failed |-> {}, extracted |-> <<>>,
           item |-> item, links |-> {}, asked |-> 0]
  BY <1>2, <1>3 DEF Crawl!NewCrawl
<1>7. 0 \in 0..2 /\ {Seed} \in SUBSET Reach
  BY <1>1
<1>8. c \in CrawlRow
  BY <1>2, <1>4, <1>5, <1>6, <1>7, ZenonT(40) DEF CrawlRow
<1>9. /\ c.visited = <<>> /\ c.queue = <<item>> /\ c.extracted = <<>> /\ c.failed = {}
      /\ c.pc = "pop" /\ c.links = {}
  BY <1>6
<1>10. Fits(<<>>, <<item>>)
  <2>1. CrawlLimit \in Nat /\ CrawlLimit >= 1
    BY DEF Crawl!CrawlAssumption
  <2> QED  BY <1>4, <1>5, <2>1 DEF Fits
<1>11. OnceEach(<<>>) /\ Handled(<<>>, <<>>, {})
  BY <1>5 DEF OnceEach, Handled, Extracts, Members
<1>12. IsFiniteSet({})
  BY FS_EmptySet
<1> QED  BY <1>3, <1>8, <1>9, <1>10, <1>11, <1>12 DEF CrawlKept

\* A page that fails, or is extracted, was the one at hand.
LEMMA FailKept ==
    ASSUME NEW c, CrawlKept(c), c.pc \in {"fetch", "ask"}
    PROVE CrawlKept(Crawl!Fail(c))
<1>0. c \in CrawlRow /\ c.failed \in SUBSET Reach /\ c.item.url \in Reach
  BY CrawlFields DEF CrawlKept
<1>1. PICK failed \in SUBSET Reach : failed = c.failed \cup {c.item.url}
  BY <1>0
<1>2. PICK d : d = Crawl!Fail(c)
  OBVIOUS
<1>3. d = [c EXCEPT !.pc = "pop", !.failed = failed]
  BY <1>0, <1>1, <1>2 DEF Crawl!Fail
<1>4. /\ d \in CrawlRow /\ d.pc = "pop" /\ d.failed = failed /\ d.links = c.links
      /\ d.visited = c.visited /\ d.queue = c.queue /\ d.extracted = c.extracted
  BY <1>0, <1>1, <1>3, ZenonT(40) DEF CrawlRow
<1>5. Handled(c.visited, c.extracted, failed)
  BY <1>1 DEF CrawlKept, AtHand, Handled
<1> QED  BY <1>2, <1>4, <1>5 DEF CrawlKept

LEMMA ExtractKept ==
    ASSUME NEW c, CrawlKept(c), c.pc \in {"fetch", "ask"},
           NEW method \in {"known", "learned", "readable"},
           NEW links \in SUBSET Reach, IsFiniteSet(links)
    PROVE CrawlKept(Crawl!Extract(c, method, links))
<1>0. /\ c \in CrawlRow /\ c.extracted \in Seq(PageRow) /\ c.item.url \in Reach
      /\ Len(c.extracted) \in Nat
  BY CrawlFields DEF CrawlKept
<1>1. PICK page \in PageRow : page = [url |-> c.item.url, method |-> method] /\ page.url = c.item.url
  <2>1. [url |-> c.item.url, method |-> method] \in PageRow
    BY <1>0 DEF PageRow
  <2> QED  BY <2>1
<1>2. PICK n \in Nat : n = Len(c.extracted)
  BY <1>0
<1>3. PICK more \in Seq(PageRow) :
        /\ more = Append(c.extracted, page) /\ Len(more) = n + 1 /\ more[n + 1] = page
        /\ \A i \in 1..n : more[i] = c.extracted[i]
  <2>1. /\ Append(c.extracted, page) \in Seq(PageRow) /\ Len(Append(c.extracted, page)) = n + 1
        /\ Append(c.extracted, page)[n + 1] = page
        /\ \A i \in 1..n : Append(c.extracted, page)[i] = c.extracted[i]
    BY <1>0, <1>2, Appended
  <2> QED  BY <2>1
<1>4. Extracts(more) = Extracts(c.extracted) \cup {c.item.url}
  <2>1. /\ 1..n \subseteq 1..n + 1 /\ n + 1 \in 1..n + 1
        /\ \A i \in 1..n + 1 : i \in 1..n \/ i = n + 1
    BY OneMore
  <2>2. Extracts(more) = {more[i].url : i \in 1..n + 1}
    BY <1>3 DEF Extracts
  <2>3. Extracts(c.extracted) = {c.extracted[i].url : i \in 1..n}
    BY <1>2 DEF Extracts
  <2>4. ASSUME NEW u \in Extracts(more) PROVE u \in Extracts(c.extracted) \cup {c.item.url}
    BY <1>1, <1>3, <2>1, <2>2, <2>3, <2>4
  <2>5. ASSUME NEW u \in Extracts(c.extracted) PROVE u \in Extracts(more)
    BY <1>3, <2>1, <2>2, <2>3, <2>5
  <2>6. c.item.url \in Extracts(more)
    BY <1>1, <1>3, <2>1, <2>2
  <2> QED  BY <2>4, <2>5, <2>6
<1>5. PICK d : d = Crawl!Extract(c, method, links)
  OBVIOUS
<1>6. d = [c EXCEPT !.pc = "select", !.links = links, !.extracted = more]
  BY <1>0, <1>1, <1>3, <1>5 DEF Crawl!Extract
<1>7. /\ d \in CrawlRow /\ d.pc = "select" /\ d.failed = c.failed /\ d.links = links
      /\ d.visited = c.visited /\ d.queue = c.queue /\ d.extracted = more
  BY <1>0, <1>3, <1>6, ZenonT(40) DEF CrawlRow
<1>8. Handled(c.visited, more, c.failed)
  BY <1>4 DEF CrawlKept, AtHand, Handled
<1> QED  BY <1>5, <1>7, <1>8 DEF CrawlKept

LEMMA FollowsReach ==
    ASSUME Crawl!CrawlAssumption, NEW u \in Crawl!Urls, NEW found
    PROVE /\ Crawl!Candidates(u, found) \in SUBSET Reach
          /\ IsFiniteSet(Crawl!Candidates(u, found))
<1>1. Crawl!Candidates(u, found) \in SUBSET Reach
  BY DEF Crawl!Candidates, Crawl!Safe, Reach
<1>2. Crawl!Candidates(u, found) \in SUBSET Site[u].links
  BY DEF Crawl!Candidates
<1>3. Crawl!IsFiniteSet(Site[u].links)
  BY DEF Crawl!CrawlAssumption
<1>4. IsFiniteSet(Site[u].links)
  BY <1>3 DEF Crawl!IsFiniteSet, IsFiniteSet
<1> QED  BY <1>1, <1>2, <1>4, FS_Subset

\* What enters the queue is chosen, and no more of it than there is.
LEMMA EnteringFits ==
    ASSUME NEW c, NEW chosen, IsFiniteSet(chosen), NEW k \in Nat,
           Crawl!Cardinality(chosen) <= k, NEW s \in Crawl!Enterings(c, chosen)
    PROVE s \in Seq(chosen) /\ Len(s) <= k /\ Crawl!Range(s) \subseteq chosen
<1>1. PICK fresh \in SUBSET chosen : s \in Crawl!Orders(fresh)
  BY DEF Crawl!Enterings
<1>2. \A S : Crawl!Cardinality(S) = Cardinality(S)
  BY DEF Crawl!Cardinality, Cardinality
<1>3. PICK size \in Nat : size = Cardinality(fresh)
  BY FS_Subset, FS_CardinalityType
<1>4. PICK all \in Nat : all = Cardinality(chosen)
  BY FS_CardinalityType
<1>5. size <= all /\ all <= k
  <2>1. Cardinality(fresh) <= Cardinality(chosen)
    BY FS_Subset
  <2> QED  BY <1>2, <1>3, <1>4, <2>1
<1>6. PICK n \in 0..size : s \in [1..n -> fresh]
  BY <1>1, <1>2, <1>3 DEF Crawl!Orders
<1>7. n \in Nat /\ n <= k
  BY <1>3, <1>4, <1>5, <1>6
<1>8. s \in Seq(chosen) /\ Len(s) = n
  BY <1>6, <1>7
<1>9. Crawl!Range(s) \subseteq chosen
  BY <1>6 DEF Crawl!Range
<1> QED  BY <1>7, <1>8, <1>9

LEMMA RoomOf ==
    ASSUME NEW v \in Nat, NEW w \in Nat, NEW l \in Nat, v + w <= l
    PROVE l - (v + w) \in Nat /\ v + w + (l - (v + w)) <= l /\ v + w + 0 <= l
  OBVIOUS

LEMMA RoomLeft ==
    ASSUME NEW c \in CrawlRow, Fits(c.visited, c.queue), Crawl!CrawlAssumption
    PROVE /\ Crawl!Remaining(c) \in Nat
          /\ Len(c.visited) + Len(c.queue) + Crawl!Remaining(c) <= CrawlLimit
          /\ Len(c.visited) + Len(c.queue) + 0 <= CrawlLimit
<1>1. PICK v \in Nat, w \in Nat : v = Len(c.visited) /\ w = Len(c.queue)
  BY CrawlFields
<1>2. PICK l \in Nat : l = CrawlLimit
  BY DEF Crawl!CrawlAssumption
<1>3. v + w <= l
  BY <1>1, <1>2 DEF Fits
<1>4. l - (v + w) \in Nat /\ v + w + (l - (v + w)) <= l /\ v + w + 0 <= l
  BY <1>3, RoomOf
<1>5. Crawl!Remaining(c) = IF v + w >= l THEN 0 ELSE l - (v + w)
  BY <1>1, <1>2 DEF Crawl!Remaining
<1>6. PICK r \in Nat : r = Crawl!Remaining(c) /\ v + w + r <= l
  <2>1. CASE v + w >= l
    BY <1>4, <1>5, <2>1
  <2>2. CASE ~(v + w >= l)
    BY <1>4, <1>5, <2>2
  <2> QED  BY <2>1, <2>2
<1> QED  BY <1>1, <1>2, <1>4, <1>6

LEMMA LessRoom ==
    ASSUME NEW v \in Nat, NEW w \in Nat, NEW n \in Nat, NEW k \in Nat, NEW l \in Nat,
           n <= k, v + w + k <= l
    PROVE v + (w + n) <= l
  OBVIOUS

LEMMA SelectKept ==
    ASSUME Crawl!CrawlAssumption, CrawlKept(crawl), Crawl!SelectLinks
    PROVE CrawlKept(crawl')
<1>0. /\ crawl \in CrawlRow /\ crawl.queue \in Seq(QueueItem) /\ crawl.links \in SUBSET Reach
      /\ crawl.queued \in SUBSET Reach /\ crawl.skipped \in SUBSET Reach
      /\ crawl.item.depth \in Nat
      /\ Len(crawl.visited) \in Nat /\ Len(crawl.queue) \in Nat
  BY CrawlFields DEF CrawlKept
<1>1. PICK chosen \in SUBSET crawl.links :
         /\ Crawl!Cardinality(chosen) <=
              IF crawl.item.depth < MaxDepth THEN Crawl!Remaining(crawl) ELSE 0
         /\ \E s \in Crawl!Enterings(crawl, chosen) : crawl' = Crawl!Enqueue(crawl, chosen, s)
  BY DEF Crawl!SelectLinks
<1>2. PICK s \in Crawl!Enterings(crawl, chosen) : crawl' = Crawl!Enqueue(crawl, chosen, s)
  BY <1>1
<1>3. PICK k \in Nat : /\ k = IF crawl.item.depth < MaxDepth THEN Crawl!Remaining(crawl) ELSE 0
                       /\ Len(crawl.visited) + Len(crawl.queue) + k <= CrawlLimit
  <2>1. /\ Crawl!Remaining(crawl) \in Nat
        /\ Len(crawl.visited) + Len(crawl.queue) + Crawl!Remaining(crawl) <= CrawlLimit
        /\ Len(crawl.visited) + Len(crawl.queue) + 0 <= CrawlLimit
    BY <1>0, RoomLeft DEF CrawlKept
  <2> QED  BY <2>1
<1>4. IsFiniteSet(chosen)
  BY FS_Subset DEF CrawlKept
<1>5. s \in Seq(chosen) /\ Len(s) <= k /\ Crawl!Range(s) \subseteq chosen
  BY <1>1, <1>3, <1>4, EnteringFits
<1>6. PICK n \in Nat : n = Len(s) /\ DOMAIN s = 1..n /\ n <= k
  BY <1>5
<1>7. PICK items \in Seq(QueueItem) :
        /\ items = [i \in DOMAIN s |-> Crawl!Item(s[i], crawl.item.depth + 1)]
        /\ Len(items) = n
  <2>1. ASSUME NEW i \in 1..n PROVE Crawl!Item(s[i], crawl.item.depth + 1) \in QueueItem
    <3>1. s[i] \in Reach
      BY <1>0, <1>5, <1>6
    <3> QED  BY <1>0, <3>1 DEF Crawl!Item, QueueItem
  <2>2. PICK items : items = [i \in 1..n |-> Crawl!Item(s[i], crawl.item.depth + 1)]
    OBVIOUS
  <2>3. items \in Seq(QueueItem) /\ Len(items) = n
    BY <2>1, <2>2
  <2> QED  BY <1>6, <2>2, <2>3
<1>8. PICK queue \in Seq(QueueItem) :
        queue = crawl.queue \o items /\ Len(queue) = Len(crawl.queue) + n
  <2>1. crawl.queue \o items \in Seq(QueueItem) /\ Len(crawl.queue \o items) = Len(crawl.queue) + n
    BY <1>0, <1>7, Concatenated
  <2> QED  BY <2>1
<1>9. PICK seen \in SUBSET Reach : seen = crawl.queued \cup Crawl!Range(s)
  BY <1>0, <1>5
<1>10. PICK skipped \in SUBSET Reach : skipped = crawl.skipped \cup (chosen \ Crawl!Range(s))
  BY <1>0, <1>5
<1>11. crawl' = [crawl EXCEPT !.pc = "pop", !.links = {}, !.queued = seen,
                              !.skipped = skipped, !.queue = queue]
  BY <1>0, <1>2, <1>7, <1>8, <1>9, <1>10 DEF Crawl!Enqueue
<1>12. /\ crawl' \in CrawlRow /\ crawl'.pc = "pop" /\ crawl'.failed = crawl.failed
       /\ crawl'.links = {} /\ crawl'.visited = crawl.visited /\ crawl'.queue = queue
       /\ crawl'.extracted = crawl.extracted
  BY <1>0, <1>8, <1>9, <1>10, <1>11, ZenonT(40) DEF CrawlRow
<1>13. Fits(crawl.visited, queue)
  <2>1. PICK v \in Nat, w \in Nat : v = Len(crawl.visited) /\ w = Len(crawl.queue)
    BY <1>0
  <2>2. v + (w + n) <= CrawlLimit
    <3>1. CrawlLimit \in Nat /\ v + w + k <= CrawlLimit
      BY <1>3, <2>1 DEF Crawl!CrawlAssumption
    <3> QED  BY <1>3, <1>6, <2>1, <3>1, LessRoom
  <2> QED  BY <1>8, <2>1, <2>2 DEF Fits
<1>14. Handled(crawl.visited, crawl.extracted, crawl.failed)
  BY DEF CrawlKept, Crawl!SelectLinks
<1>15. IsFiniteSet({})
  BY FS_EmptySet
<1> QED  BY <1>12, <1>13, <1>14, <1>15 DEF CrawlKept

LEMMA OneVisited ==
    ASSUME NEW v \in Nat, NEW w \in Nat, NEW l \in Nat, v + w <= l, w >= 1
    PROVE v + (w - 1) <= l /\ (v + 1) + (w - 1) <= l
  OBVIOUS

\* The next item is dropped, or visited if it is permitted and new.
LEMMA PopKept ==
    ASSUME Crawl!CrawlAssumption, CrawlKept(crawl), Crawl!Pop
    PROVE CrawlKept(crawl')
<1>0. /\ crawl \in CrawlRow /\ crawl.queue \in Seq(QueueItem) /\ crawl.visited \in Seq(Permitted)
      /\ crawl.skipped \in SUBSET Reach
      /\ Len(crawl.visited) \in Nat /\ Len(crawl.queue) \in Nat
      /\ crawl.queue # <<>> /\ crawl.pc = "pop"
  BY CrawlFields DEF CrawlKept, Crawl!Pop
<1>1. PICK v \in Nat, w \in Nat : /\ v = Len(crawl.visited) /\ w = Len(crawl.queue)
                                  /\ DOMAIN crawl.visited = 1..v
  BY <1>0
<1>2. PICK item \in QueueItem : item = Head(crawl.queue) /\ item.url \in Reach
  <2>1. Head(crawl.queue) \in QueueItem
    BY <1>0, SequenceSteps
  <2>2. Head(crawl.queue).url \in Reach
    BY <2>1 DEF QueueItem
  <2> QED  BY <2>1, <2>2
<1>3. PICK queue \in Seq(QueueItem) : queue = Tail(crawl.queue) /\ Len(queue) = w - 1 /\ w >= 1
  <2>1. Tail(crawl.queue) \in Seq(QueueItem)
    BY <1>0, SequenceSteps
  <2>2. w >= 1 /\ Len(Tail(crawl.queue)) = w - 1
    BY <1>0, <1>1
  <2> QED  BY <2>1, <2>2
<1>4. PICK rest : rest = [crawl EXCEPT !.queue = queue]
  OBVIOUS
<1>5. /\ rest \in CrawlRow /\ rest.pc = "pop" /\ rest.failed = crawl.failed
      /\ rest.links = crawl.links /\ rest.visited = crawl.visited /\ rest.queue = queue
      /\ rest.extracted = crawl.extracted /\ rest.skipped = crawl.skipped
  BY <1>0, <1>4, ZenonT(40) DEF CrawlRow
<1>6. PICK l \in Nat : l = CrawlLimit /\ v + w <= l
  BY <1>1 DEF Crawl!CrawlAssumption, CrawlKept, Fits
<1>7. crawl' =
        IF item.url \in Crawl!Range(crawl.visited) THEN rest
        ELSE IF item.depth > MaxDepth \/ item.url \in Forbidden
             THEN [rest EXCEPT !.skipped = @ \cup {item.url}]
        ELSE [rest EXCEPT !.pc = "fetch", !.item = item, !.asked = 0,
                          !.visited = Append(@, item.url)]
  BY <1>0, <1>2, <1>3, <1>4 DEF Crawl!Pop
<1>8. Crawl!Range(crawl.visited) = Members(crawl.visited)
  BY <1>1 DEF Crawl!Range, Members
<1>9. Handled(crawl.visited, crawl.extracted, crawl.failed) /\ OnceEach(crawl.visited)
  BY <1>0 DEF CrawlKept
<1>10. v + (w - 1) <= l /\ (v + 1) + (w - 1) <= l
  BY <1>3, <1>6, OneVisited
<1>11. Fits(crawl.visited, queue)
  BY <1>1, <1>3, <1>6, <1>10 DEF Fits
<1>12. CrawlKept(rest)
  BY <1>5, <1>9, <1>11 DEF CrawlKept
<1>13. CASE item.url \in Crawl!Range(crawl.visited)
  BY <1>7, <1>12, <1>13
<1>14. CASE /\ item.url \notin Crawl!Range(crawl.visited)
            /\ item.depth > MaxDepth \/ item.url \in Forbidden
  <2>1. PICK skipped \in SUBSET Reach : skipped = rest.skipped \cup {item.url}
    BY <1>0, <1>2, <1>5
  <2>2. crawl' = [rest EXCEPT !.skipped = skipped]
    BY <1>7, <1>14, <2>1
  <2>3. /\ crawl' \in CrawlRow /\ crawl'.pc = "pop" /\ crawl'.failed = crawl.failed
        /\ crawl'.links = crawl.links /\ crawl'.visited = crawl.visited /\ crawl'.queue = queue
        /\ crawl'.extracted = crawl.extracted
    BY <1>5, <2>1, <2>2, ZenonT(40) DEF CrawlRow
  <2> QED  BY <1>9, <1>11, <2>3 DEF CrawlKept
<1>15. CASE /\ item.url \notin Crawl!Range(crawl.visited)
            /\ ~(item.depth > MaxDepth \/ item.url \in Forbidden)
  <2>1. item.url \in Permitted /\ item.url \notin Members(crawl.visited)
    BY <1>2, <1>8, <1>15 DEF Permitted
  <2>2. PICK visited \in Seq(Permitted) :
          /\ visited = Append(crawl.visited, item.url) /\ Len(visited) = v + 1
          /\ visited[v + 1] = item.url /\ \A i \in 1..v : visited[i] = crawl.visited[i]
    <3>1. /\ Append(crawl.visited, item.url) \in Seq(Permitted)
          /\ Len(Append(crawl.visited, item.url)) = v + 1
          /\ Append(crawl.visited, item.url)[v + 1] = item.url
          /\ \A i \in 1..v : Append(crawl.visited, item.url)[i] = crawl.visited[i]
      BY <1>0, <1>1, <2>1, Appended
    <3> QED  BY <3>1
  <2>3. /\ 1..v \subseteq 1..v + 1 /\ v + 1 \in 1..v + 1
        /\ \A i \in 1..v + 1 : i \in 1..v \/ i = v + 1
    BY OneMore
  <2>4. \A i \in 1..v : crawl.visited[i] # item.url
    BY <1>1, <2>1 DEF Members
  <2>5. Members(visited) = Members(crawl.visited) \cup {item.url}
    <3>1. Members(visited) = {visited[i] : i \in 1..v + 1}
      BY <2>2 DEF Members
    <3>2. Members(crawl.visited) = {crawl.visited[i] : i \in 1..v}
      BY <1>1 DEF Members
    <3>3. ASSUME NEW u \in Members(visited) PROVE u \in Members(crawl.visited) \cup {item.url}
      BY <2>2, <2>3, <3>1, <3>2, <3>3
    <3>4. ASSUME NEW u \in Members(crawl.visited) PROVE u \in Members(visited)
      BY <2>2, <2>3, <3>1, <3>2, <3>4
    <3>5. item.url \in Members(visited)
      BY <2>2, <2>3, <3>1
    <3> QED  BY <3>3, <3>4, <3>5
  <2>6. OnceEach(visited)
    <3>1. ASSUME NEW i \in 1..v + 1, NEW j \in 1..v + 1, visited[i] = visited[j]
          PROVE i = j
      <4>1. CASE i \in 1..v /\ j \in 1..v
        BY <1>1, <1>9, <2>2, <3>1, <4>1 DEF OnceEach
      <4>2. CASE i \in 1..v /\ j = v + 1
        BY <2>2, <2>4, <3>1, <4>2
      <4>3. CASE i = v + 1 /\ j \in 1..v
        BY <2>2, <2>4, <3>1, <4>3
      <4> QED  BY <2>3, <4>1, <4>2, <4>3
    <3> QED  BY <2>2, <3>1 DEF OnceEach
  <2>7. Fits(visited, queue)
    BY <1>3, <1>6, <1>10, <2>2 DEF Fits
  <2>8. AtHand(visited, crawl.extracted, crawl.failed, item.url)
    BY <1>9, <2>1, <2>5 DEF Handled, AtHand
  <2>9. crawl' = [rest EXCEPT !.pc = "fetch", !.item = item, !.asked = 0, !.visited = visited]
    BY <1>5, <1>7, <1>15, <2>2
  <2>10. 0 \in 0..2
    OBVIOUS
  <2>11. /\ crawl' \in CrawlRow /\ crawl'.pc = "fetch" /\ crawl'.failed = crawl.failed
         /\ crawl'.links = crawl.links /\ crawl'.visited = visited /\ crawl'.queue = queue
         /\ crawl'.extracted = crawl.extracted /\ crawl'.item = item
    BY <1>5, <2>2, <2>9, <2>10, ZenonT(40) DEF CrawlRow
  <2> QED  BY <2>6, <2>7, <2>8, <2>11 DEF CrawlKept
<1> QED  BY <1>13, <1>14, <1>15

\* Known rules are used where they are valid; rules are learned where they are.
LEMMA LayoutSteps ==
    ASSUME Crawl!CrawlAssumption, CrawlInv,
           Crawl!UseKnown \/ Crawl!Learn \/ Crawl!ReadPlainly
    PROVE CrawlInv'
<1>0. /\ crawl \in CrawlRow /\ CrawlKept(crawl) /\ RulesKept /\ crawl.item.url \in Crawl!Urls
      /\ crawl.asked \in 0..2 /\ crawl.pc \in {"fetch", "ask"}
  BY CrawlFields DEF CrawlInv, CrawlKept, Reach, Crawl!UseKnown, Crawl!Learn, Crawl!ReadPlainly
<1>1. PICK u \in Crawl!Urls : u = crawl.item.url
  BY <1>0
<1>2. \A found : /\ CrawlKept(Crawl!Extract(crawl, "known", Crawl!Candidates(u, found)))
                 /\ CrawlKept(Crawl!Extract(crawl, "learned", Crawl!Candidates(u, found)))
  BY <1>0, <1>1, FollowsReach, ExtractKept
<1>3. UNCHANGED <<known, learnedOn>> => RulesKept'
  BY <1>0 DEF RulesKept, Crawl!Valid, Crawl!Candidates
<1>4. CASE Crawl!UseKnown
  <2>1. \/ crawl' = Crawl!Extract(crawl, "known", Crawl!Candidates(u, known[Site[u].layout]))
        \/ crawl' = [crawl EXCEPT !.pc = "ask"]
    BY <1>1, <1>4 DEF Crawl!UseKnown
  <2>2. ASSUME crawl' = [crawl EXCEPT !.pc = "ask"] PROVE CrawlKept(crawl')
    <3>1. /\ crawl' \in CrawlRow /\ crawl'.pc = "ask" /\ crawl'.failed = crawl.failed
          /\ crawl'.links = crawl.links /\ crawl'.visited = crawl.visited
          /\ crawl'.queue = crawl.queue /\ crawl'.extracted = crawl.extracted
          /\ crawl'.item = crawl.item
      BY <1>0, <2>2, ZenonT(40) DEF CrawlRow
    <3> QED  BY <1>0, <3>1 DEF CrawlKept
  <2>3. CrawlKept(crawl')
    BY <1>2, <2>1, <2>2
  <2> QED  BY <1>3, <1>4, <2>3 DEF CrawlInv, Crawl!UseKnown
<1>5. CASE Crawl!Learn
  <2>1. crawl.asked < 2
    BY <1>5 DEF Crawl!Learn
  <2>2. PICK found \in RuleSets \cup {Crawl!Unlearned} :
          IF found # Crawl!Unlearned /\ Crawl!Valid(u, found)
          THEN /\ known' = [known EXCEPT ![Site[u].layout] = found]
               /\ learnedOn' = [learnedOn EXCEPT ![Site[u].layout] = @ \cup {u}]
               /\ crawl' = Crawl!Extract(crawl, "learned", Crawl!Candidates(u, found))
          ELSE /\ crawl' = [crawl EXCEPT !.asked = @ + 1]
               /\ UNCHANGED <<known, learnedOn>>
    BY <1>1, <1>5 DEF Crawl!Learn
  <2>3. CASE found # Crawl!Unlearned /\ Crawl!Valid(u, found)
    <3>1. PICK at \in Crawl!Layouts : at = Site[u].layout
      BY DEF Crawl!Layouts, Crawl!Urls
    <3>2. /\ known' = [known EXCEPT ![at] = found]
          /\ learnedOn' = [learnedOn EXCEPT ![at] = learnedOn[at] \cup {u}]
          /\ crawl' = Crawl!Extract(crawl, "learned", Crawl!Candidates(u, found))
      BY <2>2, <2>3, <3>1
    <3>3. /\ known' \in [Crawl!Layouts -> RuleSets \cup {Crawl!Unlearned}] /\ known'[at] = found
          /\ learnedOn' \in [Crawl!Layouts -> SUBSET Crawl!Urls]
          /\ learnedOn'[at] = learnedOn[at] \cup {u}
          /\ \A l \in Crawl!Layouts \ {at} : known'[l] = known[l] /\ learnedOn'[l] = learnedOn[l]
      BY <1>0, <3>1, <3>2 DEF RulesKept
    <3>4. ASSUME NEW l \in Crawl!Layouts, known'[l] # Crawl!Unlearned
          PROVE \E x \in learnedOn'[l] : Crawl!Valid(x, known'[l])
      <4>1. CASE l = at
        BY <2>3, <3>3, <4>1
      <4>2. CASE l # at
        BY <1>0, <3>3, <3>4, <4>2 DEF RulesKept
      <4> QED  BY <4>1, <4>2
    <3>5. RulesKept'
      BY <3>3, <3>4 DEF RulesKept, Crawl!Valid, Crawl!Candidates
    <3>6. CrawlKept(crawl')
      BY <1>2, <3>2
    <3> QED  BY <3>5, <3>6 DEF CrawlInv
  <2>4. CASE ~(found # Crawl!Unlearned /\ Crawl!Valid(u, found))
    <3>1. PICK asked \in 0..2 : asked = crawl.asked + 1
      BY <1>0, <2>1
    <3>2. crawl' = [crawl EXCEPT !.asked = asked] /\ UNCHANGED <<known, learnedOn>>
      BY <2>2, <2>4, <3>1
    <3>3. /\ crawl' \in CrawlRow /\ crawl'.pc = crawl.pc /\ crawl'.failed = crawl.failed
          /\ crawl'.links = crawl.links /\ crawl'.visited = crawl.visited
          /\ crawl'.queue = crawl.queue /\ crawl'.extracted = crawl.extracted
          /\ crawl'.item = crawl.item
      BY <1>0, <3>2, ZenonT(40) DEF CrawlRow
    <3>4. CrawlKept(crawl')
      BY <1>0, <3>3 DEF CrawlKept
    <3> QED  BY <1>3, <3>2, <3>4 DEF CrawlInv
  <2> QED  BY <2>3, <2>4
<1>6. CASE Crawl!ReadPlainly
  <2>1. IsFiniteSet({}) /\ {} \in SUBSET Reach
    BY FS_EmptySet
  <2>2. CrawlKept(Crawl!Extract(crawl, "readable", {})) /\ CrawlKept(Crawl!Fail(crawl))
    BY <1>0, <2>1, ExtractKept, FailKept
  <2>3. CrawlKept(crawl')
    BY <1>6, <2>2 DEF Crawl!ReadPlainly
  <2> QED  BY <1>3, <1>6, <2>3 DEF CrawlInv, Crawl!ReadPlainly
<1> QED  BY <1>4, <1>5, <1>6

LEMMA NoneOfNone == ASSUME NEW S, NEW s \in Seq(S), Len(s) = 0 PROVE s = <<>>
  OBVIOUS

\* When the limit is reached, nothing waits.
LEMMA EndKept ==
    ASSUME Crawl!CrawlAssumption, CrawlKept(crawl), Crawl!EndCrawl
    PROVE CrawlKept(crawl')
<1>0. /\ crawl \in CrawlRow /\ crawl.queue \in Seq(QueueItem) /\ Len(crawl.visited) \in Nat
      /\ Len(crawl.queue) \in Nat
  BY CrawlFields DEF CrawlKept
<1>1. crawl.queue = <<>>
  <2>1. CASE Len(crawl.visited) >= CrawlLimit
    <3>1. PICK v \in Nat, w \in Nat, l \in Nat :
            v = Len(crawl.visited) /\ w = Len(crawl.queue) /\ l = CrawlLimit
      BY <1>0 DEF Crawl!CrawlAssumption
    <3>2. v + w <= l /\ v >= l
      BY <2>1, <3>1 DEF CrawlKept, Fits
    <3>3. w = 0
      BY <3>2
    <3>4. Len(crawl.queue) = 0
      BY <3>1, <3>3
    <3> QED  BY <1>0, <3>4, NoneOfNone
  <2> QED  BY <2>1 DEF Crawl!EndCrawl
<1>2. crawl.pc = "pop" /\ crawl' = [crawl EXCEPT !.pc = "ended"]
  BY DEF Crawl!EndCrawl
<1>3. /\ crawl' \in CrawlRow /\ crawl'.pc = "ended" /\ crawl'.failed = crawl.failed
      /\ crawl'.links = crawl.links /\ crawl'.visited = crawl.visited
      /\ crawl'.queue = crawl.queue /\ crawl'.extracted = crawl.extracted
  BY <1>0, <1>2, ZenonT(40) DEF CrawlRow
<1> QED  BY <1>1, <1>2, <1>3 DEF CrawlKept

LEMMA CrawlInit == ASSUME Crawl!CrawlAssumption, Crawl!Init PROVE CrawlInv
<1>1. CrawlKept(crawl)
  BY NewCrawlKept DEF Crawl!Init
<1>2. RulesKept
  BY DEF Crawl!Init, RulesKept
<1> QED  BY <1>1, <1>2 DEF CrawlInv

LEMMA CrawlKeeps ==
    ASSUME Crawl!CrawlAssumption, CrawlInv, [Crawl!Next]_Crawl!crawlVars
    PROVE CrawlInv'
<1>0. CrawlKept(crawl) /\ RulesKept
  BY DEF CrawlInv
<1>1. UNCHANGED <<known, learnedOn>> => RulesKept'
  BY <1>0 DEF RulesKept, Crawl!Valid, Crawl!Candidates
<1>2. CASE Crawl!Pop \/ Crawl!SelectLinks \/ Crawl!EndCrawl
  <2>1. CrawlKept(crawl')
    BY <1>0, <1>2, PopKept, SelectKept, EndKept
  <2> QED  BY <1>1, <1>2, <2>1 DEF CrawlInv, Crawl!Pop, Crawl!SelectLinks, Crawl!EndCrawl
<1>3. CASE Crawl!FetchFails
  <2>1. CrawlKept(crawl')
    BY <1>0, <1>3, FailKept DEF Crawl!FetchFails
  <2> QED  BY <1>1, <1>3, <2>1 DEF CrawlInv, Crawl!FetchFails
<1>4. CASE Crawl!UseKnown \/ Crawl!Learn \/ Crawl!ReadPlainly
  BY <1>4, LayoutSteps
<1>5. CASE Crawl!NextCrawl
  <2>1. crawl.count \in Nat
    BY <1>0, CrawlFields DEF CrawlKept
  <2>2. CrawlKept(crawl')
    BY <1>5, <2>1, NewCrawlKept DEF Crawl!NextCrawl
  <2> QED  BY <1>1, <1>5, <2>2 DEF CrawlInv, Crawl!NextCrawl
<1>6. CASE UNCHANGED Crawl!crawlVars
  BY <1>0, <1>1, <1>6 DEF Crawl!crawlVars, CrawlInv
<1> QED  BY <1>2, <1>3, <1>4, <1>5, <1>6 DEF Crawl!Next

LEMMA CrawlShows == ASSUME CrawlInv PROVE Crawl!TypeOK /\ Crawl!CrawlIsWhole
<1>0. /\ CrawlKept(crawl) /\ crawl \in CrawlRow /\ crawl.visited \in Seq(Permitted)
      /\ crawl.extracted \in Seq(PageRow) /\ crawl.queued \in SUBSET Reach
      /\ crawl.skipped \in SUBSET Reach /\ crawl.asked \in 0..2
      /\ crawl.pc \in {"pop", "fetch", "ask", "select", "ended"}
  BY CrawlFields DEF CrawlInv, CrawlKept
<1>1. Crawl!TypeOK
  BY <1>0 DEF Crawl!TypeOK, CrawlInv, RulesKept, Reach
<1>2. DOMAIN crawl.visited = 1..Len(crawl.visited) /\ DOMAIN crawl.extracted = 1..Len(crawl.extracted)
  BY <1>0
<1>3. crawl.pc = "ended" => crawl.queue = <<>>
  BY <1>0 DEF CrawlKept
<1>4. Crawl!IsInjective(crawl.visited)
  BY <1>0, <1>2 DEF CrawlKept, OnceEach, Crawl!IsInjective
<1>5. Crawl!Range(crawl.visited) \cap (Forbidden \cup Elsewhere) = {}
  <2>1. ASSUME NEW i \in 1..Len(crawl.visited)
        PROVE crawl.visited[i] \notin Forbidden \cup Elsewhere
    <3>1. crawl.visited[i] \in Permitted
      BY <1>0, <1>2
    <3> QED  BY <3>1 DEF Permitted, Reach
  <2> QED  BY <1>2, <2>1 DEF Crawl!Range
<1>6. crawl.pc \in {"pop", "ended"} =>
         LET extracted == {e.url : e \in Crawl!Range(crawl.extracted)} IN
         /\ extracted \cap crawl.failed = {}
         /\ extracted \cup crawl.failed = Crawl!Range(crawl.visited)
  <2>1. {e.url : e \in Crawl!Range(crawl.extracted)} = Extracts(crawl.extracted)
    BY <1>2 DEF Extracts, Crawl!Range
  <2>2. Crawl!Range(crawl.visited) = Members(crawl.visited)
    BY <1>2 DEF Members, Crawl!Range
  <2>3. crawl.pc \in {"pop", "ended"} => Handled(crawl.visited, crawl.extracted, crawl.failed)
    BY <1>0 DEF CrawlKept
  <2> QED  BY <2>1, <2>2, <2>3 DEF Handled
<1> QED  BY <1>1, <1>3, <1>4, <1>5, <1>6 DEF CrawlInv, RulesKept, Crawl!CrawlIsWhole

-----------------------------------------------------------------------------
\* Builds.  What was tagged is tagged once; the projects and posts of an industry are
\* those of the tags looked at; a resume that was rendered stands, unless another of the
\* same directory was rendered after.

AnySkill == Skills \cup Build!Industries
BuildTag == [source : Build!Sources, industries : Seq(Build!Industries), skills : SUBSET AnySkill]
BuildRow ==
    [pc : {"idle", "tag", "static", "projects", "posts", "render", "ended", "dead"},
     count : 0..MaxBuilds, tries : [Build!Sources -> Nat], failed : SUBSET Build!Sources,
     tagged : Seq(BuildTag), looked : Nat, projects : [Build!Industries -> Seq(Build!Sources)],
     skills : [Build!Industries -> SUBSET AnySkill],
     posts : [Build!Industries -> Seq(Build!Sources)],
     plans : Seq(Build!Industries), plan : Nat, format : Nat]
ProfileRow == [industries : SUBSET Build!Industries, skills : SUBSET AnySkill]

Named(t) == Members(t.industries)
Shows(t, i) == t.source \in DOMAIN Repos /\ i \in Named(t)
TagSources(tags) == {tags[k].source : k \in 1..Len(tags)}
TagsApart(tags) == \A j, k \in 1..Len(tags) : tags[j].source = tags[k].source => j = k
Classified(tags, failed, industries) ==
    /\ TagsApart(tags)
    /\ TagSources(tags) \cap failed = {} /\ TagSources(tags) \cup failed = Build!Sources
    /\ \A k \in 1..Len(tags) : OnceEach(tags[k].industries) /\ Named(tags[k]) \subseteq industries
\* The first l tags are looked at.
ProjectsUpTo(l, tags, projects) ==
    \A i \in Build!Industries :
      /\ OnceEach(projects[i])
      /\ \A s : s \in Members(projects[i]) <=>
                  \E k \in 1..l : Shows(tags[k], i) /\ tags[k].source = s
PostsUpTo(l, tags, posts) ==
    \A i \in Build!Industries :
      /\ OnceEach(posts[i])
      /\ \A s \in Members(posts[i]) : \E k \in 1..l : tags[k].source = s
ResumeOf(b, i) ==
    [by |-> b.count, industry |-> i, projects |-> b.projects[i], posts |-> b.posts[i]]
Rendered(b, docs) ==
    \A k \in 1..Len(b.plans), m \in 1..Len(Formats) :
      k < b.plan \/ (k = b.plan /\ m < b.format) =>
        \/ \E o \in 1..Len(b.plans) : o # k /\ Slug[b.plans[o]] = Slug[b.plans[k]]
        \/ docs[Slug[b.plans[k]]][Formats[m]] = ResumeOf(b, b.plans[k])

Tagging(b) == TagsApart(b.tagged) /\ TagSources(b.tagged) \cap b.failed = {}
Unplanned(b) == b.plans = <<>> /\ b.plan = 1 /\ b.format = 1
NothingYet(b) ==
    /\ b.looked = 0 /\ \A i \in Build!Industries : b.projects[i] = <<>> /\ b.posts[i] = <<>>
BuildKept(b, industries, docs) ==
    /\ b \in BuildRow /\ b.looked <= Len(b.tagged)
    /\ b.plan \in 1..Len(b.plans) + 1 /\ b.format \in 1..Len(Formats) + 1
    /\ b.pc \notin {"render", "ended"} => Unplanned(b)
    /\ b.pc \in {"tag", "static"} => NothingYet(b)
    /\ b.pc = "tag" => Tagging(b)
    /\ b.pc = "static" => b.tagged = <<>> /\ b.failed = {}
    /\ b.pc \in {"projects", "posts", "render", "ended"} =>
         Classified(b.tagged, b.failed, industries)
    /\ b.pc = "projects" => /\ ProjectsUpTo(b.looked, b.tagged, b.projects)
                            /\ PostsUpTo(0, b.tagged, b.posts)
    /\ b.pc = "posts" => /\ ProjectsUpTo(Len(b.tagged), b.tagged, b.projects)
                         /\ PostsUpTo(b.looked, b.tagged, b.posts)
    /\ b.pc \in {"render", "ended"} =>
         /\ ProjectsUpTo(Len(b.tagged), b.tagged, b.projects)
         /\ PostsUpTo(Len(b.tagged), b.tagged, b.posts)
         /\ OnceEach(b.plans) /\ Members(b.plans) = {i \in Build!Industries : b.projects[i] # <<>>}
         /\ Rendered(b, docs)
    /\ b.pc = "ended" => b.plan > Len(b.plans)
Dirs == {Slug[i] : i \in Build!Industries}
Grid(docs, D, F) == docs = [d \in D |-> [f \in F |-> docs[d][f]]]
Written(docs, dir, name, text) == [docs EXCEPT ![dir][name] = text]
FilesKept == files = [d \in Dirs |-> [f \in Build!Range(Formats) |-> files[d][f]]]
BuildInv ==
    BuildKept(build, profile.industries, files) /\ FilesKept /\ profile \in ProfileRow

LEMMA BuildFields ==
    ASSUME NEW b \in BuildRow
    PROVE /\ b.tagged \in Seq(BuildTag) /\ Len(b.tagged) \in Nat /\ b.looked \in Nat
          /\ b.failed \in SUBSET Build!Sources /\ b.tries \in [Build!Sources -> Nat]
          /\ b.projects \in [Build!Industries -> Seq(Build!Sources)]
          /\ b.posts \in [Build!Industries -> Seq(Build!Sources)]
          /\ b.skills \in [Build!Industries -> SUBSET AnySkill]
          /\ b.plans \in Seq(Build!Industries) /\ Len(b.plans) \in Nat
          /\ b.plan \in Nat /\ b.format \in Nat /\ b.count \in 0..MaxBuilds
          /\ b.pc \in {"idle", "tag", "static", "projects", "posts", "render", "ended", "dead"}
  BY DEF BuildRow

LEMMA BuildFinite ==
    ASSUME Build!BuildAssumption
    PROVE /\ IsFiniteSet(Build!Industries) /\ IsFiniteSet(Build!Sources)
          /\ \A S : Build!Cardinality(S) = Cardinality(S)
<1>1. Build!IsFiniteSet(Build!Industries) /\ Build!IsFiniteSet(Build!Sources)
  BY DEF Build!BuildAssumption
<1> QED  BY <1>1 DEF Build!IsFiniteSet, IsFiniteSet, Build!Cardinality, Cardinality

LEMMA RangeIs ==
    ASSUME NEW S, NEW s \in Seq(S)
    PROVE /\ Build!Range(s) = Members(s) /\ Members(s) \subseteq S
          /\ s # <<>> => \E e : e \in Members(s)
          /\ OnceEach(s) => Build!IsInjective(s)
<1>1. PICK n \in Nat : n = Len(s) /\ DOMAIN s = 1..n
  OBVIOUS
<1>2. Build!Range(s) = Members(s) /\ Members(s) \subseteq S
  BY <1>1 DEF Build!Range, Members
<1>3. ASSUME s # <<>> PROVE s[1] \in Members(s)
  <2>1. 1 \in 1..n
    BY <1>1, <1>3
  <2> QED  BY <1>1, <2>1 DEF Members
<1>4. OnceEach(s) => Build!IsInjective(s)
  BY <1>1 DEF OnceEach, Build!IsInjective
<1> QED  BY <1>2, <1>3, <1>4

LEMMA ListedAll ==
    ASSUME Build!BuildAssumption, NEW S, IsFiniteSet(S)
    PROVE /\ Build!Listed(S) \in Seq(S) /\ OnceEach(Build!Listed(S))
          /\ Members(Build!Listed(S)) = S
<1>1. PICK n \in Nat : n = Cardinality(S) /\ n = Build!Cardinality(S)
  BY FS_CardinalityType, BuildFinite
<1>2. ExistsBijection(1..n, S)
  BY <1>1, FS_CardinalityType
<1>3. PICK f \in Bijection(1..n, S) : TRUE
  BY <1>2 DEF ExistsBijection
<1>4. /\ f \in [1..n -> S] /\ \A i, j \in 1..n : f[i] = f[j] => i = j
      /\ \A x \in S : \E i \in 1..n : f[i] = x
  BY <1>3 DEF Bijection, Injection, Surjection, IsInjective
<1>5. Build!IsInjective(f) /\ Build!Range(f) = S
  BY <1>4 DEF Build!IsInjective, Build!Range
<1>6. PICK s : s = Build!Listed(S)
  OBVIOUS
<1>7. s \in [1..n -> S] /\ Build!IsInjective(s) /\ Build!Range(s) = S
  BY <1>1, <1>4, <1>5, <1>6 DEF Build!Listed
<1>8. s \in Seq(S) /\ Len(s) = n /\ DOMAIN s = 1..n
  BY <1>7
<1>9. OnceEach(s) /\ Members(s) = S
  BY <1>7, <1>8 DEF OnceEach, Members, Build!IsInjective, Build!Range
<1> QED  BY <1>6, <1>8, <1>9

LEMMA MergedOnce ==
    ASSUME Build!BuildAssumption, NEW s \in Seq(Build!Industries),
           NEW alias \in [Build!Industries -> Build!Industries]
    PROVE /\ Build!Merged(s, alias) \in Seq(Build!Industries)
          /\ OnceEach(Build!Merged(s, alias))
<1>1. Build!Range(s) \subseteq Build!Industries
  BY DEF Build!Range
<1>2. PICK S \in SUBSET Build!Industries : S = {alias[i] : i \in Build!Range(s)}
  BY <1>1
<1>3. IsFiniteSet(S)
  BY BuildFinite, FS_Subset
<1>4. Build!Listed(S) \in Seq(S) /\ OnceEach(Build!Listed(S))
  BY <1>3, ListedAll
<1>5. Build!Listed(S) \in Seq(Build!Industries)
  BY <1>2, <1>4
<1> QED  BY <1>2, <1>4, <1>5 DEF Build!Merged

LEMMA OnceAppended ==
    ASSUME NEW S, NEW s \in Seq(S), NEW e \in S, OnceEach(s), e \notin Members(s)
    PROVE /\ Append(s, e) \in Seq(S) /\ OnceEach(Append(s, e))
          /\ Members(Append(s, e)) = Members(s) \cup {e}
<1>1. PICK n \in Nat : n = Len(s)
  OBVIOUS
<1>2. PICK a \in Seq(S) : /\ a = Append(s, e) /\ Len(a) = n + 1 /\ a[n + 1] = e
                          /\ \A i \in 1..n : a[i] = s[i]
  <2>1. /\ Append(s, e) \in Seq(S) /\ Len(Append(s, e)) = n + 1 /\ Append(s, e)[n + 1] = e
        /\ \A i \in 1..n : Append(s, e)[i] = s[i]
    BY <1>1, Appended
  <2> QED  BY <2>1
<1>3. /\ 1..n \subseteq 1..n + 1 /\ n + 1 \in 1..n + 1
      /\ \A i \in 1..n + 1 : i \in 1..n \/ i = n + 1
  BY OneMore
<1>4. OnceEach(a)
  <2> SUFFICES ASSUME NEW i \in 1..n + 1, NEW j \in 1..n + 1, a[i] = a[j]
               PROVE i = j
    BY <1>2 DEF OnceEach
  <2>1. \A k \in 1..n : s[k] # e
    BY <1>1 DEF Members
  <2>2. CASE i \in 1..n /\ j \in 1..n
    BY <1>1, <1>2, <2>2 DEF OnceEach
  <2>3. CASE i = n + 1 \/ j = n + 1
    BY <1>2, <1>3, <2>1, <2>3
  <2> QED  BY <1>3, <2>2, <2>3
<1>5. Members(a) = Members(s) \cup {e}
  BY <1>1, <1>2, <1>3 DEF Members
<1> QED  BY <1>2, <1>4, <1>5

\* A build that starts, and one that dies, has nothing.
Fresh(c, n) ==
    [pc |-> c, count |-> n, tries |-> [s \in Build!Sources |-> 0], failed |-> {},
     tagged |-> <<>>, looked |-> 0, projects |-> [i \in Build!Industries |-> <<>>],
     skills |-> [i \in Build!Industries |-> {}], posts |-> [i \in Build!Industries |-> <<>>],
     plans |-> <<>>, plan |-> 1, format |-> 1]

LEMMA FreshIs ==
    ASSUME NEW c, NEW n
    PROVE [Build!NoBuild EXCEPT !.count = n, !.pc = c] = Fresh(c, n)
<1>1. PICK tries, none, nil :
        /\ tries = [s \in Build!Sources |-> 0] /\ none = [i \in Build!Industries |-> <<>>]
        /\ nil = [i \in Build!Industries |-> {}]
  OBVIOUS
<1>2. Build!NoBuild =
        [pc |-> "idle", count |-> 0, tries |-> tries, failed |-> {}, tagged |-> <<>>,
         looked |-> 0, projects |-> none, skills |-> nil, posts |-> none,
         plans |-> <<>>, plan |-> 1, format |-> 1]
  BY <1>1 DEF Build!NoBuild
<1>3. Fresh(c, n) =
        [pc |-> c, count |-> n, tries |-> tries, failed |-> {}, tagged |-> <<>>,
         looked |-> 0, projects |-> none, skills |-> nil, posts |-> none,
         plans |-> <<>>, plan |-> 1, format |-> 1]
  BY <1>1 DEF Fresh
<1>4. PICK old, new : old = Build!NoBuild /\ new = [old EXCEPT !.count = n, !.pc = c]
  OBVIOUS
<1>5. new = [pc |-> c, count |-> n, tries |-> old.tries, failed |-> old.failed,
             tagged |-> old.tagged, looked |-> old.looked, projects |-> old.projects,
             skills |-> old.skills, posts |-> old.posts, plans |-> old.plans,
             plan |-> old.plan, format |-> old.format]
  BY <1>2, <1>4, ZenonT(60)
<1>6. /\ old.tries = tries /\ old.failed = {} /\ old.tagged = <<>> /\ old.looked = 0
      /\ old.projects = none /\ old.skills = nil /\ old.posts = none
      /\ old.plans = <<>> /\ old.plan = 1 /\ old.format = 1
  BY <1>2, <1>4
<1>7. new = Fresh(c, n)
  BY <1>3, <1>5, <1>6
<1> QED  BY <1>4, <1>7

LEMMA FreshKept ==
    ASSUME Build!BuildAssumption, NEW n \in 0..MaxBuilds,
           NEW c \in {"idle", "tag", "static", "dead"}, NEW b, b = Fresh(c, n),
           NEW industries, NEW docs
    PROVE BuildKept(b, industries, docs)
<1>1. /\ b.pc = c /\ b.tagged = <<>> /\ b.failed = {} /\ b.looked = 0
      /\ b.plans = <<>> /\ b.plan = 1 /\ b.format = 1
      /\ b.projects = [i \in Build!Industries |-> <<>>]
      /\ b.posts = [i \in Build!Industries |-> <<>>]
  BY DEF Fresh
<1>2. /\ [s \in Build!Sources |-> 0] \in [Build!Sources -> Nat]
      /\ [i \in Build!Industries |-> <<>>] \in [Build!Industries -> Seq(Build!Sources)]
      /\ [i \in Build!Industries |-> {}] \in [Build!Industries -> SUBSET AnySkill]
  OBVIOUS
<1>3. /\ <<>> \in Seq(BuildTag) /\ <<>> \in Seq(Build!Industries)
      /\ 0 \in Nat /\ 1 \in Nat /\ {} \in SUBSET Build!Sources
      /\ c \in {"idle", "tag", "static", "projects", "posts", "render", "ended", "dead"}
  OBVIOUS
<1>4. b \in BuildRow
  BY <1>2, <1>3, ZenonT(40) DEF Fresh, BuildRow
<1>5. Len(Formats) \in Nat
  BY DEF Build!BuildAssumption
<1>6. Len(b.tagged) = 0 /\ Len(b.plans) = 0 /\ TagSources(b.tagged) = {} /\ TagsApart(b.tagged)
  BY <1>1 DEF TagSources, TagsApart
<1>7. /\ b.plan \in 1..Len(b.plans) + 1 /\ b.format \in 1..Len(Formats) + 1
      /\ b.looked <= Len(b.tagged)
  BY <1>1, <1>5, <1>6
<1>8. Unplanned(b) /\ NothingYet(b) /\ Tagging(b)
  BY <1>1, <1>6 DEF Unplanned, NothingYet, Tagging
<1>9. b.pc \notin {"projects", "posts", "render", "ended"}
  BY <1>1
<1> QED  BY <1>1, <1>4, <1>7, <1>8, <1>9 DEF BuildKept

LEMMA BuildTypes ==
    ASSUME BuildInv
    PROVE /\ build \in BuildRow /\ build.tagged \in Seq(BuildTag) /\ Len(build.tagged) \in Nat
          /\ build.looked \in Nat /\ build.looked <= Len(build.tagged)
          /\ build.failed \in SUBSET Build!Sources
          /\ build.tries \in [Build!Sources -> Nat]
          /\ build.projects \in [Build!Industries -> Seq(Build!Sources)]
          /\ build.posts \in [Build!Industries -> Seq(Build!Sources)]
          /\ build.skills \in [Build!Industries -> SUBSET AnySkill]
          /\ build.plans \in Seq(Build!Industries) /\ Len(build.plans) \in Nat
          /\ build.plan \in Nat /\ build.format \in Nat /\ build.count \in 0..MaxBuilds
          /\ build.plan \in 1..Len(build.plans) + 1 /\ build.format \in 1..Len(Formats) + 1
          /\ BuildKept(build, profile.industries, files) /\ FilesKept /\ profile \in ProfileRow
<1>1. /\ BuildKept(build, profile.industries, files) /\ FilesKept /\ profile \in ProfileRow
      /\ build \in BuildRow /\ build.looked <= Len(build.tagged)
      /\ build.plan \in 1..Len(build.plans) + 1 /\ build.format \in 1..Len(Formats) + 1
  BY DEF BuildInv, BuildKept
<1> QED  BY <1>1, BuildFields

\* The files and the profile stay.
LEMMA OnlyBuild ==
    ASSUME BuildInv, files' = files, profile' = profile,
           BuildKept(build', profile.industries, files)
    PROVE BuildInv'
<1>1. FilesKept /\ profile \in ProfileRow
  BY DEF BuildInv
<1>2. FilesKept'
  <2>1. FilesKept' = (files' = [d \in Dirs |-> [f \in Build!Range(Formats) |-> files'[d][f]]])
    BY DEF FilesKept, Dirs, Build!Range
  <2> QED  BY <1>1, <2>1 DEF FilesKept
<1>3. (profile \in ProfileRow)'
  BY <1>1 DEF ProfileRow, AnySkill
<1>4. BuildKept(build, profile.industries, files)'
  OBVIOUS
<1> QED  BY <1>2, <1>3, <1>4 DEF BuildInv

LEMMA StartBuildKept ==
    ASSUME Build!BuildAssumption, BuildInv, Build!StartBuild \/ Build!BuildDies
    PROVE BuildInv'
<1>1. build.count \in 0..MaxBuilds /\ MaxBuilds \in Nat
  BY BuildTypes DEF Build!BuildAssumption
<1>2. PICK c, n : /\ c \in {"tag", "static", "dead"} /\ n \in 0..MaxBuilds
                  /\ build' = Fresh(c, n)
  <2>1. CASE Build!StartBuild
    <3>1. PICK c \in {"tag", "static"} :
             build' = [Build!NoBuild EXCEPT !.count = build.count + 1, !.pc = c]
      <4>1. PICK model \in BOOLEAN :
               build' = [Build!NoBuild EXCEPT !.count = build.count + 1,
                                              !.pc = IF model THEN "tag" ELSE "static"]
        BY <2>1 DEF Build!StartBuild
      <4>2. CASE model
        <5>1. build' = [Build!NoBuild EXCEPT !.count = build.count + 1, !.pc = "tag"]
          BY <4>1, <4>2, ZenonT(40)
        <5> QED  BY <5>1
      <4>3. CASE ~model
        <5>1. build' = [Build!NoBuild EXCEPT !.count = build.count + 1, !.pc = "static"]
          BY <4>1, <4>3, ZenonT(40)
        <5> QED  BY <5>1
      <4> QED  BY <4>2, <4>3
    <3>2. PICK n \in 0..MaxBuilds : n = build.count + 1
      <4>1. build.count < MaxBuilds
        BY <2>1, Zenon DEF Build!StartBuild
      <4>2. build.count + 1 \in 0..MaxBuilds
        BY <1>1, <4>1
      <4> QED  BY <4>2
    <3>3. build' = [Build!NoBuild EXCEPT !.count = n, !.pc = c]
      BY <3>1, <3>2
    <3>4. build' = Fresh(c, n)
      BY <3>3, FreshIs
    <3> QED  BY <3>4
  <2>2. CASE Build!BuildDies
    <3>1. build' = [Build!NoBuild EXCEPT !.count = build.count, !.pc = "dead"]
      BY <2>2 DEF Build!NoBuild, Build!BuildDies
    <3>2. build' = Fresh("dead", build.count)
      BY <3>1, FreshIs
    <3> QED  BY <1>1, <3>2
  <2> QED  BY <2>1, <2>2
<1>3. BuildKept(build', profile.industries, files)
  BY <1>2, FreshKept
<1>4. files' = files /\ profile' = profile
  BY DEF Build!StartBuild, Build!BuildDies
<1> QED  BY <1>3, <1>4, OnlyBuild

LEMMA BuildInit == ASSUME Build!BuildAssumption, Build!Init PROVE BuildInv
<1>1. build = Fresh("idle", 0)
  BY DEF Build!Init, Build!NoBuild, Fresh
<1>2. MaxBuilds \in Nat
  BY DEF Build!BuildAssumption
<1>3. BuildKept(build, profile.industries, files)
  BY <1>1, <1>2, FreshKept
<1>4. FilesKept
  BY DEF Build!Init, FilesKept, Dirs
<1>5. profile \in ProfileRow
  BY DEF Build!Init, ProfileRow
<1> QED  BY <1>3, <1>4, <1>5 DEF BuildInv

LEMMA TaggedIs ==
    ASSUME build.tagged \in Seq(BuildTag)
    PROVE Build!Tagged = TagSources(build.tagged)
<1>1. Build!Range(build.tagged) = Members(build.tagged)
  BY RangeIs
<1> QED  BY <1>1 DEF Build!Tagged, TagSources, Members

LEMMA TagSourceKept ==
    ASSUME Build!BuildAssumption, BuildInv, NEW s \in Build!Sources, Build!TagSource(s)
    PROVE BuildInv'
<1>0. /\ build \in BuildRow /\ build.tagged \in Seq(BuildTag) /\ Len(build.tagged) \in Nat
      /\ build.looked \in Nat /\ build.looked <= Len(build.tagged)
      /\ BuildKept(build, profile.industries, files)
      /\ build.pc = "tag" /\ s \notin TagSources(build.tagged) /\ s \notin build.failed
      /\ files' = files /\ profile' = profile
  BY BuildTypes, TaggedIs DEF Build!TagSource, Build!Waiting
<1>1. PICK t \in TagsOf[s] :
         build' = [build EXCEPT !.tagged = Append(@, Build!Tag(s, t.industries, t.skills))]
  BY DEF Build!TagSource
<1>2. t.industries \in Seq(Build!Industries) /\ t.skills \in SUBSET AnySkill
  BY DEF Build!BuildAssumption, AnySkill
<1>3. PICK e \in BuildTag : e = Build!Tag(s, t.industries, t.skills) /\ e.source = s
  <2>1. PICK industries \in Seq(Build!Industries), skills \in SUBSET AnySkill :
           industries = t.industries /\ skills = t.skills
    BY <1>2
  <2>2. PICK e : e = [source |-> s, industries |-> industries, skills |-> skills]
    OBVIOUS
  <2>3. e \in BuildTag /\ e.source = s
    BY <2>2 DEF BuildTag
  <2>4. e = Build!Tag(s, t.industries, t.skills)
    BY <2>1, <2>2 DEF Build!Tag
  <2> QED  BY <2>3, <2>4
<1>4. PICK n \in Nat : n = Len(build.tagged)
  BY <1>0
<1>5. PICK tags \in Seq(BuildTag) :
        /\ tags = Append(build.tagged, e) /\ Len(tags) = n + 1 /\ tags[n + 1] = e
        /\ \A i \in 1..n : tags[i] = build.tagged[i]
  <2>1. /\ Append(build.tagged, e) \in Seq(BuildTag) /\ Len(Append(build.tagged, e)) = n + 1
        /\ Append(build.tagged, e)[n + 1] = e
        /\ \A i \in 1..n : Append(build.tagged, e)[i] = build.tagged[i]
    BY <1>0, <1>3, <1>4, Appended
  <2> QED  BY <2>1
<1>6. build' = [build EXCEPT !.tagged = tags]
  BY <1>1, <1>3, <1>5
<1>7. build' \in BuildRow
  BY <1>0, <1>5, <1>6, ZenonT(40) DEF BuildRow
<1>8. /\ build'.tagged = tags /\ build'.pc = "tag" /\ build'.looked = build.looked
      /\ build'.failed = build.failed /\ build'.plans = build.plans
      /\ build'.plan = build.plan /\ build'.format = build.format
      /\ build'.projects = build.projects /\ build'.posts = build.posts
  BY <1>0, <1>6 DEF BuildRow
<1>9. /\ 1..n \subseteq 1..n + 1 /\ n + 1 \in 1..n + 1
      /\ \A i \in 1..n + 1 : i \in 1..n \/ i = n + 1
  BY OneMore
<1>10. TagSources(tags) = TagSources(build.tagged) \cup {s}
  BY <1>3, <1>4, <1>5, <1>9 DEF TagSources
<1>11. Tagging(build) /\ Unplanned(build) /\ NothingYet(build)
  BY <1>0 DEF BuildKept
<1>12. TagsApart(tags)
  <2> SUFFICES ASSUME NEW i \in 1..n + 1, NEW j \in 1..n + 1, tags[i].source = tags[j].source
               PROVE i = j
    BY <1>5 DEF TagsApart
  <2>1. \A k \in 1..n : tags[k].source # s
    BY <1>0, <1>4, <1>5 DEF TagSources
  <2>2. CASE i \in 1..n /\ j \in 1..n
    BY <1>4, <1>5, <1>11, <2>2 DEF Tagging, TagsApart
  <2>3. CASE i = n + 1 \/ j = n + 1
    BY <1>3, <1>5, <1>9, <2>1, <2>3
  <2> QED  BY <1>9, <2>2, <2>3
<1>13. Tagging(build')
  BY <1>0, <1>8, <1>10, <1>11, <1>12 DEF Tagging
<1>14. Unplanned(build') /\ NothingYet(build')
  BY <1>8, <1>11 DEF Unplanned, NothingYet
<1>15. /\ build'.looked <= Len(build'.tagged)
       /\ build'.plan \in 1..Len(build'.plans) + 1 /\ build'.format \in 1..Len(Formats) + 1
  <2>1. build.looked <= n + 1
    BY <1>0, <1>4
  <2> QED  BY <1>5, <1>8, <2>1, BuildTypes
<1>16. BuildKept(build', profile.industries, files)
  BY <1>7, <1>8, <1>13, <1>14, <1>15 DEF BuildKept
<1> QED  BY <1>0, <1>16, OnlyBuild

LEMMA TagFailsKept ==
    ASSUME Build!BuildAssumption, BuildInv, NEW s \in Build!Sources, Build!TagFails(s)
    PROVE BuildInv'
<1>0. /\ build \in BuildRow /\ build.tagged \in Seq(BuildTag) /\ Len(build.tagged) \in Nat
      /\ build.looked \in Nat /\ build.looked <= Len(build.tagged)
      /\ build.tries \in [Build!Sources -> Nat] /\ build.failed \in SUBSET Build!Sources
      /\ BuildKept(build, profile.industries, files)
      /\ build.pc = "tag" /\ s \notin TagSources(build.tagged)
      /\ files' = files /\ profile' = profile
  BY BuildTypes, TaggedIs DEF Build!TagFails, Build!Waiting
<1>1. PICK tries \in [Build!Sources -> Nat], failed \in SUBSET Build!Sources :
        /\ build' = [build EXCEPT !.tries = tries, !.failed = failed]
        /\ failed \subseteq build.failed \cup {s}
  <2>1. CASE build.tries[s] < MaxRetries
    <3>1. [build.tries EXCEPT ![s] = @ + 1] \in [Build!Sources -> Nat]
      BY <1>0
    <3>2. build' = [build EXCEPT !.tries[s] = @ + 1]
      BY <2>1 DEF Build!TagFails
    <3>3. build' = [build EXCEPT !.tries = [build.tries EXCEPT ![s] = @ + 1],
                                 !.failed = build.failed]
      BY <1>0, <3>2 DEF BuildRow
    <3> QED  BY <1>0, <3>1, <3>3
  <2>2. CASE ~(build.tries[s] < MaxRetries)
    <3>1. build' = [build EXCEPT !.failed = @ \cup {s}]
      BY <2>2 DEF Build!TagFails
    <3>2. build' = [build EXCEPT !.tries = build.tries, !.failed = build.failed \cup {s}]
      BY <1>0, <3>1 DEF BuildRow
    <3> QED  BY <1>0, <3>2
  <2> QED  BY <2>1, <2>2
<1>2. build' \in BuildRow
  BY <1>0, <1>1, ZenonT(40) DEF BuildRow
<1>3. /\ build'.tagged = build.tagged /\ build'.pc = "tag" /\ build'.looked = build.looked
      /\ build'.failed = failed /\ build'.plans = build.plans
      /\ build'.plan = build.plan /\ build'.format = build.format
      /\ build'.projects = build.projects /\ build'.posts = build.posts
  BY <1>0, <1>1 DEF BuildRow
<1>4. Tagging(build) /\ Unplanned(build) /\ NothingYet(build)
  BY <1>0 DEF BuildKept
<1>5. Tagging(build') /\ Unplanned(build') /\ NothingYet(build')
  <2>1. Tagging(build')
    BY <1>0, <1>1, <1>3, <1>4 DEF Tagging
  <2> QED  BY <1>3, <1>4, <2>1 DEF Unplanned, NothingYet
<1>6. /\ build'.looked <= Len(build'.tagged)
      /\ build'.plan \in 1..Len(build'.plans) + 1 /\ build'.format \in 1..Len(Formats) + 1
  BY <1>0, <1>3, BuildTypes
<1>7. BuildKept(build', profile.industries, files)
  BY <1>2, <1>3, <1>5, <1>6 DEF BuildKept
<1> QED  BY <1>0, <1>7, OnlyBuild

\* Whatever was tagged is classified; the profile has the industries of all.
LEMMA ClassifyKept ==
    ASSUME Build!BuildAssumption, BuildInv, NEW tags \in Seq(BuildTag), TagsApart(tags),
           TagSources(tags) \cap build.failed = {},
           TagSources(tags) \cup build.failed = Build!Sources,
           \A k \in 1..Len(tags) : OnceEach(tags[k].industries),
           build.pc \in {"tag", "static"}, Build!Classify(tags)
    PROVE BuildInv'
<1>0. /\ build \in BuildRow /\ BuildKept(build, profile.industries, files) /\ FilesKept
      /\ build' = [build EXCEPT !.pc = "projects", !.tagged = tags] /\ files' = files
      /\ profile' = Build!Profile(tags)
  BY BuildTypes DEF Build!Classify
<1>1. build' \in BuildRow
  BY <1>0, ZenonT(40) DEF BuildRow
<1>2. /\ build'.tagged = tags /\ build'.pc = "projects" /\ build'.looked = build.looked
      /\ build'.failed = build.failed /\ build'.plans = build.plans
      /\ build'.plan = build.plan /\ build'.format = build.format
      /\ build'.projects = build.projects /\ build'.posts = build.posts
  BY <1>0 DEF BuildRow
<1>3. Unplanned(build) /\ NothingYet(build)
  BY <1>0 DEF BuildKept
<1>4. \A k \in 1..Len(tags) : /\ tags[k] \in BuildTag /\ tags[k] \in Build!Range(tags)
                              /\ tags[k].industries \in Seq(Build!Industries)
                              /\ Named(tags[k]) = Build!Range(tags[k].industries)
  <2> SUFFICES ASSUME NEW k \in 1..Len(tags)
               PROVE /\ tags[k] \in BuildTag /\ tags[k] \in Build!Range(tags)
                     /\ tags[k].industries \in Seq(Build!Industries)
                     /\ Named(tags[k]) = Build!Range(tags[k].industries)
    OBVIOUS
  <2>1. tags[k] \in BuildTag /\ tags[k].industries \in Seq(Build!Industries)
    <3>1. tags[k] \in BuildTag
      OBVIOUS
    <3> QED  BY <3>1 DEF BuildTag
  <2>2. tags[k] \in Members(tags)
    BY DEF Members
  <2> QED  BY <2>1, <2>2, RangeIs DEF Named
<1>5. profile' \in ProfileRow /\ \A k \in 1..Len(tags) : Named(tags[k]) \subseteq profile'.industries
  <2>1. \A t \in Build!Range(tags) : /\ t \in BuildTag
                                     /\ Build!Range(t.industries) \subseteq Build!Industries
                                     /\ t.skills \subseteq AnySkill
    <3> SUFFICES ASSUME NEW t \in Build!Range(tags)
                 PROVE /\ t \in BuildTag
                       /\ Build!Range(t.industries) \subseteq Build!Industries
                       /\ t.skills \subseteq AnySkill
      OBVIOUS
    <3>1. t \in BuildTag
      BY RangeIs
    <3>2. t.industries \in Seq(Build!Industries) /\ t.skills \subseteq AnySkill
      BY <3>1 DEF BuildTag
    <3> QED  BY <3>1, <3>2, RangeIs
  <2>2. UNION {Build!Range(t.industries) : t \in Build!Range(tags)} \subseteq Build!Industries
    BY <2>1
  <2>3. UNION {t.skills : t \in {t \in Build!Range(tags) : t.source \in DOMAIN Repos}}
          \subseteq AnySkill
    BY <2>1
  <2>4. profile' \in ProfileRow
    BY <1>0, <2>2, <2>3 DEF Build!Profile, ProfileRow
  <2>5. profile'.industries = UNION {Build!Range(t.industries) : t \in Build!Range(tags)}
    BY <1>0 DEF Build!Profile
  <2> QED  BY <1>4, <2>4, <2>5
<1>6. Classified(tags, build'.failed, profile'.industries)
  BY <1>2, <1>5 DEF Classified
<1>7. /\ ProjectsUpTo(0, tags, build'.projects) /\ PostsUpTo(0, tags, build'.posts)
      /\ build'.looked = 0
  BY <1>2, <1>3 DEF NothingYet, ProjectsUpTo, PostsUpTo, OnceEach, Members
<1>8. Unplanned(build')
  BY <1>2, <1>3 DEF Unplanned
<1>9. /\ build'.looked <= Len(build'.tagged)
      /\ build'.plan \in 1..Len(build'.plans) + 1 /\ build'.format \in 1..Len(Formats) + 1
  BY <1>2, <1>7, BuildTypes
<1>10. BuildKept(build', profile'.industries, files')
  BY <1>1, <1>2, <1>6, <1>7, <1>8, <1>9 DEF BuildKept
<1>11. FilesKept'
  <2>1. FilesKept' = (files' = [d \in Dirs |-> [f \in Build!Range(Formats) |-> files'[d][f]]])
    BY DEF FilesKept, Dirs, Build!Range
  <2> QED  BY <1>0, <2>1 DEF FilesKept
<1>12. (profile \in ProfileRow)'
  BY <1>5 DEF ProfileRow, AnySkill
<1> QED  BY <1>10, <1>11, <1>12 DEF BuildInv

LEMMA NormalizeKept ==
    ASSUME Build!BuildAssumption, BuildInv, Build!Normalize
    PROVE BuildInv'
<1>0. /\ build \in BuildRow /\ build.tagged \in Seq(BuildTag) /\ Len(build.tagged) \in Nat
      /\ build.failed \in SUBSET Build!Sources
      /\ BuildKept(build, profile.industries, files) /\ build.pc = "tag"
      /\ \A s \in Build!Sources : s \in TagSources(build.tagged) \cup build.failed
  BY BuildTypes, TaggedIs DEF Build!Normalize, Build!Waiting
<1>1. PICK alias \in Aliases \cup {Build!Same} :
        Build!Classify([k \in DOMAIN build.tagged |->
                     [build.tagged[k] EXCEPT
                        !.industries = Build!Merged(build.tagged[k].industries, alias)]])
  BY DEF Build!Normalize
<1>2. alias \in [Build!Industries -> Build!Industries]
  BY DEF Build!BuildAssumption, Build!Same
<1>3. PICK n \in Nat : n = Len(build.tagged) /\ DOMAIN build.tagged = 1..n
  BY <1>0
<1> DEFINE New(k) == [build.tagged[k] EXCEPT
                        !.industries = Build!Merged(build.tagged[k].industries, alias)]
<1>4. \A k \in 1..n : /\ New(k) \in BuildTag /\ New(k).source = build.tagged[k].source
                      /\ OnceEach(New(k).industries)
  <2> SUFFICES ASSUME NEW k \in 1..n
               PROVE /\ New(k) \in BuildTag /\ New(k).source = build.tagged[k].source
                     /\ OnceEach(New(k).industries)
    OBVIOUS
  <2>1. PICK t \in BuildTag : t = build.tagged[k]
    BY <1>0, <1>3
  <2>2. t.industries \in Seq(Build!Industries)
    BY DEF BuildTag
  <2>3. PICK m \in Seq(Build!Industries) : m = Build!Merged(t.industries, alias) /\ OnceEach(m)
    BY <1>2, <2>2, MergedOnce
  <2>4. New(k) = [t EXCEPT !.industries = m]
    BY <2>1, <2>3
  <2> QED  BY <2>1, <2>3, <2>4 DEF BuildTag
<1>5. PICK tags : tags = [k \in 1..n |-> New(k)]
  OBVIOUS
<1>6. \A k \in 1..n : /\ tags[k] \in BuildTag /\ tags[k].source = build.tagged[k].source
                      /\ OnceEach(tags[k].industries)
  BY <1>4, <1>5
<1>7. tags \in Seq(BuildTag) /\ Len(tags) = n /\ Build!Classify(tags)
  BY <1>1, <1>3, <1>4, <1>5
<1>8. TagSources(tags) = TagSources(build.tagged)
  BY <1>3, <1>6, <1>7 DEF TagSources
<1>9. Tagging(build)
  BY <1>0 DEF BuildKept
<1>10. TagsApart(tags)
  BY <1>3, <1>6, <1>7, <1>9 DEF Tagging, TagsApart
<1>11. TagSources(tags) \subseteq Build!Sources
  BY <1>6, <1>7 DEF TagSources, BuildTag
<1>12. /\ TagSources(tags) \cap build.failed = {}
       /\ TagSources(tags) \cup build.failed = Build!Sources
  BY <1>0, <1>8, <1>9, <1>11 DEF Tagging
<1>13. \A k \in 1..Len(tags) : OnceEach(tags[k].industries)
  BY <1>6, <1>7
<1> QED  BY <1>0, <1>7, <1>10, <1>12, <1>13, ClassifyKept

\* Tags after tags of other sources.
LEMMA TagsAfter ==
    ASSUME NEW a \in Seq(BuildTag), NEW b \in Seq(BuildTag), TagsApart(a), TagsApart(b),
           TagSources(a) \cap TagSources(b) = {},
           \A k \in 1..Len(a) : OnceEach(a[k].industries),
           \A k \in 1..Len(b) : OnceEach(b[k].industries)
    PROVE /\ a \o b \in Seq(BuildTag) /\ TagsApart(a \o b)
          /\ TagSources(a \o b) = TagSources(a) \cup TagSources(b)
          /\ \A k \in 1..Len(a \o b) : OnceEach((a \o b)[k].industries)
<1>1. PICK n \in Nat, m \in Nat : n = Len(a) /\ m = Len(b)
  OBVIOUS
<1>2. PICK c \in Seq(BuildTag) :
        /\ c = a \o b /\ Len(c) = n + m
        /\ \A i \in 1..n : c[i] = a[i]
        /\ \A i \in 1..m : c[n + i] = b[i]
  <2>1. /\ a \o b \in Seq(BuildTag) /\ Len(a \o b) = Len(a) + Len(b)
        /\ \A i \in 1..Len(a) : (a \o b)[i] = a[i]
        /\ \A i \in 1..Len(b) : (a \o b)[Len(a) + i] = b[i]
    BY Concatenated
  <2> QED  BY <1>1, <2>1
<1>3. /\ \A i \in 1..n + m : i \in 1..n \/ \E j \in 1..m : i = n + j
      /\ 1..n \subseteq 1..n + m /\ \A j \in 1..m : n + j \in 1..n + m
  <2>1. \A i \in 1..n + m : i \in 1..n \/ (i - n \in 1..m /\ i = n + (i - n))
    OBVIOUS
  <2> QED  BY <2>1
<1>4. TagSources(c) = TagSources(a) \cup TagSources(b)
  <2>1. \A i \in 1..n : c[i].source = a[i].source /\ c[i].source \in TagSources(a)
    BY <1>1, <1>2 DEF TagSources
  <2>2. \A i \in 1..m : c[n + i].source = b[i].source /\ c[n + i].source \in TagSources(b)
    BY <1>1, <1>2 DEF TagSources
  <2>3. \A i \in 1..n + m : c[i].source \in TagSources(a) \cup TagSources(b)
    BY <1>3, <2>1, <2>2
  <2>4. TagSources(a) \subseteq TagSources(c)
    BY <1>1, <1>2, <1>3, <2>1 DEF TagSources
  <2>5. TagSources(b) \subseteq TagSources(c)
    <3>1. TagSources(b) = {b[i].source : i \in 1..m}
      BY <1>1 DEF TagSources
    <3>2. \A i \in 1..m : c[n + i].source \in TagSources(c)
      BY <1>2, <1>3 DEF TagSources
    <3> QED  BY <2>2, <3>1, <3>2
  <2>6. TagSources(c) \subseteq TagSources(a) \cup TagSources(b)
    <3> HIDE <2>1, <2>2
    <3>1. TagSources(c) = {c[i].source : i \in 1..n + m}
      BY <1>2 DEF TagSources
    <3> QED  BY <2>3, <3>1
  <2> QED  BY <2>4, <2>5, <2>6
<1>5. \A k \in 1..Len(c) : OnceEach(c[k].industries)
  BY <1>1, <1>2, <1>3
<1>6. TagsApart(c)
  <2> SUFFICES ASSUME NEW i \in 1..n + m, NEW j \in 1..n + m, c[i].source = c[j].source
               PROVE i = j
    BY <1>2 DEF TagsApart
  <2>1. CASE i \in 1..n /\ j \in 1..n
    BY <1>1, <1>2, <2>1 DEF TagsApart
  <2>2. ASSUME NEW k \in 1..m, NEW l \in 1..m, i = n + k, j = n + l
        PROVE i = j
    BY <1>1, <1>2, <2>2 DEF TagsApart
  <2>3. \A k \in 1..n, l \in 1..m : c[k].source # c[n + l].source
    <3>1. \A k \in 1..n : c[k].source \in TagSources(a)
      BY <1>1, <1>2 DEF TagSources
    <3>2. \A l \in 1..m : c[n + l].source \in TagSources(b)
      BY <1>1, <1>2 DEF TagSources
    <3> QED  BY <3>1, <3>2
  <2>4. CASE i \in 1..n /\ j \notin 1..n
    BY <1>3, <2>3, <2>4
  <2>5. CASE i \notin 1..n /\ j \in 1..n
    BY <1>3, <2>3, <2>5
  <2> QED  BY <1>3, <2>1, <2>2, <2>4, <2>5
<1> QED  BY <1>2, <1>4, <1>5, <1>6

\* One tag for each member of a list.
LEMMA TagEach ==
    ASSUME NEW S \in SUBSET Build!Sources, NEW list \in Seq(S), OnceEach(list),
           Members(list) = S, NEW tags \in [DOMAIN list -> BuildTag],
           \A k \in DOMAIN list : tags[k].source = list[k] /\ OnceEach(tags[k].industries)
    PROVE /\ tags \in Seq(BuildTag) /\ TagsApart(tags) /\ TagSources(tags) = S
          /\ \A k \in 1..Len(tags) : OnceEach(tags[k].industries)
<1>1. PICK n \in Nat : n = Len(list) /\ DOMAIN list = 1..n
  OBVIOUS
<1>2. tags \in Seq(BuildTag) /\ Len(tags) = n
  BY <1>1
<1>3. TagsApart(tags)
  <2>1. \A i, j \in 1..n : list[i] = list[j] => i = j
    BY <1>1 DEF OnceEach
  <2> QED  BY <1>1, <1>2, <2>1 DEF TagsApart
<1>4. TagSources(tags) = S
  <2>1. S = {list[i] : i \in 1..n}
    BY <1>1 DEF Members
  <2>2. TagSources(tags) = {tags[i].source : i \in 1..n}
    BY <1>2 DEF TagSources
  <2>3. \A i \in 1..n : tags[i].source = list[i]
    BY <1>1
  <2> QED  BY <2>1, <2>2, <2>3
<1> QED  BY <1>1, <1>2, <1>3, <1>4

LEMMA TagStaticallyKept ==
    ASSUME Build!BuildAssumption, BuildInv, Build!TagStatically
    PROVE BuildInv'
<1> DEFINE R == Build!Sources \cap DOMAIN Repos
           P == DOMAIN BuildPosts
           seen == UNION {Build!Range(Repos[r].topics) : r \in R}
           repos == Build!Listed(R)
           feed == Build!Listed(P)
           RepoTag(r) == Build!Tag(r, Build!Merged(Repos[r].topics, Build!Same),
                                   Build!Range(Repos[r].topics))
           PostTag(p) == Build!Tag(p, Build!Listed(BuildPosts[p] \cap seen), {})
           a == [k \in DOMAIN repos |-> RepoTag(repos[k])]
           b == [k \in DOMAIN feed |-> PostTag(feed[k])]
<1>0. /\ build \in BuildRow /\ BuildKept(build, profile.industries, files)
      /\ build.pc = "static" /\ Build!Classify(a \o b)
  BY BuildTypes DEF Build!TagStatically
<1>1. build.failed = {}
  BY <1>0 DEF BuildKept
<1>2. /\ R \subseteq Build!Sources /\ P \subseteq Build!Sources /\ R \cap P = {}
      /\ R \cup P = Build!Sources /\ IsFiniteSet(R) /\ IsFiniteSet(P)
  <2>1. /\ R \subseteq Build!Sources /\ P \subseteq Build!Sources /\ R \cap P = {}
        /\ R \cup P = Build!Sources
    BY DEF Build!Sources, Build!BuildAssumption
  <2> QED  BY <2>1, BuildFinite, FS_Subset
<1>3. Build!Same \in [Build!Industries -> Build!Industries]
  BY DEF Build!Same
<1>4. \A r \in R : /\ RepoTag(r) \in BuildTag /\ RepoTag(r).source = r
                   /\ OnceEach(RepoTag(r).industries)
  <2> SUFFICES ASSUME NEW r \in R
               PROVE /\ RepoTag(r) \in BuildTag /\ RepoTag(r).source = r
                     /\ OnceEach(RepoTag(r).industries)
    OBVIOUS
  <2>1. Repos[r].topics \in Seq(Build!Industries)
    BY DEF Build!BuildAssumption
  <2>2. PICK m \in Seq(Build!Industries) :
           m = Build!Merged(Repos[r].topics, Build!Same) /\ OnceEach(m)
    BY <1>3, <2>1, MergedOnce
  <2>3. PICK t \in SUBSET AnySkill : t = Build!Range(Repos[r].topics)
    BY <2>1, RangeIs DEF AnySkill
  <2>4. RepoTag(r) = [source |-> r, industries |-> m, skills |-> t]
    BY <2>2, <2>3 DEF Build!Tag
  <2> QED  BY <1>2, <2>2, <2>4 DEF BuildTag
<1>5. \A p \in P : /\ PostTag(p) \in BuildTag /\ PostTag(p).source = p
                   /\ OnceEach(PostTag(p).industries)
  <2> SUFFICES ASSUME NEW p \in P
               PROVE /\ PostTag(p) \in BuildTag /\ PostTag(p).source = p
                     /\ OnceEach(PostTag(p).industries)
    OBVIOUS
  <2>1. PICK S \in SUBSET Build!Industries : S = BuildPosts[p] \cap seen
    BY DEF Build!BuildAssumption
  <2>2. IsFiniteSet(S)
    BY BuildFinite, FS_Subset
  <2>3. PICK m \in Seq(Build!Industries) : m = Build!Listed(S) /\ OnceEach(m)
    BY <2>2, ListedAll
  <2>4. PostTag(p) = [source |-> p, industries |-> m, skills |-> {}]
    BY <2>1, <2>3 DEF Build!Tag
  <2>5. p \in Build!Sources /\ {} \in SUBSET AnySkill
    BY <1>2
  <2>6. [source |-> p, industries |-> m, skills |-> {}] \in BuildTag
    BY <2>5 DEF BuildTag
  <2> HIDE DEF PostTag, P
  <2> QED  BY <2>3, <2>4, <2>6
<1>6. /\ repos \in Seq(R) /\ OnceEach(repos) /\ Members(repos) = R
      /\ feed \in Seq(P) /\ OnceEach(feed) /\ Members(feed) = P
  BY <1>2, ListedAll
<1>7. /\ a \in Seq(BuildTag) /\ TagsApart(a) /\ TagSources(a) = R
      /\ \A k \in 1..Len(a) : OnceEach(a[k].industries)
  <2>1. PICK list \in Seq(R) : list = repos
    BY <1>6
  <2>2. \A k \in DOMAIN list : list[k] \in R
    OBVIOUS
  <2>3. PICK tags : tags = a
    OBVIOUS
  <2>4. tags = [k \in DOMAIN list |-> RepoTag(list[k])]
    BY <2>1, <2>3
  <2>5. tags \in [DOMAIN list -> BuildTag]
    BY <1>4, <2>2, <2>4
  <2>6. \A k \in DOMAIN list : tags[k].source = list[k] /\ OnceEach(tags[k].industries)
    BY <1>4, <2>2, <2>4
  <2>7. OnceEach(list) /\ Members(list) = R
    BY <1>6, <2>1
  <2> HIDE DEF R, a, repos, RepoTag
  <2>8. /\ tags \in Seq(BuildTag) /\ TagsApart(tags) /\ TagSources(tags) = R
        /\ \A k \in 1..Len(tags) : OnceEach(tags[k].industries)
    BY <1>2, <2>5, <2>6, <2>7, TagEach
  <2> QED  BY <2>3, <2>8
<1>8. /\ b \in Seq(BuildTag) /\ TagsApart(b) /\ TagSources(b) = P
      /\ \A k \in 1..Len(b) : OnceEach(b[k].industries)
  <2>1. PICK list \in Seq(P) : list = feed
    BY <1>6
  <2>2. \A k \in DOMAIN list : list[k] \in P
    OBVIOUS
  <2>3. PICK tags : tags = b
    OBVIOUS
  <2>4. tags = [k \in DOMAIN list |-> PostTag(list[k])]
    BY <2>1, <2>3
  <2>5. tags \in [DOMAIN list -> BuildTag]
    BY <1>5, <2>2, <2>4
  <2>6. \A k \in DOMAIN list : tags[k].source = list[k] /\ OnceEach(tags[k].industries)
    BY <1>5, <2>2, <2>4
  <2>7. OnceEach(list) /\ Members(list) = P
    BY <1>6, <2>1
  <2> HIDE DEF P, b, feed, PostTag
  <2>8. /\ tags \in Seq(BuildTag) /\ TagsApart(tags) /\ TagSources(tags) = P
        /\ \A k \in 1..Len(tags) : OnceEach(tags[k].industries)
    BY <1>2, <2>5, <2>6, <2>7, TagEach
  <2> QED  BY <2>3, <2>8
<1> HIDE DEF R, P, repos, feed, a, b
<1>9. PICK tags \in Seq(BuildTag) :
        /\ tags = a \o b /\ TagsApart(tags) /\ TagSources(tags) = Build!Sources
        /\ \A k \in 1..Len(tags) : OnceEach(tags[k].industries)
  <2>1. /\ a \o b \in Seq(BuildTag) /\ TagsApart(a \o b)
        /\ TagSources(a \o b) = TagSources(a) \cup TagSources(b)
        /\ \A k \in 1..Len(a \o b) : OnceEach((a \o b)[k].industries)
    BY <1>2, <1>7, <1>8, TagsAfter
  <2> QED  BY <1>2, <1>7, <1>8, <2>1
<1>10. /\ TagSources(tags) \cap build.failed = {}
       /\ TagSources(tags) \cup build.failed = Build!Sources
  BY <1>1, <1>9
<1> QED  BY <1>0, <1>9, <1>10, ClassifyKept

\* A tag names an industry once, so that one copy of its source joins.
LEMMA OneCopy ==
    ASSUME Build!BuildAssumption, NEW t \in BuildTag, OnceEach(t.industries),
           NEW i \in Build!Industries, build.projects[i] \in Seq(Build!Sources)
    PROVE Build!WithProject(t, i) =
            IF i \in Named(t) THEN Append(build.projects[i], t.source) ELSE build.projects[i]
<1>0. /\ t.industries \in Seq(Build!Industries) /\ t.source \in Build!Sources
  BY DEF BuildTag
<1>1. PICK n \in Nat : n = Len(t.industries) /\ DOMAIN t.industries = 1..n
  BY <1>0
<1> DEFINE at == {k \in DOMAIN t.industries : t.industries[k] = i}
<1>2. CASE i \in Named(t)
  <2>1. PICK j \in 1..n : t.industries[j] = i
    BY <1>1, <1>2 DEF Named, Members
  <2>2. at = {j}
    BY <1>1, <2>1 DEF OnceEach
  <2>3. Build!Cardinality(at) = 1
    BY <2>2, FS_Singleton, BuildFinite
  <2>4. Build!WithProject(t, i) = build.projects[i] \o [k \in 1..1 |-> t.source]
    BY <2>3 DEF Build!WithProject
  <2>5. [k \in 1..1 |-> t.source] = <<t.source>>
    OBVIOUS
  <2>6. build.projects[i] \o <<t.source>> = Append(build.projects[i], t.source)
    BY <1>0
  <2> QED  BY <1>2, <2>4, <2>5, <2>6
<1>3. CASE i \notin Named(t)
  <2>1. at = {}
    BY <1>1, <1>3 DEF Named, Members
  <2>2. Build!Cardinality(at) = 0
    BY <2>1, FS_EmptySet, BuildFinite
  <2>3. Build!WithProject(t, i) = build.projects[i] \o [k \in 1..0 |-> t.source]
    BY <2>2 DEF Build!WithProject
  <2>4. [k \in 1..0 |-> t.source] = <<>>
    OBVIOUS
  <2>5. build.projects[i] \o <<>> = build.projects[i]
    OBVIOUS
  <2> QED  BY <1>3, <2>3, <2>4, <2>5
<1> QED  BY <1>2, <1>3

\* The next tag that is looked at.
LEMMA NextTag ==
    ASSUME Build!BuildAssumption, BuildInv, build.looked < Len(build.tagged),
           build.pc \in {"projects", "posts"}
    PROVE /\ build.looked + 1 \in 1..Len(build.tagged)
          /\ build.tagged[build.looked + 1] \in BuildTag
          /\ OnceEach(build.tagged[build.looked + 1].industries)
          /\ build.tagged[build.looked + 1].source \in Build!Sources
          /\ build.tagged[build.looked + 1].skills \in SUBSET AnySkill
          /\ \A k \in 1..build.looked :
               /\ k \in 1..Len(build.tagged)
               /\ build.tagged[k].source # build.tagged[build.looked + 1].source
          /\ 1..build.looked \subseteq 1..build.looked + 1
          /\ \A k \in 1..build.looked + 1 : k \in 1..build.looked \/ k = build.looked + 1
<1>1. /\ build.tagged \in Seq(BuildTag) /\ BuildKept(build, profile.industries, files)
  BY BuildTypes
<1>2. PICK n \in Nat, l \in Nat : n = Len(build.tagged) /\ l = build.looked
  BY BuildTypes
<1>3. /\ l + 1 \in 1..n /\ \A k \in 1..l : k \in 1..n /\ k # l + 1
  BY <1>2
<1>4. Classified(build.tagged, build.failed, profile.industries)
  BY <1>1 DEF BuildKept
<1>5. build.tagged[l + 1] \in BuildTag /\ OnceEach(build.tagged[l + 1].industries)
  BY <1>1, <1>2, <1>3, <1>4 DEF Classified
<1>6. \A k \in 1..l : build.tagged[k].source # build.tagged[l + 1].source
  BY <1>2, <1>3, <1>4 DEF Classified, TagsApart
<1>7. /\ 1..l \subseteq 1..l + 1 /\ \A k \in 1..l + 1 : k \in 1..l \/ k = l + 1
  BY OneMore
<1>8. /\ build.tagged[l + 1].source \in Build!Sources
      /\ build.tagged[l + 1].skills \in SUBSET AnySkill
  BY <1>5 DEF BuildTag
<1> QED  BY <1>2, <1>3, <1>5, <1>6, <1>7, <1>8

\* Looking at one more tag keeps what is not about the tags looked at.
LEMMA LookKept ==
    ASSUME Build!BuildAssumption, BuildInv, build.looked < Len(build.tagged),
           build.pc \in {"projects", "posts"},
           NEW projects \in [Build!Industries -> Seq(Build!Sources)],
           NEW skills \in [Build!Industries -> SUBSET AnySkill],
           NEW posts \in [Build!Industries -> Seq(Build!Sources)],
           build' = [build EXCEPT !.looked = build.looked + 1, !.projects = projects,
                                  !.skills = skills, !.posts = posts],
           files' = files, profile' = profile,
           IF build.pc = "projects"
           THEN posts = build.posts /\ ProjectsUpTo(build.looked + 1, build.tagged, projects)
           ELSE projects = build.projects /\ PostsUpTo(build.looked + 1, build.tagged, posts)
    PROVE BuildInv'
<1>0. /\ build \in BuildRow /\ BuildKept(build, profile.industries, files)
      /\ build.looked + 1 \in Nat /\ build.looked + 1 <= Len(build.tagged)
  <2>1. /\ build \in BuildRow /\ BuildKept(build, profile.industries, files)
        /\ build.looked \in Nat /\ Len(build.tagged) \in Nat
    BY BuildTypes
  <2> QED  BY <2>1
<1>1. build' \in BuildRow
  BY <1>0, ZenonT(40) DEF BuildRow
<1>2. /\ build'.tagged = build.tagged /\ build'.pc = build.pc
      /\ build'.looked = build.looked + 1
      /\ build'.failed = build.failed /\ build'.plans = build.plans
      /\ build'.plan = build.plan /\ build'.format = build.format
      /\ build'.projects = projects /\ build'.posts = posts
  BY <1>0 DEF BuildRow
<1>3. Unplanned(build) /\ Classified(build.tagged, build.failed, profile.industries)
  BY <1>0 DEF BuildKept
<1>4. Unplanned(build') /\ Classified(build'.tagged, build'.failed, profile.industries)
  BY <1>2, <1>3 DEF Unplanned
<1>5. /\ build'.looked <= Len(build'.tagged)
      /\ build'.plan \in 1..Len(build'.plans) + 1 /\ build'.format \in 1..Len(Formats) + 1
  BY <1>0, <1>2, BuildTypes
<1>6. CASE build.pc = "projects"
  <2>1. PostsUpTo(0, build.tagged, build.posts)
    BY <1>0, <1>6 DEF BuildKept
  <2>2. /\ ProjectsUpTo(build'.looked, build'.tagged, build'.projects)
        /\ PostsUpTo(0, build'.tagged, build'.posts)
    BY <1>2, <1>6, <2>1
  <2>3. BuildKept(build', profile.industries, files)
    BY <1>1, <1>2, <1>4, <1>5, <1>6, <2>2 DEF BuildKept
  <2> QED  BY <2>3, OnlyBuild
<1>7. CASE build.pc = "posts"
  <2>1. ProjectsUpTo(Len(build.tagged), build.tagged, build.projects)
    BY <1>0, <1>7 DEF BuildKept
  <2>2. /\ ProjectsUpTo(Len(build'.tagged), build'.tagged, build'.projects)
        /\ PostsUpTo(build'.looked, build'.tagged, build'.posts)
    BY <1>2, <1>7, <2>1
  <2>3. BuildKept(build', profile.industries, files)
    BY <1>1, <1>2, <1>4, <1>5, <1>7, <2>2 DEF BuildKept
  <2> QED  BY <2>3, OnlyBuild
<1> QED  BY <1>6, <1>7

LEMMA PlanProjectKept ==
    ASSUME Build!BuildAssumption, BuildInv, Build!PlanProject
    PROVE BuildInv'
<1>0. /\ build \in BuildRow /\ BuildKept(build, profile.industries, files)
      /\ build.pc = "projects" /\ build.looked < Len(build.tagged)
      /\ files' = files /\ profile' = profile
      /\ build.projects \in [Build!Industries -> Seq(Build!Sources)]
      /\ build.posts \in [Build!Industries -> Seq(Build!Sources)]
      /\ build.skills \in [Build!Industries -> SUBSET AnySkill]
  BY BuildTypes DEF Build!PlanProject, Build!Planned
<1>1. PICK l \in Nat : l = build.looked
  BY BuildTypes
<1>2. PICK t \in BuildTag :
        /\ t = build.tagged[l + 1] /\ OnceEach(t.industries)
        /\ t.source \in Build!Sources /\ t.skills \in SUBSET AnySkill
        /\ \A k \in 1..l : build.tagged[k].source # t.source
        /\ 1..l \subseteq 1..l + 1 /\ l + 1 \in 1..l + 1
        /\ \A k \in 1..l + 1 : k \in 1..l \/ k = l + 1
  BY <1>0, <1>1, NextTag
<1>3. ProjectsUpTo(l, build.tagged, build.projects)
  BY <1>0, <1>1 DEF BuildKept
<1>4. CASE t.source \notin DOMAIN Repos
  <2>1. ProjectsUpTo(l + 1, build.tagged, build.projects)
    BY <1>2, <1>3, <1>4 DEF ProjectsUpTo, Shows
  <2>2. build' = [build EXCEPT !.looked = @ + 1]
    BY <1>1, <1>2, <1>4 DEF Build!PlanProject
  <2>3. build' = [build EXCEPT !.looked = build.looked + 1, !.projects = build.projects,
                               !.skills = build.skills, !.posts = build.posts]
    BY <1>0, <2>2 DEF BuildRow
  <2> QED  BY <1>0, <1>1, <2>1, <2>3, LookKept
<1>5. CASE t.source \in DOMAIN Repos
  <2> DEFINE Then(i) == IF i \in Named(t) THEN Append(build.projects[i], t.source)
                        ELSE build.projects[i]
  <2>1. \A i \in Build!Industries :
          /\ Build!WithProject(t, i) = Then(i) /\ Then(i) \in Seq(Build!Sources)
          /\ OnceEach(Then(i))
          /\ Members(Then(i)) = IF i \in Named(t) THEN Members(build.projects[i]) \cup {t.source}
                                ELSE Members(build.projects[i])
    <3> SUFFICES ASSUME NEW i \in Build!Industries
                 PROVE /\ Build!WithProject(t, i) = Then(i) /\ Then(i) \in Seq(Build!Sources)
                       /\ OnceEach(Then(i))
                       /\ Members(Then(i)) =
                            IF i \in Named(t) THEN Members(build.projects[i]) \cup {t.source}
                            ELSE Members(build.projects[i])
      OBVIOUS
    <3>1. PICK s \in Seq(Build!Sources) : s = build.projects[i]
      BY <1>0
    <3>2. OnceEach(s) /\ t.source \notin Members(s)
      BY <1>2, <1>3, <3>1 DEF ProjectsUpTo
    <3>3. /\ Append(s, t.source) \in Seq(Build!Sources) /\ OnceEach(Append(s, t.source))
          /\ Members(Append(s, t.source)) = Members(s) \cup {t.source}
      BY <1>2, <3>2, OnceAppended
    <3>4. Build!WithProject(t, i) = Then(i)
      BY <1>2, <3>1, OneCopy
    <3> QED  BY <3>1, <3>2, <3>3, <3>4
  <2>2. PICK projects \in [Build!Industries -> Seq(Build!Sources)] :
           /\ projects = [i \in Build!Industries |-> Build!WithProject(t, i)]
           /\ \A i \in Build!Industries :
                /\ OnceEach(projects[i])
                /\ Members(projects[i]) =
                     IF i \in Named(t) THEN Members(build.projects[i]) \cup {t.source}
                     ELSE Members(build.projects[i])
    <3> HIDE DEF Then
    <3>1. PICK projects : projects = [i \in Build!Industries |-> Build!WithProject(t, i)]
      OBVIOUS
    <3>2. \A i \in Build!Industries : projects[i] = Then(i)
      BY <2>1, <3>1
    <3>3. \A i \in Build!Industries : projects[i] \in Seq(Build!Sources)
      BY <2>1, <3>2
    <3>4. projects \in [Build!Industries -> Seq(Build!Sources)]
      BY <3>1, <3>3
    <3>5. \A i \in Build!Industries :
            /\ OnceEach(projects[i])
            /\ Members(projects[i]) =
                 IF i \in Named(t) THEN Members(build.projects[i]) \cup {t.source}
                 ELSE Members(build.projects[i])
      BY <2>1, <3>2
    <3> QED  BY <3>1, <3>4, <3>5
  <2>3. PICK skills \in [Build!Industries -> SUBSET AnySkill] :
          skills = [i \in Build!Industries |-> IF i \in Build!Range(t.industries)
                                               THEN build.skills[i] \cup t.skills
                                               ELSE build.skills[i]]
    BY <1>0, <1>2
  <2>4. ProjectsUpTo(l + 1, build.tagged, projects)
    <3> SUFFICES ASSUME NEW i \in Build!Industries, NEW s
                 PROVE s \in Members(projects[i]) <=>
                         \E k \in 1..l + 1 : Shows(build.tagged[k], i) /\ build.tagged[k].source = s
      BY <2>2 DEF ProjectsUpTo
    <3>1. s \in Members(build.projects[i]) <=>
            \E k \in 1..l : Shows(build.tagged[k], i) /\ build.tagged[k].source = s
      BY <1>3 DEF ProjectsUpTo
    <3>2. Shows(build.tagged[l + 1], i) <=> i \in Named(t)
      BY <1>2, <1>5 DEF Shows
    <3>3. s \in Members(projects[i]) <=>
            \/ s \in Members(build.projects[i]) \/ (i \in Named(t) /\ s = t.source)
      BY <2>2
    <3> QED  BY <1>2, <3>1, <3>2, <3>3
  <2>5. build' = [build EXCEPT !.looked = build.looked + 1, !.projects = projects,
                               !.skills = skills, !.posts = build.posts]
    <3>1. build' = [build EXCEPT !.looked = @ + 1, !.projects = projects, !.skills = skills]
      BY <1>1, <1>2, <1>5, <2>2, <2>3 DEF Build!PlanProject
    <3> QED  BY <1>0, <3>1 DEF BuildRow
  <2> QED  BY <1>0, <1>1, <2>4, <2>5, LookKept
<1> QED  BY <1>4, <1>5

LEMMA PlanPostKept ==
    ASSUME Build!BuildAssumption, BuildInv, Build!PlanPost
    PROVE BuildInv'
<1>0. /\ build \in BuildRow /\ BuildKept(build, profile.industries, files)
      /\ build.pc = "posts" /\ build.looked < Len(build.tagged)
      /\ files' = files /\ profile' = profile
      /\ build.projects \in [Build!Industries -> Seq(Build!Sources)]
      /\ build.posts \in [Build!Industries -> Seq(Build!Sources)]
      /\ build.skills \in [Build!Industries -> SUBSET AnySkill]
  BY BuildTypes DEF Build!PlanPost, Build!Planned
<1>1. PICK l \in Nat : l = build.looked
  BY BuildTypes
<1>2. PICK t \in BuildTag :
        /\ t = build.tagged[l + 1] /\ t.source \in Build!Sources
        /\ \A k \in 1..l : build.tagged[k].source # t.source
        /\ 1..l \subseteq 1..l + 1 /\ l + 1 \in 1..l + 1
  BY <1>0, <1>1, NextTag
<1>3. PostsUpTo(l, build.tagged, build.posts)
  BY <1>0, <1>1 DEF BuildKept
<1>4. CASE t.source \notin DOMAIN BuildPosts
  <2>1. PostsUpTo(l + 1, build.tagged, build.posts)
    BY <1>2, <1>3 DEF PostsUpTo
  <2>2. build' = [build EXCEPT !.looked = @ + 1]
    BY <1>1, <1>2, <1>4 DEF Build!PlanPost
  <2>3. build' = [build EXCEPT !.looked = build.looked + 1, !.projects = build.projects,
                               !.skills = build.skills, !.posts = build.posts]
    BY <1>0, <2>2 DEF BuildRow
  <2> QED  BY <1>0, <1>1, <2>1, <2>3, LookKept
<1>5. CASE t.source \in DOMAIN BuildPosts
  <2> DEFINE Then(i) == IF Build!Joins(t, i) THEN Append(build.posts[i], t.source)
                        ELSE build.posts[i]
  <2>1. \A i \in Build!Industries :
          /\ Then(i) \in Seq(Build!Sources) /\ OnceEach(Then(i))
          /\ Members(Then(i)) \subseteq Members(build.posts[i]) \cup {t.source}
    <3> SUFFICES ASSUME NEW i \in Build!Industries
                 PROVE /\ Then(i) \in Seq(Build!Sources) /\ OnceEach(Then(i))
                       /\ Members(Then(i)) \subseteq Members(build.posts[i]) \cup {t.source}
      OBVIOUS
    <3>1. PICK s \in Seq(Build!Sources) : s = build.posts[i]
      BY <1>0
    <3>2. OnceEach(s) /\ t.source \notin Members(s)
      BY <1>2, <1>3, <3>1 DEF PostsUpTo
    <3>3. /\ Append(s, t.source) \in Seq(Build!Sources) /\ OnceEach(Append(s, t.source))
          /\ Members(Append(s, t.source)) = Members(s) \cup {t.source}
      BY <1>2, <3>2, OnceAppended
    <3> QED  BY <3>1, <3>2, <3>3
  <2>2. PICK posts \in [Build!Industries -> Seq(Build!Sources)] :
           /\ posts = [i \in Build!Industries |-> Then(i)]
           /\ \A i \in Build!Industries :
                /\ OnceEach(posts[i])
                /\ Members(posts[i]) \subseteq Members(build.posts[i]) \cup {t.source}
    <3> HIDE DEF Then
    <3>1. PICK posts : posts = [i \in Build!Industries |-> Then(i)]
      OBVIOUS
    <3>2. \A i \in Build!Industries : posts[i] = Then(i)
      BY <3>1
    <3> QED  BY <2>1, <3>1, <3>2
  <2>3. PostsUpTo(l + 1, build.tagged, posts)
    <3> SUFFICES ASSUME NEW i \in Build!Industries, NEW s \in Members(posts[i])
                 PROVE \E k \in 1..l + 1 : build.tagged[k].source = s
      BY <2>2 DEF PostsUpTo
    <3>1. s \in Members(build.posts[i]) \/ s = t.source
      BY <2>2
    <3> QED  BY <1>2, <1>3, <3>1 DEF PostsUpTo
  <2>4. build' = [build EXCEPT !.looked = build.looked + 1, !.projects = build.projects,
                               !.skills = build.skills, !.posts = posts]
    <3>1. build' = [build EXCEPT !.looked = @ + 1, !.posts = posts]
      BY <1>1, <1>2, <1>5, <2>2 DEF Build!PlanPost
    <3> QED  BY <1>0, <3>1 DEF BuildRow
  <2> QED  BY <1>0, <1>1, <2>3, <2>4, LookKept
<1> QED  BY <1>4, <1>5

LEMMA PlanNextKept ==
    ASSUME Build!BuildAssumption, BuildInv, Build!PlanNext
    PROVE BuildInv'
<1>0. /\ build \in BuildRow /\ BuildKept(build, profile.industries, files)
      /\ build.pc \in {"projects", "posts"} /\ build.looked = Len(build.tagged)
      /\ Len(build.tagged) \in Nat /\ files' = files /\ profile' = profile
  BY BuildTypes DEF Build!PlanNext
<1>1. /\ Unplanned(build) /\ Classified(build.tagged, build.failed, profile.industries)
      /\ ProjectsUpTo(Len(build.tagged), build.tagged, build.projects)
  BY <1>0 DEF BuildKept
<1>2. CASE build.pc = "projects"
  <2>1. build' = [build EXCEPT !.pc = "posts", !.looked = 0]
    BY <1>2 DEF Build!PlanNext
  <2>2. build' \in BuildRow
    <3>1. "posts" \in {"idle", "tag", "static", "projects", "posts", "render", "ended", "dead"}
          /\ 0 \in Nat
      OBVIOUS
    <3> QED  BY <1>0, <2>1, <3>1, ZenonT(40) DEF BuildRow
  <2>3. /\ build'.tagged = build.tagged /\ build'.pc = "posts" /\ build'.looked = 0
        /\ build'.failed = build.failed /\ build'.plans = build.plans
        /\ build'.plan = build.plan /\ build'.format = build.format
        /\ build'.projects = build.projects /\ build'.posts = build.posts
    BY <1>0, <2>1 DEF BuildRow
  <2>4. PostsUpTo(0, build.tagged, build.posts)
    BY <1>0, <1>2 DEF BuildKept
  <2>5. /\ Unplanned(build') /\ Classified(build'.tagged, build'.failed, profile.industries)
        /\ ProjectsUpTo(Len(build'.tagged), build'.tagged, build'.projects)
        /\ PostsUpTo(build'.looked, build'.tagged, build'.posts)
    BY <1>1, <2>3, <2>4 DEF Unplanned
  <2>6. /\ build'.looked <= Len(build'.tagged)
        /\ build'.plan \in 1..Len(build'.plans) + 1 /\ build'.format \in 1..Len(Formats) + 1
    BY <1>0, <2>3, BuildTypes
  <2>7. BuildKept(build', profile.industries, files)
    BY <2>2, <2>3, <2>5, <2>6 DEF BuildKept
  <2> QED  BY <1>0, <2>7, OnlyBuild
<1>3. CASE build.pc = "posts"
  <2>1. PICK S \in SUBSET Build!Industries :
          S = {i \in Build!Industries : build.projects[i] # <<>>}
    OBVIOUS
  <2>2. IsFiniteSet(S)
    BY BuildFinite, FS_Subset
  <2>3. PICK plans \in Seq(Build!Industries) :
          plans = Build!Listed(S) /\ OnceEach(plans) /\ Members(plans) = S
    BY <2>2, ListedAll
  <2>4. build' = [build EXCEPT !.pc = "render", !.plans = plans]
    BY <1>3, <2>1, <2>3 DEF Build!PlanNext
  <2>5. build' \in BuildRow
    <3>1. "render" \in {"idle", "tag", "static", "projects", "posts", "render", "ended", "dead"}
      OBVIOUS
    <3> QED  BY <1>0, <2>3, <2>4, <3>1, ZenonT(40) DEF BuildRow
  <2>6. /\ build'.tagged = build.tagged /\ build'.pc = "render"
        /\ build'.looked = build.looked
        /\ build'.failed = build.failed /\ build'.plans = plans
        /\ build'.plan = 1 /\ build'.format = 1
        /\ build'.projects = build.projects /\ build'.posts = build.posts
    BY <1>0, <1>1, <2>4 DEF BuildRow, Unplanned
  <2>7. PostsUpTo(Len(build.tagged), build.tagged, build.posts)
    BY <1>0, <1>3 DEF BuildKept
  <2>8. /\ Classified(build'.tagged, build'.failed, profile.industries)
        /\ ProjectsUpTo(Len(build'.tagged), build'.tagged, build'.projects)
        /\ PostsUpTo(Len(build'.tagged), build'.tagged, build'.posts)
        /\ OnceEach(build'.plans)
        /\ Members(build'.plans) = {i \in Build!Industries : build'.projects[i] # <<>>}
    BY <1>1, <2>1, <2>3, <2>6, <2>7
  <2>9. Rendered(build', files)
    <3>1. \A k \in 1..Len(plans), m \in 1..Len(Formats) : ~(k < 1) /\ ~(m < 1)
      BY <2>3 DEF Build!BuildAssumption
    <3> QED  BY <2>6, <3>1 DEF Rendered
  <2>10. /\ build'.looked <= Len(build'.tagged)
         /\ build'.plan \in 1..Len(build'.plans) + 1 /\ build'.format \in 1..Len(Formats) + 1
    <3>1. Len(plans) \in Nat /\ Len(Formats) \in Nat
      BY <2>3 DEF Build!BuildAssumption
    <3> QED  BY <1>0, <2>6, <3>1
  <2>11. BuildKept(build', profile.industries, files)
    BY <2>5, <2>6, <2>8, <2>9, <2>10 DEF BuildKept
  <2> QED  BY <1>0, <2>11, OnlyBuild
<1> QED  BY <1>0, <1>2, <1>3

\* While resumes are rendered, only the place and the files move.
LEMMA RenderOn ==
    ASSUME Build!BuildAssumption, BuildInv, build.pc = "render",
           NEW plan \in 1..Len(build.plans) + 1, NEW format \in 1..Len(Formats) + 1,
           NEW c \in {"render", "ended"}, c = "ended" => plan > Len(build.plans),
           build' = [build EXCEPT !.pc = c, !.plan = plan, !.format = format],
           profile' = profile, FilesKept',
           Rendered(build', files')
    PROVE BuildInv'
<1>0. /\ build \in BuildRow /\ BuildKept(build, profile.industries, files)
      /\ profile \in ProfileRow /\ build.looked <= Len(build.tagged)
  BY BuildTypes
<1>1. plan \in Nat /\ format \in Nat
  OBVIOUS
<1>2. build' \in BuildRow
  <2>1. c \in {"idle", "tag", "static", "projects", "posts", "render", "ended", "dead"}
    OBVIOUS
  <2> QED  BY <1>0, <1>1, <2>1, ZenonT(40) DEF BuildRow
<1>3. /\ build'.tagged = build.tagged /\ build'.pc = c /\ build'.looked = build.looked
      /\ build'.failed = build.failed /\ build'.plans = build.plans
      /\ build'.plan = plan /\ build'.format = format
      /\ build'.projects = build.projects /\ build'.posts = build.posts
  BY <1>0 DEF BuildRow
<1>4. /\ Classified(build.tagged, build.failed, profile.industries)
      /\ ProjectsUpTo(Len(build.tagged), build.tagged, build.projects)
      /\ PostsUpTo(Len(build.tagged), build.tagged, build.posts)
      /\ OnceEach(build.plans)
      /\ Members(build.plans) = {i \in Build!Industries : build.projects[i] # <<>>}
  BY <1>0 DEF BuildKept
<1>5. BuildKept(build', profile.industries, files')
  BY <1>0, <1>2, <1>3, <1>4 DEF BuildKept
<1>6. BuildKept(build, profile.industries, files)'
  BY <1>5
<1>7. (profile \in ProfileRow)'
  BY <1>0 DEF ProfileRow, AnySkill
<1> QED  BY <1>6, <1>7 DEF BuildInv

LEMMA FileWritten ==
    ASSUME NEW D, NEW F, NEW docs, Grid(docs, D, F), NEW dir \in D, NEW name \in F, NEW text
    PROVE /\ Grid(Written(docs, dir, name, text), D, F)
          /\ \A d \in D, f \in F :
               Written(docs, dir, name, text)[d][f] =
                 IF d = dir /\ f = name THEN text ELSE docs[d][f]
<1>1. /\ docs = [d \in D |-> [f \in F |-> docs[d][f]]]
      /\ DOMAIN docs = D /\ \A d \in D : docs[d] = [f \in F |-> docs[d][f]]
  BY DEF Grid
<1>2. PICK then : then = Written(docs, dir, name, text)
  OBVIOUS
<1>3. then = [d \in D |-> IF d = dir THEN [docs[dir] EXCEPT ![name] = text] ELSE docs[d]]
  BY <1>1, <1>2 DEF Written
<1>4. PICK new : /\ new = [docs[dir] EXCEPT ![name] = text] /\ new = [f \in F |-> new[f]]
                 /\ \A f \in F : new[f] = IF f = name THEN text ELSE docs[dir][f]
  <2>1. [docs[dir] EXCEPT ![name] = text] =
          [f \in F |-> IF f = name THEN text ELSE docs[dir][f]]
    BY <1>1
  <2> QED  BY <2>1
<1>5. DOMAIN then = D /\ \A d \in D : then[d] = IF d = dir THEN new ELSE docs[d]
  BY <1>3, <1>4
<1>6. \A d \in D : then[d] = [f \in F |-> then[d][f]]
  BY <1>1, <1>4, <1>5
<1>7. then = [d \in D |-> then[d]]
  BY <1>3
<1>8. Grid(then, D, F)
  BY <1>6, <1>7 DEF Grid
<1>9. \A d \in D, f \in F : then[d][f] = IF d = dir /\ f = name THEN text ELSE docs[d][f]
  BY <1>4, <1>5
<1> QED  BY <1>2, <1>8, <1>9

\* The place in the plans and formats after one more.
LEMMA PlaceAfter ==
    ASSUME NEW p \in Nat, NEW f \in Nat, NEW k \in Nat, NEW m \in Nat
    PROVE (k < p \/ (k = p /\ m < f + 1)) <=>
            (k < p \/ (k = p /\ m < f) \/ (k = p /\ m = f))
  OBVIOUS

LEMMA RenderKept ==
    ASSUME Build!BuildAssumption, BuildInv, Build!Render
    PROVE BuildInv'
<1>0. /\ build \in BuildRow /\ BuildKept(build, profile.industries, files) /\ FilesKept
      /\ build.pc = "render" /\ profile' = profile
      /\ build.plan <= Len(build.plans) /\ build.format <= Len(Formats)
      /\ build.plans \in Seq(Build!Industries)
  BY BuildTypes DEF Build!Render
<1>1. PICK p \in Nat, f \in Nat, n \in Nat, o \in Nat :
        p = build.plan /\ f = build.format /\ n = Len(build.plans) /\ o = Len(Formats)
  BY BuildTypes DEF Build!BuildAssumption
<1>2. /\ p \in 1..n /\ f \in 1..o /\ p \in 1..n + 1 /\ f + 1 \in 1..o + 1
  <2>1. p \in 1..n + 1 /\ f \in 1..o + 1
    BY <1>1, BuildTypes
  <2> QED  BY <1>0, <1>1, <2>1
<1>3. \A k \in 1..n : build.plans[k] \in Build!Industries /\ Slug[build.plans[k]] \in Dirs
  BY <1>0, <1>1 DEF Dirs
<1>4. \A m \in 1..o : Formats[m] \in Build!Range(Formats)
  BY <1>1 DEF Build!BuildAssumption, Build!Range
<1>5. PICK dir \in Dirs, name \in Build!Range(Formats) :
        dir = Slug[build.plans[p]] /\ name = Formats[f]
  BY <1>2, <1>3, <1>4
<1>6. Build!Resume(build.plans[p]) = ResumeOf(build, build.plans[p])
  BY DEF Build!Resume, ResumeOf
<1>7. PICK docs : docs = files' /\ docs = [files EXCEPT ![dir][name] = ResumeOf(build, build.plans[p])]
  BY <1>1, <1>5, <1>6 DEF Build!Render
<1>8. /\ docs = [d \in Dirs |-> [g \in Build!Range(Formats) |-> docs[d][g]]]
      /\ \A d \in Dirs, g \in Build!Range(Formats) :
           docs[d][g] = IF d = dir /\ g = name THEN ResumeOf(build, build.plans[p])
                        ELSE files[d][g]
  <2>1. Grid(files, Dirs, Build!Range(Formats))
    BY <1>0 DEF FilesKept, Grid
  <2>2. docs = Written(files, dir, name, ResumeOf(build, build.plans[p]))
    BY <1>7 DEF Written
  <2>3. /\ Grid(docs, Dirs, Build!Range(Formats))
        /\ \A d \in Dirs, g \in Build!Range(Formats) :
             docs[d][g] = IF d = dir /\ g = name THEN ResumeOf(build, build.plans[p])
                          ELSE files[d][g]
    BY <2>1, <2>2, FileWritten
  <2> QED  BY <2>3 DEF Grid
<1>9. FilesKept'
  <2>1. FilesKept' = (files' = [d \in Dirs |-> [g \in Build!Range(Formats) |-> files'[d][g]]])
    BY DEF FilesKept, Dirs, Build!Range
  <2>2. docs = [d \in Dirs |-> [g \in Build!Range(Formats) |-> docs[d][g]]]
    BY <1>8
  <2>3. files' = [d \in Dirs |-> [g \in Build!Range(Formats) |-> files'[d][g]]]
    BY <1>7, <2>2
  <2> QED  BY <2>1, <2>3
<1>10. build' = [build EXCEPT !.pc = "render", !.plan = p, !.format = f + 1]
  <2>1. build' = [build EXCEPT !.format = @ + 1]
    BY DEF Build!Render
  <2> QED  BY <1>0, <1>1, <2>1 DEF BuildRow
<1>11. /\ build'.plans = build.plans /\ build'.plan = p /\ build'.format = f + 1
       /\ build'.count = build.count /\ build'.projects = build.projects
       /\ build'.posts = build.posts
  BY <1>0, <1>10 DEF BuildRow
<1>12. Rendered(build, files)
  BY <1>0 DEF BuildKept
<1>13. Rendered(build', docs)
  <2> SUFFICES ASSUME NEW k \in 1..n, NEW m \in 1..o, k < p \/ (k = p /\ m < f + 1),
                      \A q \in 1..n : q # k => Slug[build.plans[q]] # Slug[build.plans[k]]
               PROVE docs[Slug[build.plans[k]]][Formats[m]] = ResumeOf(build, build.plans[k])
    BY <1>1, <1>11 DEF Rendered, ResumeOf
  <2>1. /\ k \in Nat /\ m \in Nat
        /\ Slug[build.plans[k]] \in Dirs /\ Formats[m] \in Build!Range(Formats)
    BY <1>3, <1>4
  <2>2. k < p \/ (k = p /\ m < f) \/ (k = p /\ m = f)
    BY <2>1, PlaceAfter
  <2>3. CASE k < p \/ (k = p /\ m < f)
    <3>1. files[Slug[build.plans[k]]][Formats[m]] = ResumeOf(build, build.plans[k])
      BY <1>1, <1>12, <2>3 DEF Rendered
    <3>2. k # p => Slug[build.plans[k]] # dir
      BY <1>2, <1>5
    <3> QED  BY <1>8, <2>1, <3>1, <3>2
  <2>4. CASE k = p /\ m = f
    BY <1>5, <1>8, <2>4
  <2> QED  BY <2>2, <2>3, <2>4
<1>14. Rendered(build', files')
  BY <1>7, <1>13
<1> QED  BY <1>0, <1>1, <1>2, <1>9, <1>10, <1>14, RenderOn

LEMMA NextPlanKept ==
    ASSUME Build!BuildAssumption, BuildInv, Build!NextPlan
    PROVE BuildInv'
<1>0. /\ build \in BuildRow /\ BuildKept(build, profile.industries, files) /\ FilesKept
      /\ build.pc = "render" /\ profile' = profile /\ files' = files
      /\ build.plan <= Len(build.plans) /\ build.format > Len(Formats)
  BY BuildTypes DEF Build!NextPlan
<1>1. PICK p \in Nat, f \in Nat, n \in Nat, o \in Nat :
        p = build.plan /\ f = build.format /\ n = Len(build.plans) /\ o = Len(Formats)
  BY BuildTypes DEF Build!BuildAssumption
<1>2. p + 1 \in 1..n + 1 /\ 1 \in 1..o + 1
  BY <1>0, <1>1
<1>3. build' = [build EXCEPT !.pc = "render", !.plan = p + 1, !.format = 1]
  <2>1. build' = [build EXCEPT !.plan = @ + 1, !.format = 1]
    BY DEF Build!NextPlan
  <2> QED  BY <1>0, <1>1, <2>1 DEF BuildRow
<1>4. /\ build'.plans = build.plans /\ build'.plan = p + 1 /\ build'.format = 1
      /\ build'.count = build.count /\ build'.projects = build.projects
      /\ build'.posts = build.posts
  BY <1>0, <1>3 DEF BuildRow
<1>5. Rendered(build, files)
  BY <1>0 DEF BuildKept
<1>6. \A k \in 1..n, m \in 1..o :
        k < p + 1 \/ (k = p + 1 /\ m < 1) => k < p \/ (k = p /\ m < f)
  BY <1>0, <1>1
<1>7. Rendered(build', files')
  BY <1>0, <1>1, <1>4, <1>5, <1>6 DEF Rendered, ResumeOf
<1>8. FilesKept'
  <2>1. FilesKept' = (files' = [d \in Dirs |-> [f1 \in Build!Range(Formats) |-> files'[d][f1]]])
    BY DEF FilesKept, Dirs, Build!Range
  <2> QED  BY <1>0, <2>1 DEF FilesKept
<1> QED  BY <1>0, <1>1, <1>2, <1>3, <1>7, <1>8, RenderOn

LEMMA EndBuildKept ==
    ASSUME Build!BuildAssumption, BuildInv, Build!EndBuild
    PROVE BuildInv'
<1>0. /\ build \in BuildRow /\ BuildKept(build, profile.industries, files) /\ FilesKept
      /\ build.pc = "render" /\ profile' = profile /\ files' = files
      /\ build.plan > Len(build.plans)
      /\ build.plan \in 1..Len(build.plans) + 1 /\ build.format \in 1..Len(Formats) + 1
  BY BuildTypes DEF Build!EndBuild
<1>1. build' = [build EXCEPT !.pc = "ended", !.plan = build.plan, !.format = build.format]
  <2>1. build' = [build EXCEPT !.pc = "ended"]
    BY DEF Build!EndBuild
  <2> QED  BY <1>0, <2>1 DEF BuildRow
<1>2. /\ build'.plans = build.plans /\ build'.plan = build.plan
      /\ build'.format = build.format
      /\ build'.count = build.count /\ build'.projects = build.projects
      /\ build'.posts = build.posts
  BY <1>0, <1>1 DEF BuildRow
<1>3. Rendered(build, files)
  BY <1>0 DEF BuildKept
<1>4. Rendered(build', files')
  <2>1. \A i : ResumeOf(build', i) = ResumeOf(build, i)
    BY <1>2 DEF ResumeOf
  <2> QED  BY <1>0, <1>2, <1>3, <2>1 DEF Rendered
<1>5. FilesKept'
  <2>1. FilesKept' = (files' = [d \in Dirs |-> [f \in Build!Range(Formats) |-> files'[d][f]]])
    BY DEF FilesKept, Dirs, Build!Range
  <2> QED  BY <1>0, <2>1 DEF FilesKept
<1> QED  BY <1>0, <1>1, <1>4, <1>5, RenderOn

LEMMA BuildKeeps ==
    ASSUME Build!BuildAssumption, BuildInv, [Build!Next]_Build!buildVars
    PROVE BuildInv'
<1>1. CASE Build!Next
  BY <1>1, StartBuildKept, TagSourceKept, TagFailsKept, NormalizeKept, TagStaticallyKept,
     PlanProjectKept, PlanPostKept, PlanNextKept, RenderKept, NextPlanKept, EndBuildKept
     DEF Build!Next
<1>2. CASE UNCHANGED Build!buildVars
  <2>1. build' = build /\ files' = files /\ profile' = profile
    BY <1>2 DEF Build!buildVars
  <2>2. BuildKept(build', profile.industries, files)
    BY <2>1 DEF BuildInv
  <2> QED  BY <2>1, <2>2, OnlyBuild
<1> QED  BY <1>1, <1>2

\* What is shown is what was tagged.
LEMMA BuildShows ==
    ASSUME Build!BuildAssumption, BuildInv
    PROVE Build!TypeOK /\ Build!EveryProjectIsShown
<1>0. /\ build \in BuildRow /\ BuildKept(build, profile.industries, files) /\ FilesKept
      /\ build.tagged \in Seq(BuildTag) /\ build.plans \in Seq(Build!Industries)
      /\ build.projects \in [Build!Industries -> Seq(Build!Sources)]
      /\ build.posts \in [Build!Industries -> Seq(Build!Sources)]
      /\ profile \in ProfileRow
  BY BuildTypes
<1>1. Build!TypeOK
  <2>1. /\ build.looked \in 0..Len(build.tagged) /\ build.failed \subseteq Build!Sources
        /\ build.plan \in 1..(Len(build.plans) + 1) /\ build.format \in 1..(Len(Formats) + 1)
        /\ build.count \in 0..MaxBuilds
    BY BuildTypes
  <2>2. build.pc \in {"idle", "tag", "static", "projects", "posts", "render", "ended", "dead"}
    BY <1>0 DEF BuildRow
  <2>3. profile.industries \subseteq Build!Industries
    BY <1>0 DEF ProfileRow
  <2> QED  BY <2>1, <2>2, <2>3 DEF Build!TypeOK
<1>2. ASSUME build.pc = "ended"
      PROVE /\ \A k \in DOMAIN build.plans :
                 LET i == build.plans[k] IN
                 /\ Build!IsInjective(build.projects[i]) /\ Build!IsInjective(build.posts[i])
                 /\ i \in profile.industries
                 /\ \/ \E o \in DOMAIN build.plans \ {k} : Slug[build.plans[o]] = Slug[i]
                    \/ \A f \in Build!Range(Formats) : files[Slug[i]][f] = Build!Resume(i)
            /\ \A t \in Build!Range(build.tagged) : t.source \in DOMAIN Repos =>
                 {i \in Build!Range(build.plans) : t.source \in Build!Range(build.projects[i])}
                   = Build!Range(t.industries)
            /\ Build!Tagged \cap build.failed = {}
            /\ Build!Tagged \cup build.failed = Build!Sources
  <2>1. /\ Classified(build.tagged, build.failed, profile.industries)
        /\ ProjectsUpTo(Len(build.tagged), build.tagged, build.projects)
        /\ PostsUpTo(Len(build.tagged), build.tagged, build.posts)
        /\ OnceEach(build.plans)
        /\ Members(build.plans) = {i \in Build!Industries : build.projects[i] # <<>>}
        /\ Rendered(build, files) /\ build.plan > Len(build.plans)
    BY <1>0, <1>2 DEF BuildKept
  <2>2. PICK n \in Nat, p \in Nat, o \in Nat :
          /\ n = Len(build.plans) /\ DOMAIN build.plans = 1..n /\ p = build.plan
          /\ o = Len(Formats) /\ DOMAIN Formats = 1..o
    BY <1>0, BuildTypes DEF Build!BuildAssumption
  <2>3. /\ \A k \in 1..n : k < p /\ build.plans[k] \in Build!Industries
        /\ \A i \in Build!Industries : /\ build.projects[i] \in Seq(Build!Sources)
                                       /\ build.posts[i] \in Seq(Build!Sources)
    BY <1>0, <2>1, <2>2
  <2>4. \A t \in BuildTag : Build!Range(t.industries) = Named(t)
    BY DEF BuildTag, Build!Range, Named, Members
  <2>5. \A k \in DOMAIN build.plans :
          LET i == build.plans[k] IN
          /\ Build!IsInjective(build.projects[i]) /\ Build!IsInjective(build.posts[i])
          /\ i \in profile.industries
          /\ \/ \E q \in DOMAIN build.plans \ {k} : Slug[build.plans[q]] = Slug[i]
             \/ \A f \in Build!Range(Formats) : files[Slug[i]][f] = Build!Resume(i)
    <3> SUFFICES ASSUME NEW k \in 1..n, NEW i \in Build!Industries, i = build.plans[k]
                 PROVE /\ Build!IsInjective(build.projects[i])
                       /\ Build!IsInjective(build.posts[i])
                       /\ i \in profile.industries
                       /\ \/ \E q \in DOMAIN build.plans \ {k} : Slug[build.plans[q]] = Slug[i]
                          \/ \A f \in Build!Range(Formats) : files[Slug[i]][f] = Build!Resume(i)
      BY <2>2, <2>3
    <3>1. OnceEach(build.projects[i]) /\ OnceEach(build.posts[i])
      BY <2>1 DEF ProjectsUpTo, PostsUpTo
    <3>2. Build!IsInjective(build.projects[i]) /\ Build!IsInjective(build.posts[i])
      BY <2>3, <3>1, RangeIs
    <3>3. build.projects[i] # <<>>
      BY <2>1, <2>2 DEF Members
    <3>4. PICK s : s \in Members(build.projects[i])
      BY <2>3, <3>3, RangeIs
    <3>5. PICK j \in 1..Len(build.tagged) : Shows(build.tagged[j], i)
      BY <2>1, <3>4 DEF ProjectsUpTo
    <3>6. i \in profile.industries
      BY <2>1, <3>5 DEF Classified, Shows
    <3>7. ASSUME \A q \in 1..n : q # k => Slug[build.plans[q]] # Slug[i],
                 NEW f \in Build!Range(Formats)
          PROVE files[Slug[i]][f] = Build!Resume(i)
      <4>1. PICK m \in 1..o : f = Formats[m]
        BY <2>2 DEF Build!Range
      <4>2. files[Slug[build.plans[k]]][Formats[m]] = ResumeOf(build, build.plans[k])
        BY <2>1, <2>2, <2>3, <3>7 DEF Rendered
      <4> QED  BY <4>1, <4>2 DEF Build!Resume, ResumeOf
    <3> QED  BY <2>2, <3>2, <3>6, <3>7
  <2>6. \A t \in Build!Range(build.tagged) : t.source \in DOMAIN Repos =>
          {i \in Build!Range(build.plans) : t.source \in Build!Range(build.projects[i])}
            = Build!Range(t.industries)
    <3> SUFFICES ASSUME NEW j \in 1..Len(build.tagged), NEW t \in BuildTag,
                        t = build.tagged[j], t.source \in DOMAIN Repos, NEW i
                 PROVE (i \in Build!Range(build.plans)
                          /\ t.source \in Build!Range(build.projects[i])) <=> i \in Named(t)
      <4>1. \A t \in Build!Range(build.tagged) :
              t \in BuildTag /\ \E j \in 1..Len(build.tagged) : t = build.tagged[j]
        <5>1. /\ Build!Range(build.tagged) = Members(build.tagged)
              /\ Members(build.tagged) \subseteq BuildTag
          BY <1>0, RangeIs
        <5> QED  BY <5>1 DEF Members
      <4> QED  BY <2>4, <4>1
    <3>1. Build!Range(build.plans) = Members(build.plans)
      BY <1>0, RangeIs
    <3>2. i \in Build!Industries => Build!Range(build.projects[i]) = Members(build.projects[i])
      BY <2>3, RangeIs
    <3>3. ASSUME i \in Named(t)
          PROVE i \in Members(build.plans) /\ t.source \in Members(build.projects[i])
      <4>1. i \in Build!Industries
        BY <3>3 DEF Named, Members, BuildTag
      <4>2. t.source \in Members(build.projects[i])
        BY <2>1, <3>3, <4>1 DEF ProjectsUpTo, Shows
      <4>3. build.projects[i] # <<>>
        BY <4>2 DEF Members
      <4> QED  BY <2>1, <4>1, <4>2, <4>3
    <3>4. ASSUME i \in Members(build.plans), t.source \in Members(build.projects[i])
          PROVE i \in Named(t)
      <4>1. i \in Build!Industries
        BY <2>1, <3>4
      <4>2. PICK k \in 1..Len(build.tagged) :
              Shows(build.tagged[k], i) /\ build.tagged[k].source = t.source
        BY <2>1, <3>4, <4>1 DEF ProjectsUpTo
      <4>3. k = j
        BY <2>1, <4>2 DEF Classified, TagsApart
      <4> QED  BY <4>2, <4>3 DEF Shows
    <3>5. i \in Members(build.plans) => i \in Build!Industries
      BY <2>1
    <3>6. i \in Named(t) => i \in Build!Industries
      BY DEF Named, Members, BuildTag
    <3> QED  BY <3>1, <3>2, <3>3, <3>4, <3>5, <3>6
  <2>7. Build!Tagged = TagSources(build.tagged)
    BY <1>0, TaggedIs
  <2> QED  BY <2>1, <2>5, <2>6, <2>7 DEF Classified
<1>3. Build!EveryProjectIsShown
  BY <1>2 DEF Build!EveryProjectIsShown
<1> QED  BY <1>1, <1>3
=============================================================================
