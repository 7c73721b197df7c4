----------------------- MODULE ApplicationGoalsProofs -----------------------
(***************************************************************************)
(* The ledger's counters, its target and its token contract, proved for    *)
(* every set of tasks, bands and plans.                                    *)
(***************************************************************************)
EXTENDS ApplicationGoals, FiniteSetTheorems, TLAPS

\* The sets of tasks that hold or have spent a token are finite and disjoint.
LEMMA TokenSets ==
    ASSUME NEW g \in Goals
    PROVE  /\ Held(g) \subseteq Tasks /\ IsFiniteSet(Held(g))
           /\ Spent(g) \subseteq Tasks /\ IsFiniteSet(Spent(g))
           /\ Held(g) \cap Spent(g) = {}
           /\ Cardinality(Held(g)) \in Nat
           /\ Cardinality(Spent(g)) \in Nat
           /\ Cardinality(Held(g) \cup Spent(g))
                = Cardinality(Held(g)) + Cardinality(Spent(g))
<1>1. /\ Held(g) \subseteq Tasks /\ Spent(g) \subseteq Tasks
      /\ Held(g) \cap Spent(g) = {}
  BY DEF Held, Spent
<1>2. IsFiniteSet(Held(g)) /\ IsFiniteSet(Spent(g))
  BY <1>1, GoalsAssumption, FS_Subset DEF GoalsAssumption
<1>3. Cardinality(Held(g)) \in Nat /\ Cardinality(Spent(g)) \in Nat
  BY <1>2, FS_CardinalityType
<1>4. Cardinality(Held(g) \cap Spent(g)) = 0
  BY <1>1, FS_EmptySet
<1>5. Cardinality(Held(g) \cup Spent(g))
        = Cardinality(Held(g)) + Cardinality(Spent(g))
            - Cardinality(Held(g) \cap Spent(g))
  BY <1>2, FS_Union
<1>. QED  BY <1>1, <1>2, <1>3, <1>4, <1>5

-----------------------------------------------------------------------------
\* Type correctness

LEMMA InitTypeOK == Init => TypeOK
<1>1. NoGoal \in GoalRow
  BY DEF NoGoal, GoalRow
<1>2. NoItem \in ItemRow
  BY DEF NoItem, ItemRow, AllBands
<1>3. ASSUME Init PROVE TypeOK
  <2>1. goal \in [Goals -> GoalRow]
    BY <1>1, <1>3 DEF Init
  <2>2. item \in [Goals -> [Tasks -> ItemRow]]
    BY <1>2, <1>3 DEF Init
  <2>. QED  BY <2>1, <2>2 DEF TypeOK
<1>. QED  BY <1>3

LEMMA CreateTypeOK ==
    ASSUME TypeOK, NEW g \in Goals, NEW plan \in Plans, Create(g, plan)
    PROVE  TypeOK'
<1>1. goal \in [Goals -> GoalRow] /\ item \in [Goals -> [Tasks -> ItemRow]]
  BY DEF TypeOK
<1>2. plan \in [target : Nat \ {0}, quota : [Bands -> Nat]]
  BY GoalsAssumption DEF GoalsAssumption
<1>3. [NoGoal EXCEPT !.target = plan.target, !.quota = plan.quota,
                     !.status = "active"] \in GoalRow
  BY <1>2 DEF NoGoal, GoalRow, Status, OpenStatus
<1>4. ASSUME NEW h \in Goals
      PROVE  [goal[h] EXCEPT !.status = "cancelled"] \in GoalRow /\ goal[h] \in GoalRow
  BY <1>1 DEF GoalRow, Status
<1>5. goal' \in [Goals -> GoalRow]
  BY <1>3, <1>4 DEF Create
<1>6. item' = item
  BY DEF Create
<1>. QED  BY <1>1, <1>5, <1>6 DEF TypeOK

LEMMA ObserveTypeOK ==
    ASSUME TypeOK, NEW g \in Goals, NEW t \in Tasks, NEW state \in ItemState,
           NEW band \in AllBands, NEW reviewable \in BOOLEAN,
           Observe(g, t, state, band, reviewable)
    PROVE  TypeOK'
<1> DEFINE old == item[g][t]
           new == [old EXCEPT
                     !.state = MergedState(old.state, state),
                     !.band = IF old.state = "absent" THEN band
                              ELSE MergedBand(old.band, band),
                     !.reviewable = reviewable /\ MergedState(old.state, state)
                                                    = "human_handoff"]
<1>1. old \in ItemRow
  BY DEF TypeOK
<1>2. new \in ItemRow
  BY <1>1 DEF ItemRow, MergedState, MergedBand
<1>3. item' = [item EXCEPT ![g][t] = new] /\ goal' = goal
  BY DEF Observe
<1>. QED  BY <1>2, <1>3 DEF TypeOK

\* Replacing one item row by a well-typed row keeps the table well typed.
LEMMA ItemUpdate ==
    ASSUME TypeOK, NEW g \in Goals, NEW t \in Tasks, NEW row \in ItemRow,
           item' = [item EXCEPT ![g][t] = row]
    PROVE  item' \in [Goals -> [Tasks -> ItemRow]]
  BY DEF TypeOK

\* Replacing one goal row by a well-typed row keeps the table well typed.
LEMMA GoalUpdate ==
    ASSUME TypeOK, NEW g \in Goals, NEW row \in GoalRow,
           goal' = [goal EXCEPT ![g] = row]
    PROVE  goal' \in [Goals -> GoalRow]
  BY DEF TypeOK

\* The counter arithmetic of confirm and release stays in Nat.
LEMMA CounterArithmetic ==
    ASSUME NEW n \in Nat, NEW b \in BOOLEAN
    PROVE  /\ n + Bit(b) \in Nat
           /\ MinusToZero(n, b) \in Nat
           /\ b /\ n > 0 => MinusToZero(n, b) = n - 1
           /\ ~b => MinusToZero(n, b) = n
  BY DEF Bit, MinusToZero

LEMMA ReserveTypeOK ==
    ASSUME TypeOK, NEW g \in Goals, NEW t \in Tasks, Reserve(g, t)
    PROVE  TypeOK'
<1> DEFINE row == [item[g][t] EXCEPT !.state = "reserved", !.reviewable = FALSE]
           total == [goal[g] EXCEPT !.reserved = @ + 1]
<1>1. item[g][t] \in ItemRow /\ goal[g] \in GoalRow
  BY DEF TypeOK
<1>2. row \in ItemRow
  BY <1>1 DEF ItemRow, ItemState, TokenState
<1>3. total \in GoalRow
  BY <1>1 DEF GoalRow
<1>4. item' = [item EXCEPT ![g][t] = row] /\ goal' = [goal EXCEPT ![g] = total]
  BY DEF Reserve
<1>. HIDE DEF row, total
<1>. QED  BY <1>2, <1>3, <1>4, ItemUpdate, GoalUpdate DEF TypeOK

LEMMA ConfirmTypeOK ==
    ASSUME TypeOK, NEW g \in Goals, NEW t \in Tasks, Confirm(g, t)
    PROVE  TypeOK'
<1> DEFINE held == item[g][t].state = "reserved"
           row == [item[g][t] EXCEPT !.state = "confirmed",
                                     !.counts = Counts(g, t),
                                     !.reviewable = FALSE]
           counted == [goal[g] EXCEPT !.confirmed = @ + Bit(Counts(g, t)),
                                      !.reserved = MinusToZero(@, held)]
           total == [counted EXCEPT !.status = StatusAfterConfirm(counted)]
<1>1. item[g][t] \in ItemRow /\ goal[g] \in GoalRow
  BY DEF TypeOK
<1>2. row \in ItemRow
  BY <1>1 DEF ItemRow, ItemState, TokenState, Counts
<1>3. counted \in GoalRow
  <2>1. /\ goal[g].confirmed + Bit(Counts(g, t)) \in Nat
        /\ MinusToZero(goal[g].reserved, held) \in Nat
    BY <1>1, CounterArithmetic DEF GoalRow, Counts
  <2>. QED  BY <1>1, <2>1 DEF GoalRow
<1>4. total \in GoalRow
  BY <1>3 DEF GoalRow, StatusAfterConfirm, Status, OpenStatus
<1>5. item' = [item EXCEPT ![g][t] = row] /\ goal' = [goal EXCEPT ![g] = total]
  BY DEF Confirm
<1>. HIDE DEF row, total
<1>. QED  BY <1>2, <1>4, <1>5, ItemUpdate, GoalUpdate DEF TypeOK

LEMMA ReleaseTypeOK ==
    ASSUME TypeOK, NEW g \in Goals, NEW t \in Tasks, NEW state \in ItemState,
           Release(g, t, state)
    PROVE  TypeOK'
<1> DEFINE held == item[g][t].state = "reserved"
           row == [item[g][t] EXCEPT !.state = state, !.counts = FALSE,
                                     !.reviewable = FALSE]
           total == [goal[g] EXCEPT
                       !.reserved = MinusToZero(goal[g].reserved, held),
                       !.status = IF goal[g].status = "target_reached"
                                  THEN goal[g].status ELSE "active"]
<1>1. item[g][t] \in ItemRow /\ goal[g] \in GoalRow
  BY DEF TypeOK
<1>2. row \in ItemRow
  BY <1>1 DEF ItemRow
<1>3. total \in GoalRow
  <2>1. MinusToZero(goal[g].reserved, held) \in Nat
    BY <1>1, CounterArithmetic DEF GoalRow
  <2>. QED  BY <1>1, <2>1 DEF GoalRow, Status, OpenStatus
<1>4. item' = [item EXCEPT ![g][t] = row] /\ goal' = [goal EXCEPT ![g] = total]
  BY DEF Release
<1>. HIDE DEF row, total
<1>. QED  BY <1>2, <1>3, <1>4, ItemUpdate, GoalUpdate DEF TypeOK

LEMMA ApproveTypeOK ==
    ASSUME TypeOK, NEW g \in Goals, NEW t \in Tasks, ApproveHumanReview(g, t)
    PROVE  TypeOK'
<1> DEFINE row == [item[g][t] EXCEPT !.state = "observed",
                                     !.reviewable = FALSE, !.approved = TRUE]
<1>1. item[g][t] \in ItemRow
  BY DEF TypeOK
<1>2. row \in ItemRow
  BY <1>1 DEF ItemRow, ItemState
<1>3. item' = [item EXCEPT ![g][t] = row] /\ goal' = goal
  BY DEF ApproveHumanReview
<1>. HIDE DEF row
<1>. QED  BY <1>2, <1>3, ItemUpdate DEF TypeOK

\* Every step of the ledger keeps the rows well typed.
LEMMA NextTypeOK == TypeOK /\ [Next]_vars => TypeOK'
<1> SUFFICES ASSUME TypeOK, [Next]_vars PROVE TypeOK'
  OBVIOUS
<1>1. CASE UNCHANGED vars
  BY <1>1 DEF TypeOK, vars
<1>2. ASSUME NEW g \in Goals, NEW status \in Status, SetStatus(g, status)
      PROVE  TypeOK'
  BY <1>2 DEF SetStatus, TypeOK, GoalRow
<1>. QED
  BY <1>1, <1>2, CreateTypeOK, ObserveTypeOK, ReserveTypeOK, ConfirmTypeOK,
     ReleaseTypeOK, ApproveTypeOK DEF Next

\* The rows of the two tables keep their columns and ranges for every set of
\* tasks, bands and plans.
THEOREM TypeCorrect == Spec => []TypeOK
<1>. QED  BY InitTypeOK, NextTypeOK, PTL DEF Spec
-----------------------------------------------------------------------------
\* Tokens

\* A goal's row agrees with its items.
GoalAgrees(g) ==
    /\ goal[g].reserved = Cardinality(Held(g))
    /\ goal[g].confirmed = Cardinality(Spent(g))
    /\ goal[g].reserved + goal[g].confirmed <= goal[g].target
    /\ goal[g].status = "target_reached" => goal[g].confirmed = goal[g].target
    /\ ~Exists(g) => goal[g].target = 0

\* The inductive invariant.  The bound on the counters alone is not inductive:
\* it needs their agreement with the items, which in turn needs the bound (a
\* decrement clamped at zero would break the agreement).
IInv == TypeOK /\ \A g \in Goals : GoalAgrees(g)

SameTokens(g) == Held(g)' = Held(g) /\ Spent(g)' = Spent(g)

\* What the rewrite of one item row does to the token sets.
LEMMA OneRow ==
    ASSUME TypeOK, NEW g \in Goals, NEW t \in Tasks, NEW row \in ItemRow,
           item' = [item EXCEPT ![g][t] = row]
    PROVE  /\ \A h \in Goals \ {g} : SameTokens(h)
           /\ Held(g)' = IF row.state = "reserved"
                         THEN Held(g) \cup {t} ELSE Held(g) \ {t}
           /\ Spent(g)' = IF row.state = "confirmed" /\ row.counts
                          THEN Spent(g) \cup {t} ELSE Spent(g) \ {t}
<1>1. ASSUME NEW h \in Goals \ {g} PROVE item'[h] = item[h]
  BY DEF TypeOK
<1>2. item'[g][t] = row
  BY DEF TypeOK
<1>3. ASSUME NEW s \in Tasks \ {t} PROVE item'[g][s] = item[g][s]
  BY DEF TypeOK
<1>. QED  BY <1>1, <1>2, <1>3 DEF SameTokens, Held, Spent

\* A goal whose row and tokens a step leaves alone still agrees.
LEMMA Untouched ==
    ASSUME NEW g \in Goals, GoalAgrees(g), SameTokens(g),
           goal'[g].target = goal[g].target,
           goal'[g].reserved = goal[g].reserved,
           goal'[g].confirmed = goal[g].confirmed,
           goal'[g].status \in {"target_reached", "absent"} =>
               goal'[g].status = goal[g].status
    PROVE  GoalAgrees(g)'
  BY DEF GoalAgrees, SameTokens, Exists

\* observe moves no token.
LEMMA ObserveTokens ==
    ASSUME TypeOK, NEW g \in Goals, NEW t \in Tasks, NEW state \in ItemState,
           NEW band \in AllBands, NEW reviewable \in BOOLEAN,
           Observe(g, t, state, band, reviewable)
    PROVE  \A h \in Goals : SameTokens(h)
<1> DEFINE old == item[g][t]
           row == [old EXCEPT
                     !.state = MergedState(old.state, state),
                     !.band = IF old.state = "absent" THEN band
                              ELSE MergedBand(old.band, band),
                     !.reviewable = reviewable /\ MergedState(old.state, state)
                                                    = "human_handoff"]
<1>1. old \in ItemRow
  BY DEF TypeOK
<1>2. row \in ItemRow
  BY <1>1 DEF ItemRow, MergedState, MergedBand
<1>3. item' = [item EXCEPT ![g][t] = row]
  BY DEF Observe
<1>4. /\ row.state = "reserved" <=> old.state = "reserved"
      /\ row.state = "confirmed" <=> old.state = "confirmed"
      /\ row.counts = old.counts
  BY <1>1 DEF ItemRow, MergedState, TokenState, Observe
<1>. HIDE DEF row
<1>5. SameTokens(g)
  BY <1>2, <1>3, <1>4, OneRow DEF SameTokens, Held, Spent
<1>. QED  BY <1>2, <1>3, <1>5, OneRow

\* reserve hands a token to an item that has none, within the target.
LEMMA ReserveTokens ==
    ASSUME TypeOK, NEW g \in Goals, NEW t \in Tasks, Reserve(g, t)
    PROVE  /\ \A h \in Goals \ {g} : SameTokens(h)
           /\ t \notin Held(g) \cup Spent(g)
           /\ Held(g)' = Held(g) \cup {t}
           /\ Spent(g)' = Spent(g)
<1> DEFINE row == [item[g][t] EXCEPT !.state = "reserved", !.reviewable = FALSE]
<1>1. item[g][t] \in ItemRow
  BY DEF TypeOK
<1>2. row \in ItemRow /\ row.state = "reserved"
  BY <1>1 DEF ItemRow, ItemState, TokenState
<1>3. item' = [item EXCEPT ![g][t] = row]
  BY DEF Reserve
<1>4. t \notin Held(g) \cup Spent(g)
  BY DEF Reserve, Held, Spent, TokenState
<1>. HIDE DEF row
<1>6. /\ \A h \in Goals \ {g} : SameTokens(h)
      /\ Held(g)' = IF row.state = "reserved"
                    THEN Held(g) \cup {t} ELSE Held(g) \ {t}
      /\ Spent(g)' = IF row.state = "confirmed" /\ row.counts
                     THEN Spent(g) \cup {t} ELSE Spent(g) \ {t}
  BY <1>2, <1>3, OneRow
<1>. QED  BY <1>2, <1>4, <1>6

\* confirm spends a token, or for an item of unknown salary only gives back
\* the one it held.
LEMMA ConfirmTokens ==
    ASSUME TypeOK, NEW g \in Goals, NEW t \in Tasks, Confirm(g, t)
    PROVE  /\ \A h \in Goals \ {g} : SameTokens(h)
           /\ t \notin Spent(g)
           /\ t \in Held(g) <=> item[g][t].state = "reserved"
           /\ Held(g)' = Held(g) \ {t}
           /\ Spent(g)' = IF Counts(g, t) THEN Spent(g) \cup {t} ELSE Spent(g)
<1> DEFINE row == [item[g][t] EXCEPT !.state = "confirmed",
                                     !.counts = Counts(g, t),
                                     !.reviewable = FALSE]
<1>1. item[g][t] \in ItemRow
  BY DEF TypeOK
<1>2. row \in ItemRow /\ row.state = "confirmed" /\ row.counts = Counts(g, t)
  BY <1>1 DEF ItemRow, ItemState, TokenState, Counts
<1>3. item' = [item EXCEPT ![g][t] = row]
  BY DEF Confirm
<1>4. t \notin Spent(g)
  BY DEF Confirm, Spent
<1>5. t \in Held(g) <=> item[g][t].state = "reserved"
  BY DEF Held
<1>. HIDE DEF row
<1>6. /\ \A h \in Goals \ {g} : SameTokens(h)
      /\ Held(g)' = IF row.state = "reserved"
                    THEN Held(g) \cup {t} ELSE Held(g) \ {t}
      /\ Spent(g)' = IF row.state = "confirmed" /\ row.counts
                     THEN Spent(g) \cup {t} ELSE Spent(g) \ {t}
  BY <1>2, <1>3, OneRow
<1>. QED  BY <1>2, <1>4, <1>5, <1>6

\* release takes the token an item holds, and never one it has spent.
LEMMA ReleaseTokens ==
    ASSUME TypeOK, NEW g \in Goals, NEW t \in Tasks, NEW state \in ItemState,
           Release(g, t, state)
    PROVE  /\ \A h \in Goals \ {g} : SameTokens(h)
           /\ t \in Held(g) <=> item[g][t].state = "reserved"
           /\ Held(g)' = Held(g) \ {t}
           /\ Spent(g)' = Spent(g)
<1> DEFINE row == [item[g][t] EXCEPT !.state = state, !.counts = FALSE,
                                     !.reviewable = FALSE]
<1>1. item[g][t] \in ItemRow
  BY DEF TypeOK
<1>2. row \in ItemRow /\ row.state = state /\ ~row.counts
  BY <1>1 DEF ItemRow
<1>3. item' = [item EXCEPT ![g][t] = row]
  BY DEF Release
<1>4. t \notin Spent(g) /\ state # "reserved"
  BY DEF Release, Releasable, Spent
<1>5. t \in Held(g) <=> item[g][t].state = "reserved"
  BY DEF Held
<1>. HIDE DEF row
<1>6. /\ \A h \in Goals \ {g} : SameTokens(h)
      /\ Held(g)' = IF row.state = "reserved"
                    THEN Held(g) \cup {t} ELSE Held(g) \ {t}
      /\ Spent(g)' = IF row.state = "confirmed" /\ row.counts
                     THEN Spent(g) \cup {t} ELSE Spent(g) \ {t}
  BY <1>2, <1>3, OneRow
<1>. QED  BY <1>2, <1>4, <1>5, <1>6

\* approve_human_review moves no token.
LEMMA ApproveTokens ==
    ASSUME TypeOK, NEW g \in Goals, NEW t \in Tasks, ApproveHumanReview(g, t)
    PROVE  \A h \in Goals : SameTokens(h)
<1> DEFINE row == [item[g][t] EXCEPT !.state = "observed",
                                     !.reviewable = FALSE, !.approved = TRUE]
<1>1. item[g][t] \in ItemRow
  BY DEF TypeOK
<1>2. row \in ItemRow /\ row.state = "observed"
  BY <1>1 DEF ItemRow, ItemState
<1>3. item' = [item EXCEPT ![g][t] = row]
  BY DEF ApproveHumanReview
<1>4. t \notin Held(g) /\ t \notin Spent(g)
  BY DEF ApproveHumanReview, Held, Spent
<1>. HIDE DEF row
<1>6. /\ \A h \in Goals \ {g} : SameTokens(h)
      /\ Held(g)' = IF row.state = "reserved"
                    THEN Held(g) \cup {t} ELSE Held(g) \ {t}
      /\ Spent(g)' = IF row.state = "confirmed" /\ row.counts
                     THEN Spent(g) \cup {t} ELSE Spent(g) \ {t}
  BY <1>2, <1>3, OneRow
<1>. QED  BY <1>2, <1>4, <1>6 DEF SameTokens

-----------------------------------------------------------------------------
\* The invariant

LEMMA InitIInv == Init => IInv
<1> SUFFICES ASSUME Init PROVE IInv
  OBVIOUS
<1>1. TypeOK
  BY InitTypeOK
<1>2. ASSUME NEW g \in Goals PROVE Held(g) = {} /\ Spent(g) = {}
  BY DEF Init, NoItem, Held, Spent
<1>3. ASSUME NEW g \in Goals PROVE GoalAgrees(g)
  <2>1. goal[g] = NoGoal
    BY DEF Init
  <2>2. /\ goal[g].reserved = 0 /\ goal[g].confirmed = 0 /\ goal[g].target = 0
        /\ goal[g].status = "absent"
    BY <2>1 DEF NoGoal
  <2>3. Cardinality(Held(g)) = 0 /\ Cardinality(Spent(g)) = 0
    BY <1>2, FS_EmptySet
  <2>. QED  BY <2>2, <2>3 DEF GoalAgrees
<1>. QED  BY <1>1, <1>3 DEF IInv

LEMMA CreateAgrees ==
    ASSUME IInv, NEW g \in Goals, NEW plan \in Plans, Create(g, plan)
    PROVE  \A h \in Goals : GoalAgrees(h)'
<1> SUFFICES ASSUME NEW h \in Goals PROVE GoalAgrees(h)'
  OBVIOUS
<1>1. SameTokens(h)
  BY DEF Create, SameTokens, Held, Spent
<1>2. CASE h # g
  <2>1. /\ goal'[h].target = goal[h].target
        /\ goal'[h].reserved = goal[h].reserved
        /\ goal'[h].confirmed = goal[h].confirmed
        /\ goal'[h].status \in {"target_reached", "absent"} =>
               goal'[h].status = goal[h].status
    BY <1>2 DEF Create, IInv, TypeOK, GoalRow, OpenStatus
  <2>. QED  BY <1>1, <2>1, Untouched DEF IInv
<1>3. CASE h = g
  <2>1. goal[g].reserved = 0 /\ goal[g].confirmed = 0
    BY DEF Create, IInv, TypeOK, GoalRow, GoalAgrees
  <2>2. goal'[g] = [target |-> plan.target, quota |-> plan.quota,
                    confirmed |-> 0, reserved |-> 0, status |-> "active"]
    BY DEF Create, NoGoal
  <2>3. plan.target \in Nat
    BY GoalsAssumption DEF GoalsAssumption
  <2>. QED
    BY <1>1, <1>3, <2>1, <2>2, <2>3 DEF IInv, GoalAgrees, SameTokens, Exists
<1>. QED  BY <1>2, <1>3

LEMMA SetStatusAgrees ==
    ASSUME IInv, NEW g \in Goals, NEW status \in Status, SetStatus(g, status)
    PROVE  \A h \in Goals : GoalAgrees(h)'
<1> SUFFICES ASSUME NEW h \in Goals PROVE GoalAgrees(h)'
  OBVIOUS
<1>1. SameTokens(h)
  BY DEF SetStatus, SameTokens, Held, Spent
<1>2. /\ goal'[h].target = goal[h].target
      /\ goal'[h].reserved = goal[h].reserved
      /\ goal'[h].confirmed = goal[h].confirmed
      /\ goal'[h].status \in {"target_reached", "absent"} =>
             goal'[h].status = goal[h].status
  BY DEF SetStatus, IInv, TypeOK, GoalRow, OpenStatus
<1>. QED  BY <1>1, <1>2, Untouched DEF IInv

\* A step on goal g that leaves the other rows and tokens alone only has to
\* keep goal g in agreement.
LEMMA OneGoal ==
    ASSUME IInv, NEW g \in Goals, NEW row,
           goal' = [goal EXCEPT ![g] = row],
           \A h \in Goals \ {g} : SameTokens(h),
           GoalAgrees(g)'
    PROVE  \A h \in Goals : GoalAgrees(h)'
<1> SUFFICES ASSUME NEW h \in Goals \ {g} PROVE GoalAgrees(h)'
  OBVIOUS
<1>1. goal'[h] = goal[h]
  BY DEF IInv, TypeOK
<1>. QED  BY <1>1, Untouched DEF IInv

LEMMA ReserveAgrees ==
    ASSUME IInv, NEW g \in Goals, NEW t \in Tasks, Reserve(g, t)
    PROVE  \A h \in Goals : GoalAgrees(h)'
<1> DEFINE row == [goal[g] EXCEPT !.reserved = @ + 1]
<1>1. goal' = [goal EXCEPT ![g] = row]
  BY DEF Reserve
<1>2. Cardinality(Held(g)') = Cardinality(Held(g)) + 1
  <2>1. Held(g)' = Held(g) \cup {t} /\ t \notin Held(g)
    BY ReserveTokens DEF IInv
  <2>2. Cardinality(Held(g) \cup {t}) = Cardinality(Held(g)) + 1
    BY <2>1, TokenSets, FS_AddElement
  <2>. QED  BY <2>1, <2>2
<1>3. /\ goal[g].confirmed + goal[g].reserved < goal[g].target
      /\ goal[g].status # "target_reached" /\ Exists(g)
  BY DEF Reserve, CanReserve, HasFreeToken, Known
<1>4. goal[g] \in GoalRow /\ goal'[g] = row
  BY <1>1 DEF IInv, TypeOK
<1>5. Spent(g)' = Spent(g)
  BY ReserveTokens DEF IInv
<1>6. GoalAgrees(g)'
  BY <1>2, <1>3, <1>4, <1>5, TokenSets DEF IInv, GoalAgrees, GoalRow, Exists
<1>. QED  BY <1>1, <1>6, ReserveTokens, OneGoal DEF IInv

LEMMA ConfirmAgrees ==
    ASSUME IInv, NEW g \in Goals, NEW t \in Tasks, Confirm(g, t)
    PROVE  \A h \in Goals : GoalAgrees(h)'
<1> DEFINE held == item[g][t].state = "reserved"
           counted == [goal[g] EXCEPT !.confirmed = @ + Bit(Counts(g, t)),
                                      !.reserved = MinusToZero(@, held)]
           row == [counted EXCEPT !.status = StatusAfterConfirm(counted)]
<1>1. goal' = [goal EXCEPT ![g] = row]
  BY DEF Confirm
<1>2. goal[g] \in GoalRow /\ goal'[g] = row /\ Exists(g)
  BY <1>1 DEF IInv, TypeOK, Confirm, Known
<1>3. Cardinality(Held(g)') = IF held THEN Cardinality(Held(g)) - 1
                              ELSE Cardinality(Held(g))
  <2>1. Held(g)' = Held(g) \ {t} /\ (t \in Held(g) <=> held)
    BY ConfirmTokens DEF IInv
  <2>2. Cardinality(Held(g) \ {t}) = IF t \in Held(g)
                                     THEN Cardinality(Held(g)) - 1
                                     ELSE Cardinality(Held(g))
    BY TokenSets, FS_RemoveElement
  <2>. QED  BY <2>1, <2>2
<1>4. Cardinality(Spent(g)') = Cardinality(Spent(g)) + Bit(Counts(g, t))
  <2>1. /\ t \notin Spent(g)
        /\ Spent(g)' = IF Counts(g, t) THEN Spent(g) \cup {t} ELSE Spent(g)
    BY ConfirmTokens DEF IInv
  <2>2. Cardinality(Spent(g) \cup {t}) = Cardinality(Spent(g)) + 1
    BY <2>1, TokenSets, FS_AddElement
  <2>3. Cardinality(Spent(g)) + 0 = Cardinality(Spent(g))
    <3>1. Cardinality(Spent(g)) \in Nat
      BY TokenSets
    <3>. QED  BY <3>1
  <2>4. CASE Counts(g, t)
    <3>1. Spent(g)' = Spent(g) \cup {t}
      BY <2>1, <2>4
    <3>2. Bit(Counts(g, t)) = 1
      BY <2>4 DEF Bit
    <3>. QED  BY <2>2, <3>1, <3>2
  <2>5. CASE ~Counts(g, t)
    BY <2>1, <2>3, <2>5 DEF Bit
  <2>. QED  BY <2>4, <2>5
<1>5. Cardinality(Held(g)) \in Nat /\ Cardinality(Held(g)') \in Nat
  <2>1. Held(g)' = Held(g) \ {t} /\ IsFiniteSet(Held(g))
    BY ConfirmTokens, TokenSets DEF IInv
  <2>2. Cardinality(Held(g) \ {t}) \in Nat
    BY <2>1, FS_RemoveElement, FS_CardinalityType
  <2>. QED  BY <2>1, <2>2, TokenSets
<1>6. row.reserved = Cardinality(Held(g)')
  <2>1. goal[g].reserved = Cardinality(Held(g)) /\ goal[g].reserved \in Nat
    BY <1>2 DEF IInv, GoalAgrees, GoalRow
  <2>2. row.reserved = MinusToZero(goal[g].reserved, held)
    BY <1>2 DEF GoalRow
  <2>. QED  BY <1>3, <1>5, <2>1, <2>2 DEF MinusToZero
<1>7. row.confirmed = Cardinality(Spent(g)')
  BY <1>2, <1>4 DEF IInv, GoalAgrees, GoalRow
<1>8. row.reserved + row.confirmed <= goal[g].target
  <2>1. Counts(g, t) => held \/ goal[g].confirmed + goal[g].reserved < goal[g].target
    BY DEF Confirm, CanConfirm, ConfirmKeepsCheck, HasFreeToken
  <2>2. goal[g].reserved + goal[g].confirmed <= goal[g].target
    BY DEF IInv, GoalAgrees
  <2>3. row.reserved = IF held THEN goal[g].reserved - 1 ELSE goal[g].reserved
    BY <1>3, <1>6 DEF IInv, GoalAgrees
  <2>4. row.confirmed = goal[g].confirmed + Bit(Counts(g, t))
    BY <1>2 DEF GoalRow
  <2>. QED  BY <1>2, <2>1, <2>2, <2>3, <2>4 DEF Bit, GoalRow
<1>9. row.status = "target_reached" => row.confirmed = goal[g].target
  <2>1. row.status = StatusAfterConfirm(counted)
    BY <1>2 DEF GoalRow
  <2>2. row.confirmed = counted.confirmed /\ counted.target = goal[g].target
    BY <1>2 DEF GoalRow
  <2>3. row.confirmed \in Nat /\ row.reserved \in Nat
    BY <1>5, <1>6, <1>7, <1>2, <1>4, CounterArithmetic DEF GoalRow, Counts
  <2>. QED  BY <1>2, <1>8, <2>1, <2>2, <2>3 DEF StatusAfterConfirm, GoalRow
<1>10. row.target = goal[g].target /\ row.status # "absent"
  BY <1>2 DEF GoalRow, StatusAfterConfirm
<1>. HIDE DEF row
<1>11. GoalAgrees(g)'
  BY <1>2, <1>6, <1>7, <1>8, <1>9, <1>10 DEF GoalAgrees, Exists
<1>. QED  BY <1>1, <1>11, ConfirmTokens, OneGoal DEF IInv

LEMMA ReleaseAgrees ==
    ASSUME IInv, NEW g \in Goals, NEW t \in Tasks, NEW state \in ItemState,
           Release(g, t, state)
    PROVE  \A h \in Goals : GoalAgrees(h)'
<1> DEFINE held == item[g][t].state = "reserved"
           row == [goal[g] EXCEPT
                     !.reserved = MinusToZero(goal[g].reserved, held),
                     !.status = IF goal[g].status = "target_reached"
                                THEN goal[g].status ELSE "active"]
<1>1. goal' = [goal EXCEPT ![g] = row]
  BY DEF Release
<1>2. goal[g] \in GoalRow /\ goal'[g] = row /\ Exists(g)
  BY <1>1 DEF IInv, TypeOK, Release, Releasable, Known
<1>3. Cardinality(Held(g)') = IF held THEN Cardinality(Held(g)) - 1
                              ELSE Cardinality(Held(g))
  <2>1. Held(g)' = Held(g) \ {t} /\ (t \in Held(g) <=> held)
    BY ReleaseTokens DEF IInv
  <2>2. Cardinality(Held(g) \ {t}) = IF t \in Held(g)
                                     THEN Cardinality(Held(g)) - 1
                                     ELSE Cardinality(Held(g))
    BY TokenSets, FS_RemoveElement
  <2>. QED  BY <2>1, <2>2
<1>4. Spent(g)' = Spent(g)
  BY ReleaseTokens DEF IInv
<1>5. Cardinality(Held(g)) \in Nat /\ Cardinality(Held(g)') \in Nat
  <2>1. Held(g)' = Held(g) \ {t} /\ IsFiniteSet(Held(g))
    BY ReleaseTokens, TokenSets DEF IInv
  <2>2. Cardinality(Held(g) \ {t}) \in Nat
    BY <2>1, FS_RemoveElement, FS_CardinalityType
  <2>. QED  BY <2>1, <2>2, TokenSets
<1>6. goal[g].reserved = Cardinality(Held(g)) /\ goal[g].reserved \in Nat
  BY <1>2 DEF IInv, GoalAgrees, GoalRow
<1>7. row.reserved = Cardinality(Held(g)') /\ row.reserved <= goal[g].reserved
  <2>1. row.reserved = MinusToZero(goal[g].reserved, held)
    BY <1>2 DEF GoalRow
  <2>. QED  BY <1>3, <1>5, <1>6, <2>1 DEF MinusToZero
<1>8. /\ row.confirmed = goal[g].confirmed
      /\ row.target = goal[g].target
      /\ row.status = "target_reached" => goal[g].status = "target_reached"
      /\ row.status # "absent"
  BY <1>2 DEF GoalRow
<1>. HIDE DEF row
<1>9. GoalAgrees(g)'
  BY <1>2, <1>4, <1>5, <1>6, <1>7, <1>8 DEF IInv, GoalAgrees, Exists, GoalRow
<1>. QED  BY <1>1, <1>9, ReleaseTokens, OneGoal DEF IInv

\* A step that leaves the goal table and every token alone keeps agreement.
LEMMA NoTokenMoves ==
    ASSUME IInv, UNCHANGED goal, \A h \in Goals : SameTokens(h)
    PROVE  \A h \in Goals : GoalAgrees(h)'
  BY Untouched DEF IInv

LEMMA NextIInv == IInv /\ [Next]_vars => IInv'
<1> SUFFICES ASSUME IInv, [Next]_vars PROVE \A h \in Goals : GoalAgrees(h)'
  BY NextTypeOK DEF IInv
<1>1. CASE UNCHANGED vars
  BY <1>1, NoTokenMoves DEF vars, SameTokens, Held, Spent
<1>2. ASSUME NEW g \in Goals, NEW t \in Tasks, NEW state \in ItemState,
             NEW band \in AllBands, NEW reviewable \in BOOLEAN,
             Observe(g, t, state, band, reviewable)
      PROVE  \A h \in Goals : GoalAgrees(h)'
  BY <1>2, ObserveTokens, NoTokenMoves DEF IInv, Observe
<1>3. ASSUME NEW g \in Goals, NEW t \in Tasks, ApproveHumanReview(g, t)
      PROVE  \A h \in Goals : GoalAgrees(h)'
  BY <1>3, ApproveTokens, NoTokenMoves DEF IInv, ApproveHumanReview
<1>. QED
  BY <1>1, <1>2, <1>3, CreateAgrees, SetStatusAgrees, ReserveAgrees,
     ConfirmAgrees, ReleaseAgrees DEF Next

LEMMA Invariance == Spec => []IInv
<1>. QED  BY InitIInv, NextIInv, PTL DEF Spec

-----------------------------------------------------------------------------
\* What the invariant and the steps establish

LEMMA InvariantSuffices ==
    IInv => CountersMatchItems /\ TokensWithinTarget /\ TargetReachedIsTrue
<1>1. ASSUME IInv, NEW g \in Goals
      PROVE  Cardinality(Held(g) \cup Spent(g)) <= goal[g].target
  BY <1>1, TokenSets DEF IInv, GoalAgrees
<1>2. IInv => TokensWithinTarget
  BY <1>1 DEF TokensWithinTarget
<1>3. IInv => CountersMatchItems /\ TargetReachedIsTrue
  BY DEF IInv, GoalAgrees, CountersMatchItems, TargetReachedIsTrue
<1>. QED  BY <1>2, <1>3

\* The counters a goal row carries are the numbers of its items that hold and
\* that have spent a token, after any sequence of operations.
THEOREM CountersCorrect == Spec => []CountersMatchItems
<1>. QED  BY InvariantSuffices, Invariance, PTL

\* Reserved and confirmed items never outnumber the goal's target.
THEOREM TargetRespected == Spec => []TokensWithinTarget
<1>. QED  BY InvariantSuffices, Invariance, PTL

\* The status target_reached is true of the items whenever it is shown.
THEOREM TargetReachedCorrect == Spec => []TargetReachedIsTrue
<1>. QED  BY InvariantSuffices, Invariance, PTL

\* The instance brings its own copy of the standard operator.
LEMMA SameCardinality ==
    ASSUME NEW S PROVE Tokens!Cardinality(S) = Cardinality(S)
  BY DEF Tokens!Cardinality, Cardinality

\* Every step of the ledger is a step of the token contract, or moves nothing.
LEMMA StepIsTokenStep == IInv /\ [Next]_vars => [Tokens!Next]_Tokens!vars
<1> SUFFICES ASSUME IInv, [Next]_vars PROVE [Tokens!Next]_Tokens!vars
  OBVIOUS
<1>1. ASSUME \A h \in Goals : SameTokens(h),
             \A h \in Goals : goal'[h].target = goal[h].target
      PROVE  UNCHANGED Tokens!vars
  BY <1>1 DEF Tokens!vars, SameTokens, SizeOf, HeldBy, SpentBy
<1>2. CASE UNCHANGED vars
  BY <1>1, <1>2 DEF vars, SameTokens, Held, Spent
<1>3. ASSUME NEW g \in Goals, NEW plan \in Plans, Create(g, plan)
      PROVE  Tokens!Next
  <2>1. plan.target \in {p.target : p \in Plans}
    OBVIOUS
  <2>2. SizeOf[g] = 0
    BY <1>3 DEF IInv, GoalAgrees, Create, SizeOf
  <2>3. SizeOf' = [SizeOf EXCEPT ![g] = plan.target]
    <3>1. ASSUME NEW h \in Goals
          PROVE  goal'[h].target = IF h = g THEN plan.target
                                   ELSE goal[h].target
      BY <1>3 DEF Create, NoGoal, IInv, TypeOK, GoalRow
    <3>. QED  BY <3>1 DEF SizeOf
  <2>4. UNCHANGED <<HeldBy, SpentBy>>
    BY <1>3 DEF Create, Held, Spent, HeldBy, SpentBy
  <2>5. Tokens!Open(g, plan.target)
    BY <2>2, <2>3, <2>4 DEF Tokens!Open
  <2>. QED  BY <2>1, <2>5 DEF Tokens!Next
<1>4. ASSUME NEW g \in Goals, NEW status \in Status, SetStatus(g, status)
      PROVE  UNCHANGED Tokens!vars
  BY <1>1, <1>4 DEF SetStatus, SameTokens, Held, Spent, IInv, TypeOK, GoalRow
<1>5. ASSUME NEW g \in Goals, NEW t \in Tasks, NEW state \in ItemState,
             NEW band \in AllBands, NEW reviewable \in BOOLEAN,
             Observe(g, t, state, band, reviewable)
      PROVE  UNCHANGED Tokens!vars
  BY <1>1, <1>5, ObserveTokens DEF Observe, IInv
<1>6. ASSUME NEW g \in Goals, NEW t \in Tasks, Reserve(g, t)
      PROVE  Tokens!Next
  <2>1. UNCHANGED SizeOf
    BY <1>6 DEF Reserve, IInv, TypeOK, GoalRow, SizeOf
  <2>2. HeldBy' = [HeldBy EXCEPT ![g] = @ \cup {t}] /\ UNCHANGED SpentBy
    BY <1>6, ReserveTokens DEF IInv, SameTokens, HeldBy, SpentBy
  <2>3. Cardinality(HeldBy[g] \cup SpentBy[g]) < SizeOf[g]
    <3>1. goal[g].confirmed + goal[g].reserved < goal[g].target
      BY <1>6 DEF Reserve, CanReserve, HasFreeToken
    <3>. QED  BY <3>1, TokenSets
           DEF IInv, GoalAgrees, HeldBy, SpentBy, SizeOf
  <2>4. t \notin HeldBy[g] \cup SpentBy[g]
    BY <1>6, ReserveTokens DEF IInv, HeldBy, SpentBy
  <2>5. Tokens!Hold(g, t)
    BY <2>1, <2>2, <2>3, <2>4, SameCardinality DEF Tokens!Hold
  <2>. QED  BY <2>5 DEF Tokens!Next
<1>7. ASSUME NEW g \in Goals, NEW t \in Tasks, Confirm(g, t)
      PROVE  [Tokens!Next]_Tokens!vars
  <2>1. UNCHANGED SizeOf
    BY <1>7 DEF Confirm, IInv, TypeOK, GoalRow, SizeOf
  <2>2. HeldBy' = [HeldBy EXCEPT ![g] = @ \ {t}]
    BY <1>7, ConfirmTokens DEF IInv, SameTokens, HeldBy, SpentBy
  <2>3. CASE Counts(g, t)
    <3>1. SpentBy' = [SpentBy EXCEPT ![g] = @ \cup {t}] /\ t \notin SpentBy[g]
      BY <1>7, <2>3, ConfirmTokens DEF IInv, SameTokens, HeldBy, SpentBy
    <3>2. t \in HeldBy[g] \/ Cardinality(HeldBy[g] \cup SpentBy[g]) < SizeOf[g]
      <4>1. \/ t \in Held(g)
            \/ goal[g].confirmed + goal[g].reserved < goal[g].target
        BY <1>7, <2>3
        DEF Confirm, CanConfirm, ConfirmKeepsCheck, HasFreeToken, Held
      <4>. QED  BY <4>1, TokenSets
           DEF IInv, GoalAgrees, HeldBy, SpentBy, SizeOf
    <3>3. Tokens!Spend(g, t)
      BY <2>1, <2>2, <3>1, <3>2, SameCardinality DEF Tokens!Spend
    <3>. QED  BY <3>3 DEF Tokens!Next
  <2>4. CASE ~Counts(g, t) /\ t \in Held(g)
    <3>1. UNCHANGED SpentBy
      BY <1>7, <2>4, ConfirmTokens DEF IInv, SameTokens, HeldBy, SpentBy
    <3>2. Tokens!Return(g, t)
      BY <2>1, <2>2, <2>4, <3>1 DEF Tokens!Return, HeldBy
    <3>. QED  BY <3>2 DEF Tokens!Next
  <2>5. CASE ~Counts(g, t) /\ t \notin Held(g)
    <3>1. ASSUME NEW h \in Goals PROVE SameTokens(h)
      BY <1>7, <2>5, ConfirmTokens DEF IInv, SameTokens
    <3>2. UNCHANGED SpentBy /\ UNCHANGED HeldBy
      BY <3>1 DEF SameTokens, HeldBy, SpentBy
    <3>. QED  BY <2>1, <3>2 DEF Tokens!vars
  <2>. QED  BY <2>3, <2>4, <2>5
<1>8. ASSUME NEW g \in Goals, NEW t \in Tasks, NEW state \in ItemState,
             Release(g, t, state)
      PROVE  [Tokens!Next]_Tokens!vars
  <2>1. UNCHANGED SizeOf
    BY <1>8 DEF Release, IInv, TypeOK, GoalRow, SizeOf
  <2>2. HeldBy' = [HeldBy EXCEPT ![g] = @ \ {t}] /\ UNCHANGED SpentBy
    BY <1>8, ReleaseTokens DEF IInv, SameTokens, HeldBy, SpentBy
  <2>3. CASE t \in Held(g)
    <3>1. Tokens!Return(g, t)
      BY <2>1, <2>2, <2>3 DEF Tokens!Return, HeldBy
    <3>. QED  BY <3>1 DEF Tokens!Next
  <2>4. CASE t \notin Held(g)
    <3>1. UNCHANGED HeldBy
      BY <2>2, <2>4 DEF HeldBy
    <3>. QED  BY <2>1, <2>2, <3>1 DEF Tokens!vars
  <2>. QED  BY <2>3, <2>4
<1>9. ASSUME NEW g \in Goals, NEW t \in Tasks, ApproveHumanReview(g, t)
      PROVE  UNCHANGED Tokens!vars
  BY <1>1, <1>9, ApproveTokens DEF ApproveHumanReview, IInv
<1>. QED
  BY <1>2, <1>3, <1>4, <1>5, <1>6, <1>7, <1>8, <1>9 DEF Next

\* The ledger implements the token contract.
THEOREM ImplementsTokenContract == Spec => TokenContract
<1>1. Init => Tokens!Init
  BY DEF Init, Tokens!Init, NoGoal, NoItem, Held, Spent,
         SizeOf, HeldBy, SpentBy
<1>. QED
  BY <1>1, StepIsTokenStep, Invariance, PTL
  DEF Spec, TokenContract, Tokens!Spec

\* A step of the ledger never gives a spent token back.
THEOREM ConfirmationNeverUndone == Spec => ConfirmationPermanent
<1>1. ASSUME IInv, [Next]_vars, NEW g \in Goals
      PROVE  Spent(g) \subseteq Spent(g)'
  <2>1. CASE UNCHANGED vars
    BY <2>1 DEF vars, Spent
  <2>2. ASSUME NEW h \in Goals, NEW plan \in Plans, Create(h, plan)
        PROVE  Spent(g) \subseteq Spent(g)'
    BY <2>2 DEF Create, Spent
  <2>3. ASSUME NEW h \in Goals, NEW status \in Status, SetStatus(h, status)
        PROVE  Spent(g) \subseteq Spent(g)'
    BY <2>3 DEF SetStatus, Spent
  <2>4. ASSUME NEW h \in Goals, NEW t \in Tasks, Reserve(h, t)
        PROVE  Spent(g) \subseteq Spent(g)'
    BY <1>1, <2>4, ReserveTokens DEF IInv, SameTokens
  <2>5. ASSUME NEW h \in Goals, NEW t \in Tasks, Confirm(h, t)
        PROVE  Spent(g) \subseteq Spent(g)'
    BY <1>1, <2>5, ConfirmTokens DEF IInv, SameTokens
  <2>6. ASSUME NEW h \in Goals, NEW t \in Tasks, NEW state \in ItemState,
               Release(h, t, state)
        PROVE  Spent(g) \subseteq Spent(g)'
    BY <1>1, <2>6, ReleaseTokens DEF IInv, SameTokens
  <2>. QED
    BY <1>1, <2>1, <2>2, <2>3, <2>4, <2>5, <2>6, ObserveTokens, ApproveTokens
    DEF Next, IInv, SameTokens
<1>2. IInv /\ [Next]_vars =>
        [\A g \in Goals : Spent(g) \subseteq Spent(g)']_vars
  BY <1>1
<1>. QED  BY <1>2, Invariance, PTL DEF Spec, ConfirmationPermanent

=============================================================================
