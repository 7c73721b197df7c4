-------------------------- MODULE ApplicationGoals --------------------------
(***************************************************************************)
(* The goal ledger of the job-application agent (goal_store.py): two       *)
(* SQLite tables, application_goals and application_goal_items, and one    *)
(* transaction per operation.  A goal asks for a number of confirmed       *)
(* applications; every application the agent meets is an item of the goal  *)
(* and moves between seven states.  The counters "confirmed" and           *)
(* "reserved" of the goal row are kept by the operations, beside the item  *)
(* rows they count, so their agreement is something to prove.              *)
(*                                                                         *)
(* Several processes share the database (control-center handler threads,   *)
(* the per-goal runner, its site adapter), so any operation may follow any *)
(* other.  An operation that raises rolls its transaction back and is a    *)
(* step that changes nothing: it has no action of its own.                 *)
(***************************************************************************)
EXTENDS Naturals, FiniteSets

CONSTANTS
    MaxGoals,   \* bound: how many goals are ever created
    Tasks,      \* task ids of the applications met
    Bands,      \* the classified salary bands, e.g. "below_20k"
    Plans       \* [target, quota] a goal may be created with

Unknown == "unknown"                \* SalaryBand.UNKNOWN
Legacy == "legacy_unclassified"     \* SalaryBand.LEGACY
AllBands == Bands \cup {Unknown, Legacy}

ASSUME GoalsAssumption ==
    /\ MaxGoals \in Nat
    /\ IsFiniteSet(Tasks)
    /\ {Unknown, Legacy} \cap Bands = {}
    /\ Plans \subseteq [target : Nat \ {0}, quota : [Bands -> Nat]]

Goals == 1..MaxGoals                \* in order of created_at

OpenStatus == {"active", "waiting_for_human", "waiting_for_candidates"}
Status == OpenStatus \cup {"target_reached", "cancelled"}

TokenState == {"reserved", "confirmed"}
ItemState == TokenState \cup
    {"observed", "released", "skipped", "failed", "human_handoff"}

VARIABLES
    goal,       \* goal[g]: the row of goal g, status "absent" before INSERT
    item        \* item[g][t]: the row of task t in goal g

vars == <<goal, item>>

NoGoal == [target |-> 0, quota |-> [b \in Bands |-> 0],
           confirmed |-> 0, reserved |-> 0, status |-> "absent"]

\* "reviewable" abstracts the detail text to what approve_human_review asks of
\* it: does it start with one of the two evidence-gap prefixes?
NoItem == [state |-> "absent", counts |-> FALSE, band |-> Unknown,
           reviewable |-> FALSE, approved |-> FALSE]

-----------------------------------------------------------------------------
\* State helpers

Exists(g) == goal[g].status # "absent"
Known(g, t) == Exists(g) /\ item[g][t].state # "absent"

Held(g) == {t \in Tasks : item[g][t].state = "reserved"}
Spent(g) == {t \in Tasks : item[g][t].state = "confirmed" /\ item[g][t].counts}

InBand(g, b, states) ==
    {t \in Tasks : item[g][t].band = b /\ item[g][t].state \in states}

Remaining(g) == goal[g].target - goal[g].confirmed
Available(g) ==
    IF goal[g].confirmed + goal[g].reserved >= goal[g].target THEN 0
    ELSE goal[g].target - goal[g].confirmed - goal[g].reserved

Bit(b) == IF b THEN 1 ELSE 0
MinusToZero(n, b) == IF b /\ n > 0 THEN n - 1 ELSE n

-----------------------------------------------------------------------------
\* Faulty variants: the forms some definitions below would take after a
\* plausible mistake.  The properties are tested against them.

ForgetsToken(old, new) == new
AtTarget(g) == goal[g].confirmed + goal[g].reserved <= goal[g].target
IgnoresCheck(g, t) == TRUE
ReachedWhenHeld(row) ==
    IF row.confirmed + row.reserved >= row.target
    THEN "target_reached" ELSE "active"
ItemStateAsStatus(row) ==
    IF row.confirmed >= row.target THEN "confirmed" ELSE "active"
AnyItem(g, t) == Known(g, t)

-----------------------------------------------------------------------------
\* Operations

Init ==
    /\ goal = [g \in Goals |-> NoGoal]
    /\ item = [g \in Goals |-> [t \in Tasks |-> NoItem]]

\* create: every open goal is cancelled in the transaction that inserts the
\* new one.
Create(g, plan) ==
    /\ ~Exists(g)
    /\ \A h \in 1..(g - 1) : Exists(h)
    /\ goal' = [h \in Goals |->
                  IF h = g
                  THEN [NoGoal EXCEPT !.target = plan.target,
                                      !.quota = plan.quota,
                                      !.status = "active"]
                  ELSE IF goal[h].status \in OpenStatus
                       THEN [goal[h] EXCEPT !.status = "cancelled"]
                       ELSE goal[h]]
    /\ UNCHANGED item

\* active: the newest open goal.
IsActiveGoal(g) ==
    /\ goal[g].status \in OpenStatus
    /\ \A h \in Goals : h > g => goal[h].status \notin OpenStatus

\* set_status writes without looking; "target_reached" is never passed to it.
SetStatus(g, status) ==
    /\ Exists(g)
    /\ status \in OpenStatus \cup {"cancelled"}
    /\ goal' = [goal EXCEPT ![g].status = status]
    /\ UNCHANGED item

\* The band an observation leaves: a classified band is only replaced by
\* another classified band.
MergedBand(old, new) ==
    IF new \in {Unknown, Legacy} /\ old \in Bands THEN old ELSE new

\* A refresh never moves an item out of a token state.
MergedState(old, new) == IF old \in TokenState THEN old ELSE new

\* observe: insert the item, or refresh it, leaving its counts flag alone.  The
\* evidence-gap flag is read in human_handoff only, and entering that state
\* rewrites it.
Observe(g, t, state, band, reviewable) ==
    /\ Exists(g)
    /\ state \in {"observed", "skipped", "failed", "human_handoff"}
    /\ LET old == item[g][t]
           merged == MergedState(old.state, state)
       IN item' = [item EXCEPT ![g][t] =
                     [old EXCEPT
                        !.state = merged,
                        !.band = IF old.state = "absent" THEN band
                                 ELSE MergedBand(old.band, band),
                        !.reviewable = reviewable /\ merged = "human_handoff"]]
    /\ UNCHANGED goal

\* reserve answers True and changes nothing for an item that already has a
\* token, and False when one of these is missing.
HasFreeToken(g) == goal[g].confirmed + goal[g].reserved < goal[g].target

CanReserve(g, t) ==
    /\ goal[g].status # "target_reached"
    /\ item[g][t].band # Unknown
    /\ HasFreeToken(g)
    /\ item[g][t].band # Legacy =>
         Cardinality(InBand(g, item[g][t].band, TokenState))
           < goal[g].quota[item[g][t].band]

Reserve(g, t) ==
    /\ Known(g, t)
    /\ item[g][t].state \notin TokenState
    /\ CanReserve(g, t)
    /\ item' = [item EXCEPT ![g][t] =
                  [@ EXCEPT !.state = "reserved", !.reviewable = FALSE]]
    /\ goal' = [goal EXCEPT ![g].reserved = @ + 1]

Counts(g, t) == item[g][t].band # Unknown

\* CHECK(confirmed + reserved <= target) aborts the transaction of confirm when
\* the tokens other items hold leave no room for one more.
ConfirmKeepsCheck(g, t) ==
    item[g][t].state = "reserved" \/ HasFreeToken(g)

\* confirm raises ValueError when the band or the goal is full.
CanConfirm(g, t) ==
    LET band == item[g][t].band
    IN Counts(g, t) =>
         /\ band # Legacy =>
              Cardinality(InBand(g, band, {"confirmed"})) < goal[g].quota[band]
         /\ goal[g].confirmed < goal[g].target
         /\ ConfirmKeepsCheck(g, t)

StatusAfterConfirm(row) ==
    IF row.confirmed >= row.target THEN "target_reached" ELSE "active"

Confirm(g, t) ==
    /\ Known(g, t)
    /\ item[g][t].state # "confirmed"
    /\ CanConfirm(g, t)
    /\ LET held == item[g][t].state = "reserved"
           row == [goal[g] EXCEPT !.confirmed = @ + Bit(Counts(g, t)),
                                  !.reserved = MinusToZero(@, held)]
       IN goal' = [goal EXCEPT ![g] =
                     [row EXCEPT !.status = StatusAfterConfirm(row)]]
    /\ item' = [item EXCEPT ![g][t] =
                  [@ EXCEPT !.state = "confirmed", !.counts = Counts(g, t),
                            !.reviewable = FALSE]]

\* release leaves a confirmed item as it is.
Releasable(g, t) == Known(g, t) /\ item[g][t].state # "confirmed"

Release(g, t, state) ==
    /\ Releasable(g, t)
    /\ state \in {"released", "skipped", "failed"}
    /\ LET row == goal[g]
           held == item[g][t].state = "reserved"
       IN goal' = [goal EXCEPT ![g] =
                     [row EXCEPT
                        !.reserved = MinusToZero(row.reserved, held),
                        !.status = IF row.status = "target_reached"
                                   THEN row.status ELSE "active"]]
    /\ item' = [item EXCEPT ![g][t] =
                  [@ EXCEPT !.state = state, !.counts = FALSE,
                            !.reviewable = FALSE]]

\* approve_human_review: only an evidence gap, never an access gate.
ApproveHumanReview(g, t) ==
    /\ Known(g, t)
    /\ item[g][t].state = "human_handoff"
    /\ item[g][t].reviewable
    /\ item' = [item EXCEPT ![g][t] =
                  [@ EXCEPT !.state = "observed", !.reviewable = FALSE,
                            !.approved = TRUE]]
    /\ UNCHANGED goal

Next ==
    \E g \in Goals :
        \/ \E plan \in Plans : Create(g, plan)
        \/ \E status \in Status : SetStatus(g, status)
        \/ \E t \in Tasks :
             \/ \E state \in ItemState, band \in AllBands,
                   reviewable \in BOOLEAN :
                     Observe(g, t, state, band, reviewable)
             \/ Reserve(g, t)
             \/ Confirm(g, t)
             \/ \E state \in ItemState : Release(g, t, state)
             \/ ApproveHumanReview(g, t)

Spec == Init /\ [][Next]_vars

-----------------------------------------------------------------------------
\* Properties

GoalRow == [target : Nat, quota : [Bands -> Nat], confirmed : Nat,
            reserved : Nat, status : Status \cup {"absent"}]
ItemRow == [state : ItemState \cup {"absent"}, counts : BOOLEAN,
            band : AllBands, reviewable : BOOLEAN, approved : BOOLEAN]

\* Every row has the columns and the ranges of the two tables.
TypeOK ==
    /\ goal \in [Goals -> GoalRow]
    /\ item \in [Goals -> [Tasks -> ItemRow]]

\* The counters of a goal row are exactly the number of item rows that hold
\* and that have spent a token, whatever sequence of observe, reserve, confirm
\* and release led here: no double decrement, no token leaked by a re-observed
\* or re-banded item.
CountersMatchItems ==
    \A g \in Goals :
        /\ goal[g].reserved = Cardinality(Held(g))
        /\ goal[g].confirmed = Cardinality(Spent(g))

\* Counting item rows, a goal never has more tokens out than its target.
TokensWithinTarget ==
    \A g \in Goals :
        Cardinality(Held(g) \cup Spent(g)) <= goal[g].target

\* A goal that reads target_reached has all its confirmations in its rows: the
\* status, which ends the runner, is never premature and never outlived.
TargetReachedIsTrue ==
    \A g \in Goals :
        goal[g].status = "target_reached" =>
            Cardinality(Spent(g)) = goal[g].target

\* "Confirmation is the only event that permanently reduces the remaining
\* target" (README.md:104): once spent, a token is never given back.
ConfirmationPermanent ==
    [][\A g \in Goals : Spent(g) \subseteq Spent(g)']_vars

\* The refinement mapping: what the ledger's rows mean as tokens.
SizeOf == [g \in Goals |-> goal[g].target]
HeldBy == [g \in Goals |-> Held(g)]
SpentBy == [g \in Goals |-> Spent(g)]

Tokens == INSTANCE GoalTokens WITH
    Owners <- Goals,
    Holders <- Tasks,
    Sizes <- {plan.target : plan \in Plans},
    size <- SizeOf,
    held <- HeldBy,
    spent <- SpentBy

\* The ledger implements the token contract.
TokenContract == Tokens!Spec
=============================================================================
