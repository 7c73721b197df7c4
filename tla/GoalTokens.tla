----------------------------- MODULE GoalTokens -----------------------------
(***************************************************************************)
(* What the goal ledger promises, without its counters: a goal owns a      *)
(* number of tokens.  A task may hold one token (an application waiting at *)
(* its final review) or have spent one (an application the provider or the *)
(* owner confirmed).  A held token can be returned, a spent token never.   *)
(* This is the contract of "available, reserved at Review, confirmed" in   *)
(* src/legacy/python/resume_builder/job_application/README.md:102-104,     *)
(* which ApplicationGoals implements.                                      *)
(***************************************************************************)
EXTENDS Naturals, FiniteSets

CONSTANTS
    Owners,     \* the goals
    Holders,    \* the tasks that compete for a goal's tokens
    Sizes       \* how many tokens a goal may be given

VARIABLES
    size,       \* size[g]: how many tokens goal g owns, 0 before it exists
    held,       \* held[g]: the tasks that hold a token of g
    spent       \* spent[g]: the tasks that used one up

vars == <<size, held, spent>>

Init ==
    /\ size = [g \in Owners |-> 0]
    /\ held = [g \in Owners |-> {}]
    /\ spent = [g \in Owners |-> {}]

Open(g, n) ==
    /\ size[g] = 0
    /\ size' = [size EXCEPT ![g] = n]
    /\ UNCHANGED <<held, spent>>

Hold(g, t) ==
    /\ t \notin held[g] \cup spent[g]
    /\ Cardinality(held[g] \cup spent[g]) < size[g]
    /\ held' = [held EXCEPT ![g] = @ \cup {t}]
    /\ UNCHANGED <<size, spent>>

Return(g, t) ==
    /\ t \in held[g]
    /\ held' = [held EXCEPT ![g] = @ \ {t}]
    /\ UNCHANGED <<size, spent>>

\* A task spends the token it holds, or takes a free one and spends it at once.
Spend(g, t) ==
    /\ t \notin spent[g]
    /\ t \in held[g] \/ Cardinality(held[g] \cup spent[g]) < size[g]
    /\ held' = [held EXCEPT ![g] = @ \ {t}]
    /\ spent' = [spent EXCEPT ![g] = @ \cup {t}]
    /\ UNCHANGED size

Next ==
    \E g \in Owners :
        \/ \E n \in Sizes : Open(g, n)
        \/ \E t \in Holders : Hold(g, t) \/ Return(g, t) \/ Spend(g, t)

Spec == Init /\ [][Next]_vars
=============================================================================
