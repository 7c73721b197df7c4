------------------------- MODULE MCApplicationGoals -------------------------
(***************************************************************************)
(* Instances of ApplicationGoals for TLC.                                  *)
(***************************************************************************)
EXTENDS ApplicationGoals, TLC

CONSTANTS t1, t2

OneBand == {"below_20k"}

\* A goal of one token that two applications want, and goals of two in which
\* the quota of the classified band, or the target, is what fills up.
ContendedPlans ==
    {[target |-> n, quota |-> [b \in OneBand |-> q]] :
        <<n, q>> \in {<<1, 1>>, <<2, 1>>, <<2, 2>>}}

TaskSymmetry == Permutations(Tasks)
=============================================================================
