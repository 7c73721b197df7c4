--------------------------- MODULE MCFinalSubmit ---------------------------
(***************************************************************************)
(* Instances of FinalSubmit for TLC.                                       *)
(***************************************************************************)
EXTENDS FinalSubmit, TLC

CONSTANTS w1, w2, r1

TwoWorkers == {w1, w2}
WorkerSymmetry == Permutations(TwoWorkers)

\* "dev" and its expanded form "dev | remote".
TwoVariants == {{"dev", "dev | remote"}}
=============================================================================
