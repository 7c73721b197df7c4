---------------------------- MODULE MCJobFinder ----------------------------
(***************************************************************************)
(* Instances of JobFinder for TLC.                                         *)
(***************************************************************************)
EXTENDS JobFinder, TLC

CONSTANTS t1, t2, p1, p2, p3, h1, h2

\* A goal for one application in the only band.
OneToken == {[target |-> 1, quota |-> [b \in Bands |-> 1]]}

AllUnlisted == [t \in Tasks |-> Ledger!Unknown]
AllListed == [t \in Tasks |-> "below_20k"]
OneRoleForAll == [t \in Tasks |-> "acme dev"]
AllDifferent == [t \in Tasks |-> t]

ProcSymmetry == Permutations(Procs)
=============================================================================
