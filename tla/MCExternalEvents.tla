-------------------------- MODULE MCExternalEvents --------------------------
(***************************************************************************)
(* Instances of ExternalEvents for TLC.                                    *)
(***************************************************************************)
EXTENDS ExternalEvents

CONSTANTS o1, o2, o3

\* Two officers of the responsible departments and one of another.
Two == {o1, o2}
Three == {o1, o2, o3}
DeptOfThree == [o \in Three |-> CASE o = o1 -> "secretariat"
                                  [] o = o2 -> "external_relations"
                                  [] o = o3 -> "academics"]
DeptOfTwo == [o \in Two |-> DeptOfThree[o]]
=============================================================================
