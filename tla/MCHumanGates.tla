---------------------------- MODULE MCHumanGates ----------------------------
EXTENDS HumanGates
CONSTANT q1

At(place) == [place |-> place, set |-> NoSet]
Asking(set) == [place |-> "questions", set |-> set]

\* An application with the resume, one questionnaire and the review, and one
\* with a page the module classifier does not know.
MCRoutes == {<<At("resume"), Asking(q1), At("review")>>, <<At("unknown")>>}
=============================================================================
