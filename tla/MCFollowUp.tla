----------------------------- MODULE MCFollowUp -----------------------------
(* Values of FollowUp's constants for model checking.                      *)
EXTENDS FollowUp

CONSTANTS p1, w1, w2, i1, i2, o1, o2

OnePlan == {p1}
TwoWindows == {w1, w2}
SamePlan == [w \in TwoWindows |-> p1]
TwoInstances == {i1, i2}
TwoObservations == {o1, o2}

=============================================================================
