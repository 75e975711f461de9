-------------------------- MODULE MCConversationRun --------------------------
(* Small instances of ConversationRun for TLC.                             *)
EXTENDS ConversationRun, TLC

CONSTANTS c1, c2, u1, u2, t1, w1, w2, w3, s1, s2, m1, m2

UserEach == [c \in Conversations |-> IF c = c2 THEN u2 ELSE u1]
TaskOfC1 == [t \in Tasks |-> c1]
\* w1 and w2 are workers of one instance, w3 belongs to another.
TwoInstances == [w \in Workers |-> IF w = w3 THEN s2 ELSE s1]
Symmetry == Permutations({w1, w2}) \cup Permutations({m1, m2})

=============================================================================
