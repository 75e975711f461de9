------------------------- MODULE MCConversationTools -------------------------
(* Small instances of ConversationTools for TLC.                           *)
EXTENDS ConversationTools, TLC

CONSTANTS c1, u1, w1, w2, s1

UserU1 == [c \in Conversations |-> u1]
NoTaskConv == [t \in Tasks |-> c1]
OneInstance == [w \in Workers |-> s1]
Symmetry == Permutations({w1, w2})

Write(step, batch, idem, ask) ==
  [step |-> step, batch |-> batch, effect |-> "write", idem |-> idem, gate |-> ask]
AskUserCall(step) ==
  [step |-> step, batch |-> 1, effect |-> "read", idem |-> "key", gate |-> "input"]

\* A question, then two writes of one step: one that is confirmed and is
\* deduplicated by its key, one that is not asked about and is reconciled.
QuestionThenWrites ==
  <<AskUserCall(1), Write(2, 1, "key", "confirmation"), Write(2, 2, "reconcile", "none")>>

=============================================================================
