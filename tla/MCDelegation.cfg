SPECIFICATION Spec
CONSTANTS
  Agents <- TwoKinds
  Messages = {"m1"}
  MaxAssignments = 2
  MaxAgreement = 2
  MaxAttempts = 2
  MaxRuns = 2
INVARIANTS
  TypeOK
  TaskMatchesDelegation
  AcceptedIsSettled
  OneSessionPerTask
  MessagesStayCurrent
CHECK_DEADLOCK FALSE
