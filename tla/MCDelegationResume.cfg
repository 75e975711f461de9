SPECIFICATION Spec
CONSTANTS
  Agents <- TwoKinds
  Messages = {}
  MaxAssignments = 1
  MaxAgreement = 2
  MaxAttempts = 1
  MaxRuns = 2
INVARIANTS
  OnlyTheLatestRunIsOpen
CHECK_DEADLOCK FALSE
