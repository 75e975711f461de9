SPECIFICATION Spec
CONSTANTS
  Agents <- ExternalOnly
  Messages = {}
  MaxAssignments = 2
  MaxAgreement = 2
  MaxAttempts = 1
  MaxRuns = 2
INVARIANTS
  OneKindExecutes
CHECK_DEADLOCK FALSE
