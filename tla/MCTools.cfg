SPECIFICATION ToolsSpec
SYMMETRY Symmetry
CONSTANTS
  c1 = c1
  u1 = u1
  w1 = w1
  w2 = w2
  s1 = s1
  Conversations = {c1}
  Users = {u1}
  UserOf <- UserU1
  Tasks = {}
  TaskConv <- NoTaskConv
  Workers = {w1, w2}
  Services = {s1}
  OwnerOf <- OneInstance
  ClientIDs = {1}
  Nil = Nil
  MaxRuns = 1
  MaxFence = 10
  MaxDeltas = 1
  LeaseTTL = 1
  MaxQueuedPerUser = 1
  MaxQueuedPerWorkspace = 1
  MaxRunningPerUser = 1
  MaxRunningPerWorkspace = 1
  Script <- QuestionThenWrites
INVARIANTS
  EffectAtMostOnce
  SuccessMeansEffect
  UnknownOutcomesAreHeld
  ClosedQuestionEndsRun
  ToolsTypeOK
  NoEffectWithoutApproval
  InteractionCopiesAgree
  EffectsInOrder
PROPERTIES
  ReceiptsAreFinal
CHECK_DEADLOCK FALSE
