CONSTANTS
  w1 = w1
  w2 = w2
  g1 = g1
  k1 = k1
  None = None
  Workers <- MCWorkers
  Gateways <- MCGateways
  Keys <- MCKeys
  Outcomes <- MCOutcomes
  Costs <- MCCosts
  MaxAttempts = 2
  MaxToolCalls = 1
  MaxCostUnits = 1
  WorkflowTask = TRUE
  Resolution = 2
  MaxFence = 2
  MaxClock = 6
SPECIFICATION Spec
CHECK_DEADLOCK FALSE
INVARIANTS
  ToldRunsStayEnded
