CONSTANTS
  p1 = p1  w1 = w1  w2 = w2  i1 = i1  i2 = i2  o1 = o1  o2 = o2  Nil = Nil
  Plans <- OnePlan
  Windows <- TwoWindows
  PlanOf <- SamePlan
  Workers <- TwoInstances
  Observations <- TwoObservations
  MaxAsks = 1
  MaxHistory = 2
  MaxFaults = 2
SPECIFICATION FairSpec
INVARIANTS TypeOK OutboxMatchesHistory
PROPERTIES OutboxDrains ImplementsFencedJob
CHECK_DEADLOCK FALSE
