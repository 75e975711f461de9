CONSTANTS
  r1 = r1  r2 = r2  w1 = w1  w2 = w2
  Runs <- TwoRuns
  Workers <- TwoWorkers
  Tokens = 1
  Time = 1
  BudgetTokens = 2
  BudgetTime = 2
  MaxModelAttempts = 2
  MaxSteps = 1
  MaxClaims = 2
SPECIFICATION Spec
SYMMETRY Symmetry
INVARIANTS TypeOK BudgetNeverOvercommitted LedgerMatchesResults ReservationSurvives AttemptsInOrder
CHECK_DEADLOCK FALSE
