SPECIFICATION FairSpec
CONSTANTS
  w1 = w1
  w2 = w2
  i1 = i1
  i2 = i2
  Instructions = {i1, i2}
  Callback = FALSE
  Workers = {w1, w2}
  MaxAttempts = 2
  BatchLimit = 2
  MaxClaims = 3
  MaxCrashes = 1
  NoRow = NoRow
INVARIANTS TypeOK OneWorkerPerAttempt BudgetIsSpent AcceptedWasTaken SettledTogether
PROPERTIES PromiseSpec EveryActivationSettles
CHECK_DEADLOCK FALSE
