SPECIFICATION FairSpec
CONSTANTS
  Plans <- AllPlans
  Costs = {0}
  MaxTasks = 5
  MaxDepth = 3
  BudgetLimit = 1
  Concurrency = 2
  RecoveryEnabled = TRUE
  AllowRetry = TRUE
  MaxRetries = 2
  RecoveryBudget = 1
  DiagnosticianFails = FALSE
  Postgres = FALSE
  MaxFaults = 0
INVARIANTS EngineInv RowsInStep
PROPERTIES Terminates
CHECK_DEADLOCK FALSE
