SPECIFICATION Spec
CONSTANTS
  Plans <- AllPlans
  Costs = {2}
  MaxTasks = 4
  MaxDepth = 3
  BudgetLimit = 1
  Concurrency = 2
  RecoveryEnabled = TRUE
  AllowRetry = TRUE
  MaxRetries = 1
  RecoveryBudget = 1
  DiagnosticianFails = FALSE
  Postgres = FALSE
  MaxFaults = 0
INVARIANT BudgetEnforced
CHECK_DEADLOCK FALSE
