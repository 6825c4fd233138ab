SPECIFICATION Spec
CONSTANTS
  Plans <- AllPlans
  Costs = {0, 2}
  MaxTasks = 4
  MaxDepth = 3
  BudgetLimit = 1
  Concurrency = 2
  RecoveryEnabled = TRUE
  AllowRetry = TRUE
  MaxRetries = 1
  RecoveryBudget = 1
  DiagnosticianFails = TRUE
  Postgres = TRUE
  MaxFaults = 1
INVARIANTS DependencyOrder LimitsRespected CompletedMeansDone
PROPERTIES FinalIsFinal LifecycleSpec
CHECK_DEADLOCK FALSE
