SPECIFICATION Spec
CONSTANTS
  Workers = {w1}
  Costs = {1, 2}
  Limit = 3
  LastDay = 1
INVARIANTS SpendingWithinLimit
CHECK_DEADLOCK FALSE
