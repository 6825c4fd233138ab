CONSTANTS
  Agents = {a1, a2}
  RolesOf <- AnyRole
  Plans <- Nested
  Slots = 1
  MaxTasks = 5
  MaxDepth = 3
  MaxFaults = 0
  Parts = {"flat"}
SPECIFICATION SumSpec
CHECK_DEADLOCK FALSE
PROPERTY StaleReassigned
