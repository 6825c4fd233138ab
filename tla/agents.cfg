CONSTANTS
  Agents = {a1, a2}
  RolesOf <- AnyRole
  Plans <- Nested
  Slots = 1
  MaxTasks = 5
  MaxDepth = 3
  MaxFaults = 0
  Parts = {"nested", "flat", "reconnecting", "two", "reporting"}
SPECIFICATION SumSpec
\* A workflow ends, and requests are finite.
CHECK_DEADLOCK FALSE
INVARIANTS
  ExecutedOnce EndedIsDone HubIsCurrent
PROPERTIES
  WorkGoesOn
