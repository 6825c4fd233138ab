SPECIFICATION SumSpec
CONSTANTS
  Approvers = {a1, a2, a3}
  NoOne = NoOne
  Postgres = FALSE
  Calls = {c1, c2}
  Callers = {c1, c2}
  Keys = {k1, k2}
  MaxAutoApprovals = 2
  RequiredApprovals = 2
  WindowHours = 2
  LastHour = 3
  MaxManual = 1
  Workers = {w1, w2, w3}
  Users = {u1, u2}
PROPERTY ResolvedIsImmutable
CHECK_DEADLOCK FALSE
