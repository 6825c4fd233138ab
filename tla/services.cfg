SPECIFICATION SumSpec
CONSTANTS
  Instances = {i1, i2}
  Jobs = {j1, j2}
  Period = 1
  Cooldown = 2
  LastTime = 3
  MaxFaults = 1
INVARIANTS
   ReportedOnce CooldownHolds
  SoulReplaysLog RecordIsExact CommandIsReported StoreClosedLast
PROPERTIES
  EventuallyServed  PresenceFollows EverythingEnds
\* The clocks stop, and nothing may be left to do.
CHECK_DEADLOCK FALSE
