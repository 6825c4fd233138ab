SPECIFICATION SumSpec
CONSTANTS
  Instances = {i1, i2}
  Jobs = {j1}
  Period = 1
  Cooldown = 2
  LastTime = 3
  MaxFaults = 1
INVARIANT DueOnce
CHECK_DEADLOCK FALSE
