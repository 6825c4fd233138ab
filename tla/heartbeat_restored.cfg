SPECIFICATION SumSpec
CONSTANTS
  Instances = {i1}
  Jobs = {j1}
  Period = 1
  Cooldown = 2
  LastTime = 3
  MaxFaults = 1
PROPERTY TasksFollowFiles
CHECK_DEADLOCK FALSE
