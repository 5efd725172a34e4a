SPECIFICATION MCFairSpec
CONSTANTS
  Runs <- TwoRuns
  NoRun = NoRun
  Servers = {s1}
  Clis = {}
  LastTest = 2
  LastCase = 1
  MaxCrashes = 1
  MaxFaults = 0
INVARIANTS OnlyLateCancelStrands
PROPERTIES QueueDrains CancelIsHonoured
CHECK_DEADLOCK FALSE
