SPECIFICATION MCFairSpec
CONSTANTS
  Runs <- OneRun
  NoRun = NoRun
  Servers = {s1}
  Clis = {}
  LastTest = 1
  LastCase = 1
  MaxCrashes = 0
  MaxFaults = 0
PROPERTIES NoRunStuckCancelling
CHECK_DEADLOCK FALSE
