SPECIFICATION MCSpec
CONSTANTS
  Runs <- TwoRuns
  NoRun = NoRun
  Servers = {s1}
  Clis = {c1}
  LastTest = 2
  LastCase = 2
  MaxCrashes = 2
  MaxFaults = 1
INVARIANTS TypeOK OneSlot MeasurementIsExact
PROPERTIES RefinesLifecycle ServedRunKeepsItsData NothingMeasuredIsLost
CHECK_DEADLOCK FALSE
