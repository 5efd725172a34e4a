SPECIFICATION MCSpec
CONSTANTS
  Runs <- TwoRuns
  Sessions = {s1, s2}
  s1 = s1
  s2 = s2
  Scopes = {"run", "all"}
  ModelOf <- OneModel
  Threshold = 6
  Keep = 1
  HeadRevision = 2
  AutoMigrate = TRUE
  Batches <- TwoBatches
  MaxOutside = 1
SYMMETRY TwoOperators
INVARIANTS OutcomeIsTrue NoOrphans
PROPERTY NothingIsLostUnsaved
CHECK_DEADLOCK FALSE
