SPECIFICATION Spec
CHECK_DEADLOCK FALSE
CONSTANTS
    Handlers = {h1, h2}
    Executor = executor
    Serialised = FALSE
    MaxTries = 1
    MaxNotes = 0
    MaxResumes = 1
    MaxFaults = 0
    MaxCrashes = 1
    MaxLoads = 1
    MaxDrops = 1
INVARIANTS TypeOK GapFree ExactReplay AnnouncedIsTrue OneEndingPerAttempt
