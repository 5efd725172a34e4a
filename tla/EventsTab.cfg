SPECIFICATION FairSpec
CHECK_DEADLOCK FALSE
CONSTANTS
    Handlers = {h1}
    Executor = executor
    Serialised = FALSE
    MaxTries = 3
    MaxNotes = 1
    MaxResumes = 0
    MaxFaults = 1
    MaxCrashes = 0
    MaxLoads = 1
    MaxDrops = 1
PROPERTIES EndIsAnnounced TabLearnsTheEnd
