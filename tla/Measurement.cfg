SPECIFICATION MCSpec
CHECK_DEADLOCK FALSE
CONSTANTS
    Ladder <- CappedLadder
    Step = 2
    Reps = 2
    Trained = {16, 40}
    MaxCrashes = 2
    MaxFaults = 1
    MaxSamples = 3
    MaxSeries = 5
    Configs <- MCConfigs
    Waited <- MCWaited
    Recorded <- MCRecorded
    Devices = {0, 1}
    Target = 0
    Required = 2
    MaxPolls = 3
    HostLimit = 2
    GpuLimit = 3
    MaxObserved = 3
    MaxAttempts = 2
INVARIANTS
    ResumeIsExact SearchIsTight AggregatesAreSound SummariesAreSound
    MeasuredMachineWasQuiet RecordingEndsWithTheRun FiguresAreOfTheirDevice
