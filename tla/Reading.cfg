SPECIFICATION MCSpec
CONSTANTS
    RunIds = {1, 2, 3}
    Subjects <- MCSubjects
    MetricRows <- MCMetricRows
    MetricKinds <- MCMetricKinds
    SuiteTests <- MCSuiteTests
    MetricKeys <- MCMetricKeys
    HigherIsBetter = {"headline"}
    SweepMetric = "model_vram_bytes"
    VramMetric = "peak_vram_bytes"
    AcrossNameOnly = "warn"
    MinimumSweep = 3
    PageLimit = 1
    MaxLimit = 3
    MaxRuns = 2
    MaxTime = 2
    MaxRewrites = 3
INVARIANTS PagesAreExact ExportsAreWhole ScreensAreSound
CHECK_DEADLOCK FALSE
