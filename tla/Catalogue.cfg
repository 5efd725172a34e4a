SPECIFICATION MCSpec
CONSTANTS
    ModelNames = {1}
    Digests = {0, 1, 2}
    Contents = {1, 2}
    Discoverers = {1, 2}
    MaxTime = 4
    Stems = {1, 2}
    Artifacts = {0, 1, 2}
    Manifests <- MCManifests
    Suites = {"fit", "echo"}
    Fits = {1, 3}
    Margin = 2
    RefineStep = 1
    MaxRuns = 2
    MaxEdits <- MCEdits
PROPERTIES IdentitiesAreKept CountsAreTrue RepeatsMatch
CHECK_DEADLOCK FALSE
