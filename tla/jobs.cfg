SPECIFICATION FairSpec
CONSTANTS
    JobIds = {j1}
    pauseId = pauseId
    noId = noId
    jobtopic = TRUE
    None = None
    MaxTime = 3
    MaxFaults = 2
INVARIANTS
    TypeOK
    OpenRowsExcused
    RowsTruthful
    RowsComplete
    RetainedTruthful
    RunningTruthful
PROPERTIES
    ReportsArrive
    ImplementsLine
