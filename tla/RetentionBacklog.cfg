CONSTANTS
    Jobs = {j1, j2, j3, j4}
    NoJob = NoJob
    ResultTTL = 3
    JobTimeout = 2
    StaleAfter = 2
    Interval = 1
    Lag = 0
    MaxCrashes = 0

SPECIFICATION Spec

INVARIANTS
    QueuedKeepsRecord

SYMMETRY Symmetry
