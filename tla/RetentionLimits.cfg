CONSTANTS
    Jobs = {j1, j2}
    NoJob = NoJob
    ResultTTL = 4
    JobTimeout = 3
    StaleAfter = 2
    Interval = 1
    Lag = 1
    MaxCrashes = 1

SPECIFICATION FairSpec

INVARIANTS
    TypeOK
    RunKeepsOutput
    ServableToTheEnd
    QueuedSurvives

PROPERTIES
    DeletedStaysDeleted
    RunningNeverExpires
    AllIsForgotten
