SPECIFICATION FairSpec
CONSTANTS
    AliveTTL = 9
    MinPeriod = 1
    Late = 1
    MaxCrashes = 2
    MaxFailures = 2
INVARIANTS TypeOK HealthyLooksAlive DeadIsNoticed
PROPERTIES FetchedOnce BootsInTheEnd
CHECK_DEADLOCK FALSE
