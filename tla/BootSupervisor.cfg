SPECIFICATION FairSpec
CONSTANTS
    AddrTries = 2
    DockerTries = 2
    MaxStops = 2
    MaxDrops = 2
    MaxFailures = 2
INVARIANTS OneRepairPerStop
PROPERTIES RepairedForGood
CHECK_DEADLOCK FALSE
