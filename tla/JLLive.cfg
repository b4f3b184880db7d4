CONSTANTS
    Jobs = {j1}
    Handlers = {h1}
    Reaper = reaper
    Booter = booter
    Worker = worker
    NoJob = NoJob
    Batches = 1
    Sources = {"file"}
    Env = {"delete", "crash", "outage", "silence", "redispatch"}
    MaxFaults = 2

SPECIFICATION FairSpec

INVARIANTS
    AbandonedIsFinal

PROPERTIES
    RunningSettles

VIEW WithoutCounts
