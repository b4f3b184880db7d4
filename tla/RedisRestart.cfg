CONSTANTS
    Jobs = {j1}
    Handlers = {h1}
    Reaper = reaper
    Booter = booter
    Worker = worker
    NoJob = NoJob
    Batches = 1
    Sources = {"file"}
    Env = {"delete", "crash", "outage", "timeout"}
    MaxFaults = 1
    MaxRestarts = 1

SPECIFICATION RestartSpec

INVARIANTS
    StemsUnlessDeleted

PROPERTIES
    RunningSettles

VIEW WithoutHistory
