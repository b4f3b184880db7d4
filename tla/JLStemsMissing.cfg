CONSTANTS
    Jobs = {j1}
    Handlers = {h1}
    Reaper = reaper
    Booter = booter
    Worker = worker
    NoJob = NoJob
    Batches = 1
    Sources = {"file"}
    Env = {"delete"}
    MaxFaults = 0

SPECIFICATION Spec

INVARIANTS
    SucceededHasStems
