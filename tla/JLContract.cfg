CONSTANTS
    Jobs = {j1, j2}
    Handlers = {h1}
    Reaper = reaper
    Booter = booter
    Worker = worker
    NoJob = NoJob
    Batches = 1
    Sources = {"file"}
    Env = {"crash"}
    MaxFaults = 1

SPECIFICATION FairSpec

PROPERTIES
    ContractSpec
    SubmittedSettles
