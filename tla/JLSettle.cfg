CONSTANTS
    Jobs = {j1}
    Handlers = {h1, h2}
    Reaper = reaper
    Booter = booter
    Worker = worker
    NoJob = NoJob
    Batches = 1
    Sources = {"file", "url"}
    Env = {"delete", "crash", "outage", "timeout", "backlog"}
    MaxFaults = 2

SPECIFICATION Spec

INVARIANTS
    TypeOK
    ResurrectionNeedsRace
    StemsOrRaced
    QueuedIsReachable
    InputGoneAfterRun
    NoContradictoryCallbacks
    PostedOnce
    SettledIsAnnounced

PROPERTIES
    TerminalIsFinal

SYMMETRY HandlerSymmetry
