SPECIFICATION Spec
CONSTANTS
    one = one
    other = other
    clip = clip
    song = song
    tune = tune
    Clients <- MCClients
    Todo <- MCTodo
    Videos <- MCVideos
    Dest <- MCDest
    Stems <- MCStems
    Keep = 2
    MaxJobs = 3
    MaxFaults = 1
    MaxBreaks = 1
INVARIANTS TypeOK LogKeepsNoted AcceptedIsNoted  LitterCostsABreak
CHECK_DEADLOCK FALSE
