SPECIFICATION Spec
CONSTANTS
    Chunk = 8
    Digits = 20
    Percents = 4
    Stems <- MCStems
    Hops <- MCHops
    Steps <- MCSteps
    Margins <- MCMargins
    Batches <- MCBatches
    Wants <- MCWants
    Lengths <- MCLengths
INVARIANT AcceptedIsSeparated
CHECK_DEADLOCK FALSE
