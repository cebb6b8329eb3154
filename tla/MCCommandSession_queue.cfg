\* Three callers racing for the line; commands print nothing.
SPECIFICATION Spec
CONSTANTS
    Commands = {c1, c2, c3}
    NoCommand = NoCommand
    MaxPending = 2
    Timeout = 2
    BufferCap = 2
    TrimKeep = 2
    OutTokens = 0
    MaxChunk = 1
    WireCap = 1
    MaxClock = 5
    MaxNoise = 0
    MaxLosses = 1
SYMMETRY CommandSymmetry
CHECK_DEADLOCK FALSE
INVARIANTS
    InOnePlace
PROPERTIES
    AnswerFinal
    NothingLate
    ServiceRefined
