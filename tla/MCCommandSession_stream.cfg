\* Two commands and everything the line can do to their bytes.
SPECIFICATION Spec
CONSTANTS
    Commands = {c1, c2}
    NoCommand = NoCommand
    MaxPending = 2
    Timeout = 1
    BufferCap = 3
    TrimKeep = 2
    OutTokens = 2
    MaxChunk = 2
    WireCap = 2
    MaxClock = 3
    MaxNoise = 1
    MaxLosses = 1
SYMMETRY CommandSymmetry
CHECK_DEADLOCK FALSE
INVARIANTS
    TypeOK
    
    OwnOutput
