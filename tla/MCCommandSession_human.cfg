\* A takeover between the guard of a tool call and its command.
SPECIFICATION Spec
CONSTANTS
    Commands = {c1, c2}
    NoCommand = NoCommand
    MaxPending = 1
    Timeout = 2
    BufferCap = 1
    TrimKeep = 1
    OutTokens = 0
    MaxChunk = 1
    WireCap = 1
    MaxClock = 6
    MaxNoise = 0
    MaxLosses = 1
CHECK_DEADLOCK FALSE
PROPERTIES
    HumanExclusive
