\* Two callers, a silent shell, takeovers and faults that may never end; two
\* calls of serial_reset or serial_power_cycle for one DUT.
SPECIFICATION CallsSpec
CONSTANTS
    Commands = {c1, c2}
    NoCommand = NoCommand
    MaxPending = 1
    Timeout = 1
    BufferCap = 1
    TrimKeep = 1
    OutTokens = 0
    MaxChunk = 1
    WireCap = 1
    MaxClock = 3
    MaxNoise = 0
    MaxLosses = 1
    Resets = {r1, r2}
    Boards = {d1}
    Nobody = Nobody
    Patient = {r1}
    FailureRetry = 2
    PrintCap = 1
CHECK_DEADLOCK FALSE
PROPERTIES
    EveryCommandAnswered
    EveryCallerReleased
    EveryResetEnds
INVARIANTS
    TasksTakeTurns
