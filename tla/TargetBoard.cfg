SPECIFICATION BoardSpec
CONSTANTS
    HangTimeout = 0
    ProbeWindow = 0
    BootWindow = 1
    Hysteresis = 2
    MaxLogins = 1
    MaxEvents = 4
    MaxTools = 1
    WireCap = 2
    TxCap = 1
INVARIANTS BoardTypeOK MissesMatchProbes
PROPERTIES OffNeedsProbes CrashIsKept SilentBoardNoticed
