SPECIFICATION DeviceSpec
CONSTANTS
    Calls = {c1, c2}
    NoWorker = NoWorker
    StatusTries = 1
    SetTries = 2
    ReleaseTries = 2
    Faults = {"lose", "reset", "eof", "busy", "refuse"}
    MaxFaults = 2
    MaxStarts = 2
    WireCap = 2
    Callers = {u1}
    MaxAttempts = 2
    MaxRounds = 1
    MaxCalls = 2
    OutCap = 3
CHECK_DEADLOCK FALSE
INVARIANTS DeviceTypeOK NothingLeftBehind
PROPERTIES OkMeansReleased HeldIsLetGo
