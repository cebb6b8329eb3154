SPECIFICATION RelaySpec
CONSTANTS
    Calls = {c1, c2}
    NoWorker = NoWorker
    StatusTries = 1
    SetTries = 1
    ReleaseTries = 1
    Faults = {}
    MaxFaults = 0
    MaxStarts = 2
    WireCap = 2
CHECK_DEADLOCK FALSE
PROPERTIES DroppedPulseIsReleased
