SPECIFICATION ResetSpec
CONSTANTS
    Resets = {r1, r2}
    Boards = {d1, d2}
    Nobody = Nobody
    Patient = {}
    FailureRetry = 1
    PrintCap = 1
CHECK_DEADLOCK FALSE
INVARIANTS RelayLockGuardsPulse
