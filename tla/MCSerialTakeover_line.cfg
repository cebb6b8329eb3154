SPECIFICATION Spec
CONSTANTS
    Servers = {s1, s2}
    MultiServers = {s2}
    Humans = {h1}
    Clients = {}
    Procs = {s1, s2, h1}
    NoProc = NoProc
    MaxTroubles = 1
INVARIANTS TypeOK ExclusiveLine RemovedIsFinal
PROPERTIES FaultNeedsClaim
