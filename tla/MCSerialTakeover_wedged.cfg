SPECIFICATION Spec
CONSTANTS
    Servers = {s1}
    MultiServers = {}
    Humans = {h1}
    Clients = {}
    Procs = {s1, h1}
    NoProc = NoProc
    MaxTroubles = 0
INVARIANTS FaultIsClaimable
