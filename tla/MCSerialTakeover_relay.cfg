SPECIFICATION FairSpec
CONSTANTS
    Servers = {s1}
    MultiServers = {}
    Humans = {h1}
    Clients = {c1, c2}
    Procs = {s1, h1}
    NoProc = NoProc
    MaxTroubles = 1

PROPERTIES StaleDisconnects LineRegained
