SPECIFICATION FilesSpec
CONSTANTS
    Procs = {p1, p2, p3}
    NoProc = NoProc
    Inodes = {i1, i2}
    NoInode = NoInode
    MaxReplaced = 1
    Servers = {s1, s2, s3}
    Olds = {o1}
    NoServer = NoServer
    MaxHooked = 1
    Pieces = {"ddr", "spl", "eol"}
    RingCap = 3
    MaxLogs = 1
    MaxHeard = 4
    MaxChunk = 3
    MaxEvents = 2
    Options = {"relay", "reset", "download", "flash"}
    MaxRuns = 1
    Texts = {0, 2, 4}
    MaxHosts = 2
    MaxDuts = 3
    MaxTabs = 2
    MaxTyped = 2
    MaxSaves = 2
    MaxSteps = 4
    Wizards = {w1, w2}
    Endpoints = {e1}
    MaxCommits = 2
    MaxServers = 2
CHECK_DEADLOCK FALSE
INVARIANTS FilesTypeOK OneIntactHolder HeldIsNamed PidNamesHolder OneOwner SomeStartSurvives  ProbesNeverStall AckedIsReleased
PROPERTIES MutexRefined LostIsNotRegained CutsAtPrefix ValuesFollowTabs SavedAsShown
