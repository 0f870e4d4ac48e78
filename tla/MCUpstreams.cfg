SPECIFICATION Spec
CONSTANTS
    RequestBody = 3
    Modes = {"upgraded", "unbuffered"}
    FromServer = 3
    FromClient = 2
    Early = 2
    Ahead = 1
    FullHeader = FALSE
    RelaySize = 2
    Threads = {TRUE, FALSE}
    Num = 2
    PipeSize = 2
    BusySize = 2
    WriteSize = 2
    MaxFile = 2
    KeepRequests = {1, 2}
    Conns = {1, 2, 3}
    Mods = {"http", "stream"}
    FailTimeout = 1
    BalRequests = {1, 2}
INVARIANTS
    RequestWhole
    PeersFair
    
PROPERTIES
    PeersJudged
