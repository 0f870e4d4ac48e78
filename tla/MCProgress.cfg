SPECIFICATION MCSpec
CONSTANTS
    Master = master
    Nobody = nobody
    CrashAt = {"idle", "spin", "held"}
    AcceptWorkers = {p1, p2}
    ConnN = 2
    Share = 1
    MaxBacklog = 2
    MaxArrivals = 3
    MaxQuits = 1
    NWorkers = 1
    CachePaths = TRUE
    Pids = {1, 2, 3, 4, 5, 6}
    Signals = {"TERM", "QUIT"}
    ReloadOutcomes = {TRUE}
    MaxSignals = 2
    MaxCrashes = 1
    MaxForkFails = 0
    Threads = {h1, h2}
    Tasks = {t1, t2}
    ThreadExit = Exit
    ThreadNull = Null
    MaxQueue = 1
    MaxRequests = 2
    IntMax = 127
    NoNum = NoNum
    NoSession = NoSession
    FirstTime = 4
    Keys = {k1}
    Timestamps = {t1}
    Offsets = {1, 4}
    Spans = {1, 2}
    Indexed = TRUE
    Window = 1
    MaxTime = 9
INVARIANTS
    
    IndexSound
PROPERTIES
    OneResponse
    RequestsEnd
    WorkersProgress
