SPECIFICATION MCSpec
CONSTANTS
    Workers = {w1, w2, w3}
    Master = master
    Nobody = nobody
    CrashAt = {"idle", "spin", "held"}
    RwProcs = {p1, p2, p3, p4}
    AcceptWorkers = {p1, p2}
    UseMutex = TRUE
    ConnN = 2
    Share = 1
    MaxBacklog = 2
    MaxArrivals = 3
    MaxEmfile = 1
    MaxQuits = 1
    NWorkers = 2
    CachePaths = FALSE
    Pids = {1, 2, 3, 4, 5, 6, 7}
    Signals = {"HUP", "USR2", "WINCH", "USR1", "QUIT"}
    ReloadOutcomes = {TRUE, FALSE}
    MaxSignals = 2
    MaxCrashes = 1
    MaxForkFails = 1
    Threads = {h1, h2}
    Tasks = {t1, t2, t3}
    ThreadExit = Exit
    ThreadNull = Null
    MaxQueue = 1
    NPages = 5
    MaxRun = 3
    Conns = {c1, c2, c3}
    ConnNone = none
    MaxSock = 4
    Events = {a, b, c}
    Modulus = 16
    Delays = {1, 4}
    Lazy = 2
    MaxTime = 17
    N = 3
    MaxBatch = 1
    MaxDeaths = 4
INVARIANTS
    MutualExclusion
    
    WordIsExact
    ProcessesSound
    
    SlabSound
PROPERTIES
    NoWriteUnderReader
