SPECIFICATION Spec
CONSTANTS
    TableSize = 12
    Overhead = 2
    Grow = 2
    NameLens = {0,1,3}
    ValueLens = {0,4}
    Sizes = {0,6,12}
    MaxFields = 5
    MaxUpdates = 1
    Sids = {1,2,3,5}
    MaxClosed = 1
    CountMod = 8
    Concurrent = 2
    Total = 5
    Streams = {1,2}
    Bodies = {0,3}
    FrameSize = 2
    InitWindow = 2
    OutMaxWindow = 4
    Updates = {2}
    InitWindows = {0,3}
    Ctxs = {c1, c2}
    NoName = NoName
    Valid = 1
    Expire = 1
    Resend = 1
    MaxRecursion = 2
    MaxSrvs = 3
    Priorities = {1, 2}
    MaxAddrs = 2
    PastLogin = FALSE
    MaxCmds = 3
    MaxWaits = 1
INVARIANTS
    
    StreamFaithful
    ResolverSound
    
CHECK_DEADLOCK FALSE
