SPECIFICATION Spec
CONSTANTS
    MaxLen = 6
    Large = 5
    Num = 3
    Lens = {2, 4, 6}
    MaxReq = 2
    MaxHdr = 4
    MaxBlank = 1
    Modes = {"buffered", "unbuffered", "discard"}
    Framings = {"chunked", "length"}
    Pre = 3
    Room = 2
    BufSize = 2
    MaxBody = 3
    Uris = {"a","b"}
    MaxUriChanges = 1
    Width = 4
    Pages = {"b"}
    Satisfy = {"any"}
    PostActions = {""}
    Subs = {FALSE}
    MaxBreaks = 1
    Sizes = {0,1,16}
    MaxLinks = 2
    ChunkedMaxCalls = 3
    Sock = 3
    Page = 2
    Iovs = 1
    Tps = 2
    OutputMaxCalls = 2
    MaxUniq = 2
    Reqs = {r1, r2}
    Fds = 2
    MaxFiles = 1
    Valid = 1
    MaxTime = 1
    MaxInode = 3
    Workers = {w1, w2}
    ReqRoom = 1
    MaxLag = 0
    ConnKeys = {1, 2}
    ConnNZones = 2
    ConnRoom = 1
INVARIANTS
    CacheSound
    
    
    RequestRead
    PhasesSound
    ResponseFramed
    OutputSent
CHECK_DEADLOCK FALSE
