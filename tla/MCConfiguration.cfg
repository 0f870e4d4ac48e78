SPECIFICATION Spec
CONSTANTS
    MaxValue = 3
    FormatChars = {36,123,125,97,32}
    MaxReopen = 1
    StackSize = 10
    ArgsOf = {0,1}
    Depth = 4
    RangeValues = {1,2}
    EditWhileRead = FALSE
    Preallocated = 1
    CidrValues = {1,2}
    CidrMaxConf = 3
    MaxDeletes = 2
    Wild = 0
    Addresses = {1, 2}
    MaxListen = 3
    MaxServers = 2
    Workers = 2
    MaxNames = 3
    MaxSize = 3
    BucketSize = 32
INVARIANTS
    LogsFaithful
    
    
    ServerFound
CHECK_DEADLOCK FALSE
