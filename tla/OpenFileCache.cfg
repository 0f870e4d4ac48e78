SPECIFICATION TsSpec
CONSTANTS
    Paths = {p1}
    Reqs = {r1, r2}
    Dirs = {2}
    Special = {}
    Fds = 2
    MaxFiles = 1
    Inactive = 0
    Valid = 1
    MinUses = 1
    Errors = FALSE
    MaxTime = 1
    MaxInode = 3
INVARIANT NoBodyIn304
CHECK_DEADLOCK FALSE
