SPECIFICATION Spec
CONSTANTS
    PassBody = TRUE
    Split = FALSE
    MaxArgs = 2
    UntilInvalid = TRUE
INVARIANTS
    
    
    ConfMerged
CHECK_DEADLOCK FALSE
