CONSTANTS
    NumCPU = 2
    LoopMax = 2
    MaxCacheLines = 2
    Address = {0, 1}
    Data = {0, 1}
    UninitStates <- Optimized
    UninitUpdates <- NoUpdate
SPECIFICATION Spec
PROPERTIES SnoopWritesBack
CHECK_DEADLOCK FALSE
