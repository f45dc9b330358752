CONSTANTS
    NumCPU = 3
    LoopMax = 2
    MaxCacheLines = 1
    Address = {0}
    Data = {0, 1}
    UninitStates <- NotOwning
    UninitUpdates <- AnyUpdate
SPECIFICATION Spec
INVARIANTS TypeOK OneOwner MemoryStaysZero
CHECK_DEADLOCK FALSE
