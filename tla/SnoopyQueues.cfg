CONSTANTS
    NumCPU = 3
    LoopMax = 2
    MaxCacheLines = 1
    Address = {0, 1}
    Data = {0}
    UninitStates <- Optimized
    UninitUpdates <- NoUpdate
SPECIFICATION Spec
INVARIANTS QueuesAgree OneRequestPerWaiter LruMatchesLines
PROPERTIES FirstComeFirstServed DroppedNeverResumes Terminates
CHECK_DEADLOCK FALSE
