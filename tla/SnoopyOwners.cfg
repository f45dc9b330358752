CONSTANTS
    NumCPU = 2
    LoopMax = 3
    MaxCacheLines = 2
    Address = {0, 1}
    Data = {0, 1}
    UninitStates <- NotHolding
    UninitUpdates <- AnyUpdate
SPECIFICATION Spec
PROPERTIES OnlySnoopMakesTwoOwners OnlyStaleRequestsBreakCoherence
CHECK_DEADLOCK FALSE
