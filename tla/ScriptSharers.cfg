CONSTANTS
    NumCPU = 4
    NumEntries = 16
    RamSize = 4096
    Address = {0, 1, 2, 3, 4, 10, 11, 13, 14}
    Data = {0, 100, 250}
SPECIFICATION ScriptSpec
INVARIANTS ExclusiveIsAlone
CHECK_DEADLOCK FALSE
