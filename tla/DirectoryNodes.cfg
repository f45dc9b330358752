CONSTANTS
    NumCPU = 2
    NumEntries = 2
    RamSize = 2
    Address = {0, 2}
    Data = {0, 5}
SPECIFICATION Spec
INVARIANTS TypeOK DirectoryAgrees
PROPERTIES NodesAreIsolated AliasedReadsStarve
