SPECIFICATION Spec
CONSTANTS
    Name <- MCName
    SegLen <- MCSegLen
    MaxSegs = 4
    PathMax = 12
    Fold <- MCFold
    Reserved <- MCReserved
    SelfMode = TRUE
    NameMax = 9
    Byte = {0, 1}
    Archives <- MCArchives
    FdLimit = 3
    PathRoom = 6
    Cut <- MCCut
    Paths <- MCPaths
    MaxTemp = 3
INVARIANTS
    CachedIsWhole
    NothingLost
    CleansUp
    ReservedMount
PROPERTY CallsReturn
CHECK_DEADLOCK FALSE
