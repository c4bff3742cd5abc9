SPECIFICATION Spec
CONSTANTS
    Name <- MCName
    SegLen <- MCSegLen
    MaxSegs = 4
    PathMax = 12
    Fold <- MCFold
    Reserved <- MCReserved
    SelfMode = TRUE
    NameMax = 9
    Byte = {0, 1}
    Archives <- MCCarried
    FdLimit = 1
    Paths <- MCPaths
    Handle = {h1, h2}
INVARIANT NoDuplicates
