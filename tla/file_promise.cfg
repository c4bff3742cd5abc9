SPECIFICATION Spec
CONSTANTS
    Name <- MCName
    SegLen <- MCSegLen
    MaxSegs = 4
    PathMax = 12
    Fold <- MCFold
    Reserved <- MCReserved
    SelfMode = FALSE
    NameMax = 9
    Byte = {0, 1}
    Archives <- MCArchives
    FdLimit = 1
    Paths <- MCPaths
    FileOps = {"open", "fopen_r", "fopen_w", "stat", "access"}
PROPERTIES
    VerdictsLast
    ImplementsMount
    CallsReturn
