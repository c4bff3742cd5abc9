SPECIFICATION Spec
CONSTANTS
    Name <- MCName
    SegLen <- MCSegLen
    MaxSegs = 4
    PathMax = 12
    Fold <- MCFold
    Reserved <- MCReserved
    SelfMode = TRUE
    NameMax = 9
    Byte = {0, 1}
    Archives <- MCArchives
    FdLimit = 3
    Paths <- MCPaths
    FileOps = {"open", "fopen_r", "fopen_w", "stat", "access"}
INVARIANTS
    TypeOK
    NoLeak
    ServesPristine
    PipelineInv
    HiddenStaysHidden
