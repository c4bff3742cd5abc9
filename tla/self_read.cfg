SPECIFICATION Spec
CONSTANTS
    parent = parent
    child = child
    Proc = {parent, child}
    Parent = parent
    File <- MCFile
    Records <- MCRecords
    Crc <- MCCrc
    Spoilt <- MCSpoilt
    IoBuf = 2
    Stdio = 1
    TellCached = TRUE
    MayClose = TRUE
    MaxCalls = 3
INVARIANTS
    ExtractIsExact
    LoneReaderServes
    NothingHeld
PROPERTY ExtractEnds
CHECK_DEADLOCK FALSE
