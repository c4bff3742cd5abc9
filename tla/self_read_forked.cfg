SPECIFICATION Spec
CONSTANTS
    parent = parent
    child = child
    Proc = {parent, child}
    Parent = parent
    File <- MCFile
    Records <- MCRecords
    Crc <- MCCrc
    Spoilt <- MCSpoilt
    IoBuf = 2
    Stdio = 1
    TellCached = FALSE
    MayClose = FALSE
    MaxCalls = 3
INVARIANT ServesOnDemand
CHECK_DEADLOCK FALSE
