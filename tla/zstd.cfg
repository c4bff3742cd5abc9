SPECIFICATION Spec
CONSTANTS
    Unit = 2
    ZSTD_LITBUFFEREXTRASIZE = 16
    ZSTD_BLOCKSIZE_MAX = 128
    ZSTD_WINDOWLOG_ABSOLUTEMIN = 5
    LongHistory = 60
    LongCode = 22
    Step256 = 1
    Sessions <- MCSessions
    Requests <- MCRequests
INVARIANTS EntryIsExact StaysInside
