SPECIFICATION Spec
CONSTANTS
    MaxBits = 7
    FastBits = 3
    SymRange = 32
    ByteBits = 4
    EOB = 16
    LenBase <- MCLenBase
    LenExtra <- MCLenExtra
    DistBase <- MCDistBase
    DistExtra <- MCDistExtra
    FixedSizes <- MCFixedSizes
    HeaderBits <- MCHeaderBits
    MinSizes <- MCMinSizes
    Dezigzag <- MCDezigzag
    MaxSymbols <- MCMaxSymbols
    RepeatBits <- MCRepeatBits
    RepeatBase <- MCRepeatBase
    Streams <- MCStreams
    ReadSizes = {1, 2, 3, 5, 100}
    Contents <- MCContents
    LZ_DICT_SIZE = 128
    MAX_MATCH_LEN = 8
    PosRange = 256
    HashSize = 64
    HashOf <- MCHashOf
    MaxProbes <- MCMaxProbes
    GoodMatch = 5
    LongMatch = 6
    TooFar = 16
    LZ_CODE_BUF_SIZE = 256
    OUT_BUF_SIZE = 332
    BigBlock = 112
    StaticBelow = 8
    HeaderLimit = 4
INVARIANTS DeflateIsExact ArraysSuffice
PROPERTY BothEnd
