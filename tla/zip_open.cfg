CONSTANTS
    Char <- MCChar
    Lower <- MCLower
    Names <- MCNames
    MaxRecs = 5
    BufSize = 9
    RecSize = 6
    TailLimit = 16
    Word = 1024
    MaxSize = 36
SPECIFICATION Spec
INVARIANTS FoundIsLast MissedIsOutOfReach IndexInv LocateIsExact
PROPERTY CallsEnd
CHECK_DEADLOCK FALSE
