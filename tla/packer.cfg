SPECIFICATION Spec
CONSTANTS
    Char <- MCChar
    Lower <- MCLower
    Max16 = 12
    Max32 = 2000
    IoBuf = 1000
    Content = {"nothing", "short", "text", "dictA", "dictB", "huge", "vast"}
    Length <- MCLength
    Packed <- MCPacked
    ZDICT_ENTRY <- MCZdict
    SYMTAB <- MCSymtab
    Inputs <- MCInputs
INVARIANTS
    EntriesHeld
    FilesServed
    CarriedServed
    BaseIsWhereItBegan
    EntryPointsAgree
CHECK_DEADLOCK FALSE
