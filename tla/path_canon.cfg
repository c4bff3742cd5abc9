SPECIFICATION Spec
CONSTANTS
    Short = {"a", "b"}
    Long = "long"
    Huge = "huge"
    Name <- MCName
    SegLen <- MCSegLen
    MaxSegs = 3
    PathMax = 15
    MaxText = 5
    Inputs <- MCInputs
INVARIANTS
    TypeOK
    CanonIsLexical
    ScanTracksSurvivors
CHECK_DEADLOCK FALSE
