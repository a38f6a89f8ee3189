SPECIFICATION Spec
CONSTANTS
    HexDigits = 2
    U32 = 256
    U64 = 65536
    Bytes = {0, 77, 255}
    MaxBytes = 7
    Characters = {0, 2, 3, 5, 6, 9, 15, 16, 17}
    MaxText = 5
    MaxU32 = 1000000
    MaxSettings = 2
INVARIANTS
    SegmentsSurvive
    NumbersExact
    CrcSurvives
    GatewaysKeepApart
    DefaultsStand
CHECK_DEADLOCK FALSE
