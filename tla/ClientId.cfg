SPECIFICATION Spec
CONSTANTS
    HexDigits = 2
    U32 = 256
    U64 = 65536
    Bytes = {}
    MaxBytes = 0
    Characters = {}
    MaxText = 0
    MaxU32 = 1000000
    MaxSettings = 1
INVARIANTS
    ClientIdFollowsGateway
CHECK_DEADLOCK FALSE
