SPECIFICATION FairSpec
CONSTANTS
    CmdIds = {0, 8001}
    Files = {f1}
    SegMod = 8
    ChunkSize = 2
    MaxFileSize = 4
    TimeoutSec = 2
    MaxRuns = 3
    Hasty = FALSE
INVARIANTS
    OneInFlight
    ConfirmsExpected
PROPERTIES
    DeliversInOrder
    UploadEnds
