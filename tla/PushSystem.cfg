SPECIFICATION FairSpec
CONSTANTS
    CmdIds = {0, 9001}
    Files = {f1, f2}
    SegMod = 8
    TimeoutSec = 1
    Byte = {b1, b2}
    MaxPushSize = 2
    MaxSegment = 1
    PushChunkSize = 1
    MaxRuns = 2
    Hasty = FALSE
INVARIANTS
    PushedFileIsComplete
    PushNeverIdle
PROPERTIES
    PushEnds
