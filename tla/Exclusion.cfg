SPECIFICATION Spec
CONSTANTS
    CmdIds = {0, 1}
    Files = {f1}
    SegMod = 3
    ChunkSize = 1
    MaxFileSize = 2
    TimeoutSec = 2
    Byte = {b1}
    MaxPushSize = 1
    MaxSegment = 1
INVARIANTS
    MutualExclusion
