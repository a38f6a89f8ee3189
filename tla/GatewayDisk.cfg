SPECIFICATION Spec
CONSTANTS
    CmdIds = {0, 1}
    Files = {f1, f2}
    SegMod = 4
    ChunkSize = 1
    MaxFileSize = 0
    TimeoutSec = 1
    Byte = {b1, b2}
    MaxPushSize = 2
    MaxSegment = 2
INVARIANTS
    DiskMatchesProgress
PROPERTIES
    AcceptedFileIsComplete
SYMMETRY PathSymmetry
