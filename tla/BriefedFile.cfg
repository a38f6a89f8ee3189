SPECIFICATION Spec
CONSTANTS
    CmdIds = {0, 1}
    Files = {f1, f2}
    SegMod = 4
    ChunkSize = 1
    MaxFileSize = 1
    TimeoutSec = 1
    Byte = {b1}
    MaxPushSize = 2
    MaxSegment = 2
INVARIANTS
    ContentIsOfBriefedFile
