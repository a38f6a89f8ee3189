SPECIFICATION FairSpec
CONSTANTS
    CmdIds = {0, 1, 2}
    Files = {f1}
    SegMod = 4
    ChunkSize = 2
    MaxFileSize = 3
    TimeoutSec = 2
    Byte = {b1}
    MaxPushSize = 1
    MaxSegment = 1
INVARIANTS
    TypeOK
    ExclusiveUnlessZero
    HandlesFollowSessions
    TimersServeSessions
    UploadsTimed
    UploadsAwait
    RefusedSummonSendsNothing
PROPERTIES
    SilenceReleases
