SPECIFICATION FsSpec
CONSTANTS
    NBLOCKS = 7
    NDIRECT = 1
    NINDIRECT = 1
    BLKFILES = 1
    Name = {"a", "b"}
    MaxSize <- Sizes
    MaxRestarts = 1
    NonZero = {"b"}
    MaxGap = 1
CONSTRAINTS
    FewLost
INVARIANTS
    BlocksAccounted
    DiskSound
    FlushedSurvives
CHECK_DEADLOCK FALSE
