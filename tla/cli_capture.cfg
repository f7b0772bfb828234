SPECIFICATION Spec
CONSTANTS
    ServeMode = FALSE
    WriteBufCount = 2
    BufSize = 2
    NumBlocks = 7
    SegmentSlots = 2
    Threshold = 2
    CountLimit = 0
    PoolSize = 4
    RecSizes <- HalfAndFull
    MaxPackets = 5
    MaxRefusals = 0
    MaxIoErrors = 0
    MaxBoots = 0
INVARIANTS
    CapturedRecordsAreStored
CHECK_DEADLOCK FALSE
