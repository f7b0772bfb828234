SPECIFICATION FairSpec
CONSTANTS
    ServeMode = TRUE
    WriteBufCount = 2
    BufSize = 2
    NumBlocks = 4
    SegmentSlots = 2
    Threshold = 2
    CountLimit = 0
    PoolSize = 4
    RecSizes <- Full
    MaxPackets = 4
    MaxRefusals = 1
    MaxIoErrors = 1
    MaxBoots = 0
PROPERTIES
    StopCompletes
    RequestsAnswered
    ShutdownCompletes
CHECK_DEADLOCK FALSE
