SPECIFICATION Spec
CONSTANTS
    ServeMode = TRUE
    WriteBufCount = 2
    BufSize = 2
    NumBlocks = 6
    SegmentSlots = 2
    Threshold = 2
    CountLimit = 5
    PoolSize = 2
    RecSizes <- Full
    MaxPackets = 6
    MaxRefusals = 0
    MaxIoErrors = 3
    MaxBoots = 0
INVARIANTS
    NextClaimIsClear
    FailuresStopRecording
    PendingMatchesWrites
    DrainedBeforeFinalize
    InFlightIsHeld
    WritesStayInSegment
    FinalizeChainsDoNotOverlap
CHECK_DEADLOCK FALSE
