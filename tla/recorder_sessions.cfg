SPECIFICATION Spec
CONSTANTS
    ServeMode = TRUE
    WriteBufCount = 2
    BufSize = 2
    NumBlocks = 4
    SegmentSlots = 2
    Threshold = 2
    CountLimit = 0
    PoolSize = 4
    RecSizes <- HalfAndTooLong
    MaxPackets = 6
    MaxRefusals = 0
    MaxIoErrors = 0
    MaxBoots = 1
INVARIANTS
    TypeOK
    FinalizedIsAuthoritative
    ExtentsDisjoint
    FinalizedBelowHighWater
PROPERTIES
    BuffersStableInFlight
    HighWaterAdvances
    ImplementsStore
CHECK_DEADLOCK FALSE
