SPECIFICATION Spec
CONSTANTS
    SegmentSlots = 2
    ChunkSizes <- OneSize
    RecordedChunks = 1
    Asked <- Everything
    Overlap = FALSE
    MaxCalls = 4
    MaxFaults = 1
INVARIANTS
    TypeOK
    SlotHeldWhileWorking
    IoBufHasOneUser
    AnswerIsOwn
    ListIsComplete
PROPERTIES
    FinalizeKeepsClaim
CHECK_DEADLOCK FALSE
