SPECIFICATION Spec
CONSTANTS
    SegmentSlots = 2
    ChunkSizes <- OneSize
    RecordedChunks = 1
    Asked <- Deleting
    Overlap = FALSE
    MaxCalls = 4
    MaxFaults = 0
PROPERTIES
    DeletesAreAccepted
CHECK_DEADLOCK FALSE
