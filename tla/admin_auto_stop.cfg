SPECIFICATION FairSpec
CONSTANTS
    SegmentSlots = 2
    ChunkSizes <- TwoSizes
    RecordedChunks = 0
    Asked <- Recording
    Overlap = TRUE
    MaxCalls = 3
    MaxFaults = 0
PROPERTIES
    GeometryFixed
    SlotFreed
    JoinWaitsForClientOnly
CHECK_DEADLOCK FALSE
