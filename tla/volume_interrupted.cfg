SPECIFICATION Spec
CONSTANTS
    SegmentSlots = 2
    DataBlocks = 12
    RecLen = 2
    ZeroBlocks = 2
    ChunkSizes = {3, 6}
    Signals = TRUE
    MaxBoots = 2
    MaxFormats = 2
    MaxFaults = 0
    MaxRecords = 2
INVARIANTS
    HighWaterInDataArea
CHECK_DEADLOCK FALSE
