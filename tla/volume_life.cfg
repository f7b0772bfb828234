SPECIFICATION Spec
CONSTANTS
    SegmentSlots = 2
    DataBlocks = 12
    RecLen = 2
    ZeroBlocks = 2
    ChunkSizes = {3, 6}
    Signals = FALSE
    MaxBoots = 3
    MaxFormats = 2
    MaxFaults = 1
    MaxRecords = 2
INVARIANTS
    TypeOK
    NoForeignSegment
    SegmentsKeepApart
    LiveVolumeIsOnDevice
    FormatSucceedsFresh
    DumpIsComplete
    PageIsWindow
PROPERTIES
    FinalizedEntryKept
CHECK_DEADLOCK FALSE
