SPECIFICATION FairSpec
CONSTANTS
    ChunkSizes = {1, 2}
    Polls = 1
    Lists = 1
    Posts = 2
    SegmentSlots = 1
    FormatTwice = FALSE
    MaxClicks = 2
    MaxFaults = 1
INVARIANTS
    ButtonTellsFormat
PROPERTIES
    PageCatchesUp
CHECK_DEADLOCK FALSE
