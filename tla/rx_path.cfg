SPECIFICATION Spec
CONSTANTS
    Macs = {"me", "macA", "macB"}
    Ips = {"ipMe", "ipA", "ipB"}
    LocalMac = "me"
    LocalIp = "ipMe"
    Frames <- MCFrames
    Ports = {1}
    CountLimits = {0, 1}
    ChunkBytes = 64
    NumMbufs = 3
    RxRing = 2
    TxRing = 1
    BurstSize = 2
    MaxFrames = 3
    MaxSessions = 2
    MaxSettings = 1
INVARIANTS
    TypeOK
    MbufsAccounted
    RecordsAreSent
    RepliesReachAsker
CHECK_DEADLOCK FALSE
