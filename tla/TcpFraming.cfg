CONSTANTS
    p1 = p1
    p2 = p2
    Peers <- MCPeers
    Requests <- MCRequests
    DEV_ID <- MCDevId
    MAX_TCP_CONNECT = 1
    MAX_TCP_DATA_LENGTH = 32
    Cuts = {12, 13}
    CloseMidCommand = FALSE
SPECIFICATION Spec
CHECK_DEADLOCK FALSE
INVARIANTS
    TypeOK
PROPERTIES
    CrcMatchesReference
    LoraCrcRoundTrip
    EveryFrameAnalysed
