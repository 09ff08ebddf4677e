CONSTANTS
    p1 = p1
    p2 = p2
    Peers <- MCPeers
    NodeIds = {1, 2, 3}
    Requests <- MCRequestsValid
    UndefCmds = {"GARBAGE"}
    MAX_NODE_WHOLE_PARKING_LOT = 2
    MaxRequests = 3
    MaxTestReports = 1
SPECIFICATION Spec
INVARIANTS
    TypeOK
PROPERTIES
    ImplementsSession
