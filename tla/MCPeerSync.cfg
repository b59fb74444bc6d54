CONSTANTS
    Conns       = {1, 2}
    Span        = 2
    Lag         = 1
    PeerHead    <- MCPeerHead
    PeerLib     <- MCPeerLib
    MaxFaults   = 1
    MaxQueue    = 1
SPECIFICATION Spec
CHECK_DEADLOCK FALSE
INVARIANTS
    Consistent
PROPERTIES CatchesUpOrStranded
