CONSTANTS
    p = p
    q = q
    Node    = {p, q}
    Block   <- MCBlock
    Genesis = 0
    Prev    <- MCPrev
    Num     <- MCNum
    Lib     <- MCLib
    Bad     = {}
    Modes   = {"speculative"}
    Builder <- MCBuilder
    MaxTerm = 2
    First   = p
    Gossip  = TRUE
    Beyond  = FALSE
SPECIFICATION Spec
CHECK_DEADLOCK FALSE
INVARIANT CommittedIsAccepted
