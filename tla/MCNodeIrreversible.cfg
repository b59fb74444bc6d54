CONSTANTS
    Block   <- MCBlock
    Genesis = 0
    Prev    <- MCPrev
    Num     <- MCNum
    Lib     <- MCLib
    Bad     <- MCBad
    Modes   = {"irreversible"}
    Period  = 2
    LogMayFill = FALSE
SPECIFICATION Spec
INVARIANTS
    IrreversibleHeadIsLib
    SnapshotConsistent
    Consistent
