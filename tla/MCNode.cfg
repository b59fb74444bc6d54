CONSTANTS
    Block   <- MCBlock
    Genesis = 0
    Prev    <- MCPrev
    Num     <- MCNum
    Lib     <- MCLib
    Bad     <- MCBad
    Modes   = {"speculative", "irreversible"}
    Period  = 2
    LogMayFill = TRUE
SPECIFICATION RunSpec
CHECK_DEADLOCK FALSE
INVARIANTS
    Consistent
    HeadIsBestKnown
    AssertionsHold
    ResumesAfterFailure
PROPERTIES
    ImplementsChain
    Converges
