CONSTANTS
    Block   <- MCBlock
    Genesis = 0
    Prev    <- MCPrev
    Num     <- MCNum
    Lib     <- MCLib
    Bad     = {8}
    Own     <- MCOwn
    Modes   = {"speculative"}
    LogMayFill = TRUE
SPECIFICATION Spec
CHECK_DEADLOCK FALSE
INVARIANTS
    Consistent
    AssertionsHold
    PublishedOnPublished
    StopsOnPublished
PROPERTIES
    TrackerIsReleased
