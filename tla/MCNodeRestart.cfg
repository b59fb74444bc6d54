CONSTANTS
    Block   <- MCBlock
    Genesis = 0
    Prev    <- MCPrev
    Num     <- MCNum
    Lib     <- MCLib
    Bad     <- MCBad
    Modes   = {"speculative", "irreversible"}
    Period  = 2
    LogMayFill = TRUE
SPECIFICATION Spec
PROPERTIES
    LogNeverForks
    CleanRestart
    RecoversByReplay
