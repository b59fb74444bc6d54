CONSTANTS
    Block   <- MCBlock
    Genesis = 0
    Prev    <- MCPrev
    Num     <- MCNum
    Lib     <- MCLib
SPECIFICATION ImplSpec
INVARIANTS
    TypeOK
    NoOrphans
    HeadIsBest
    PendingHeadIsBest
    ValidBranches
    LoopsExact
    FileCanBeOpened
PROPERTIES
    AdvanceKeepsDescendants
    CloseOpenInvisible
