CONSTANTS
    Messages = 3
    Contents <- MCContents
    AckMode = "in_block"
    Rooms = {1}
    MaxDepth = 2
    Burst = 1
    MaxFaults = 1
SPECIFICATION Spec
INVARIANT AckedInBlock
