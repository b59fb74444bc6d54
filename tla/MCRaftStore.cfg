CONSTANTS
    MaxIndex = 3
    MaxTerm = 2
    MaxSnapshot = 2
    Config = {1}
SPECIFICATION Spec
CHECK_DEADLOCK FALSE
INVARIANTS
    AckedSurvive
    HeadNotBehind
    Consistent
