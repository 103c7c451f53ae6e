SPECIFICATION FairSpec
CONSTANTS
    Period = 2
    ExitAfter = 2
    StaleAfter = 1
    MaxDrops = 2
    MaxTime = 6
INVARIANTS
    NoTickLost
PROPERTIES
    WholeBars
    ShutdownEnds
CHECK_DEADLOCK FALSE
