SPECIFICATION FairSpec
CONSTANTS
    MaxSessions = 2
    MaxOrders = 2
    MaxCalls = 2
INVARIANTS
    OwnAnswer
    FillsAreReal
PROPERTIES
    NoBlindOrder
    CallsReturn
CHECK_DEADLOCK FALSE
