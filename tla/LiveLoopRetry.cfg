SPECIFICATION FairSpec
CONSTANTS
    Heads = {h1}
    MaxPositions = 2
    MaxLayers = 1
    MaxIds = 1
    MaxCuts = 1
CHECK_DEADLOCK FALSE
PROPERTY FlattenRetried
