SPECIFICATION Spec
SYMMETRY HeadSymmetry
CONSTANTS
    Heads = {h1, h2}
    MaxPositions = 2
    MaxLayers = 1
    MaxIds = 3
    MaxCuts = 1
CHECK_DEADLOCK FALSE
INVARIANTS
    StoppedBookIsFlat
PROPERTIES
    NoNewExposure
    OrphansReported
