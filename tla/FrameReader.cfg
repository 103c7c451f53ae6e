SPECIFICATION FairReaderSpec
CONSTANTS
    HeaderLen = 2
    BodyLens = {1, 3}
    Kinds = {"ok", "bad", "huge"}
    MaxFrames = 3
INVARIANTS
    HandledInOrder
PROPERTIES
    FramesArrive
CHECK_DEADLOCK FALSE
