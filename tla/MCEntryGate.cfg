SPECIFICATION Spec
SYMMETRY Symmetry
CONSTANTS
    h1 = h1
    h2 = h2
    h3 = h3
    scalp = scalp
    buy = buy
    sell = sell
    Dirs = {buy, sell}
    Heads <- MCHeads
    ScalpHeads <- MCScalpHeads
    NewsHeads = {}
    Firms <- MCFirms
    NewsTradingAllowed = TRUE
    MaxPositions = 5
    BaseRiskPct = 200
    MaxLayers = 1
    BlackoutWindows <- MCBlackoutWindows
    Shapes <- MCShapes
    Spreads = {0}
    TypicalSpread = 12
    PipsPerUnit = 10000
    BarSecs = 60
    Step = 60
    MaxTime = 240
    MaxFills = 3
    MaxRestarts = 1
CHECK_DEADLOCK FALSE
INVARIANTS
    HedgeNeedsLoss
    ClusterKept
    PacingKept
    IdeaCapped
