SPECIFICATION Spec
CONSTANTS
    Heads = {h1}
    h1 = h1
    Modes = {"engine", "replay"}
    Moves <- MCMoves
    Atrs = {4, 16}
    Distances = {4}
    Ratios = {5}
    SignalDirs = {"Buy", "Sell"}
    MinRr = 2
    StepsPerLot = 2
    BaseRisk = 6000
    MaxPositions = 2
    PipsPerUnit = 1
    MaxDdBp = 100
    LossHalt = 2
    BarsPerDay = 1
    MaxBars = 4
    MaxSignals = 2
    MaxOrders = 3
    HalfSpread = 1
    Slip = 1
    Commission = 1
    StartBalance = 1000
    BreakevenAtR <- MCBreakevenAtR
    PartialAtR <- MCPartialAtR
    TimeExitMinR <- MCTimeExitMinR
    TimeExit = 2
    TrailMult = 1
    Retrace <- MCRetrace
    MaPeriod = 2
    DeepPct = 2
    MaxRolling = 3
    MinTrades = 2
    ExpectedWinPct = 50
    AlertDelta = 12
    HaltDelta = 20
    HaltR <- MCHaltR
    SlipAlert = FALSE
    Unproven = 2
    LedgerMid = 2
    LedgerFull = 3
    SegmentLosses = 2
    PauseAfter = 2
    MaxHistory = 5
    MaxLot = 5
CHECK_DEADLOCK FALSE
INVARIANTS
    LedgerAgrees
    BooksAgree
PROPERTIES
    StopTightens
    NothingOpensWhilePaused
