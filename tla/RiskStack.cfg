SPECIFICATION StackSpec
CONSTANTS
    Modes = {"static", "trailing", "trailing_locked_to_start", "eod_trailing"}
    Equities = {9400, 9600, 10000, 10700, 11400}
    MaxDd = 600
    DailyDd = 400
    Target = 600
    MinTradingDays = 2
    CruiseBp = 120
    ProtectBp = 200
    Boundaries = {3}
    Midnights = {2}
    Cooldown = 1
    StreakLimit = 2
    RefreshEvery = 2
    MaxLosses = 2
    LastTime = 4
INVARIANTS
    FloorTripsSwitch
    GateRespectsRules
CHECK_DEADLOCK FALSE
