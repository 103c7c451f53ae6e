SPECIFICATION SwitchSpec
CONSTANTS
    Cooldown = 2
    StreakLimit = 3
    DailyLimit = 0
    MaxLimit = 40
    ExternalReasons = {"DriftDetector", "TotalDD"}
    DdLevels = {0, 18, 19, 38}
    MaxLosses = 5
    MaxTime = 5
INVARIANTS
    NoDailyRuleNoDailyStop
