SPECIFICATION StopsSpec
CONSTANTS
    Cooldown = 2
    StreakLimit = 3
    DailyLimit = 20
    MaxLimit = 40
    ExternalReasons = {"DriftDetector", "TotalDD"}
    DdLevels = {0, 18, 19, 38}
    MaxLosses = 5
    MaxTime = 5
    Equities = {98, 99, 100, 101, 102}
    Boundaries = {2, 4}
    CruiseBp = 100
    ProtectBp = 200
    StopBp = 200
    DayEnd = 4
INVARIANTS
    CooldownOwnsResume
PROPERTIES
    CooldownEnds
    ImplementsLatch
