SPECIFICATION StoreSpec
CONSTANTS
    Timeframes <- OutageTimeframes
    Seconds <- OutageSeconds
    Market <- OutageMarket
    HourLen = 1
    DayLen = 1
    LastDay = 10
    Weekday <- OutageWeekday
    FetchLists <- Nothing
    Directories <- OutageDirectories
    Derivations <- OutageDerivations
    Aggregations <- Nothing
    CleaningLists <- Nothing
    VolumeWindow = 2
    MaxCluster = 2
    MinHistory = 2
    MaxCommands = 3
INVARIANTS
    PassedHasNoHole
CHECK_DEADLOCK FALSE
