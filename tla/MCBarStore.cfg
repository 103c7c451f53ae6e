SPECIFICATION StoreSpec
CONSTANTS
    Timeframes <- MCTimeframes
    Seconds <- MCSeconds
    Market <- MCMarket
    HourLen = 2
    DayLen = 6
    LastDay = 2
    Weekday <- MCWeekday
    FetchLists <- MCFetchLists
    Directories <- MCDirectories
    Derivations <- MCDerivations
    Aggregations <- MCAggregations
    CleaningLists <- MCCleaningLists
    VolumeWindow = 2
    MaxCluster = 2
    MinHistory = 2
    MaxCommands = 3
CHECK_DEADLOCK FALSE
INVARIANTS
    NoLookahead
PROPERTIES
    CleaningKeepsPrices
