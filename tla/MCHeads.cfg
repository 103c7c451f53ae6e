SPECIFICATION HeadsSpec
CONSTANTS
    SlotsPerDay = 12
    SlotsPerHour = 2
    DeadSlots = {11}
    AsianEnd = 4
    EntryEnd = 8
    London <- LondonSlots
    NewYork <- NewYorkSlots
    FirstBars = 2
    Warmup = 3
    MinRange = 30
    MaxRange = 160
    Buffer = 10
    Ready = 1
    MinSqueeze = 2
    FakeoutBars = 2
    NewsCool = 2
    ScalpCool = 2
    Half = 32
    ScalpSlots <- ScalpTime
    GridLevels = 2
    GridGap = 2
    Impulse = 2
    SmcBars = 4
    SmcGap = 2
    MaxZones = 2
    Lookback = 3
    MinProfile = 2
    Buckets = 4
    ProfileCool = 2
    Heads <- AllHeads
    Inputs <- BarsFor
    Starts <- FirstSlots
    MaxSlot <- LastSlot
INVARIANTS
    OneShot
    AheadOfPrice
    FakeoutAnswers
CHECK_DEADLOCK FALSE
