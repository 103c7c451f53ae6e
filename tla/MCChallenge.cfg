SPECIFICATION MCSpec
CONSTANTS
    RuleSets <- MCRuleSets
    Lists <- MCLists
    Symbols <- MCSymbols
    MaxPositions = 3
    BarCounts <- MCBarCounts
    Outcomes <- MCOutcomes
    TradeLists <- MCTradeLists
    BlockLength = 3
    NumPaths = 20
CHECK_DEADLOCK FALSE
INVARIANTS
    VerdictMatchesRules
    StagesApart
    FoldsApart
    RuinShows
