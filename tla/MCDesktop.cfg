SPECIFICATION DesktopSpec
CONSTANTS
    Latest = 2
    MaxRuns = 2
    MaxOrphans = 1
    Labels = {"kimi", "openai"}
    MaxRemotes = 2
    MaxEdits = 3
    MaxRequests = 2
INVARIANTS
    CompletedIsWhole
    LiveIsEarned
    ModelResolves
PROPERTIES
    OwnDataKept
    UnlockIsADryRun
    AskedIsAnswered
CHECK_DEADLOCK FALSE
