SPECIFICATION FairSpec
CONSTANTS
    None = None
    Keys <- MCKeys
    Profiles <- MCProfiles
    Combo = "CapsLock"
    SoftLimit = 2
    HardLimit = 4
    MaxWord = 2
INVARIANTS
    NoStuckKey
    WordIsOnScreen
PROPERTIES
    NothingOvertakesTheLedger
    FlowEnds
CHECK_DEADLOCK FALSE
