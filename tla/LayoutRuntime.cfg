SPECIFICATION LiveSpec
CONSTANTS
    None = None
    Setups <- MCSetups
    Contexts <- MCContexts
    MaxEvents = 2
INVARIANTS FreshLayoutWasShown GenerationNamesLayout
PROPERTY SnapshotCatchesUp
CHECK_DEADLOCK FALSE
