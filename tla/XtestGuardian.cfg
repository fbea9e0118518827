SPECIFICATION LiveSpec
CONSTANTS
    shift = shift
    a = a
    None = None
    Modifiers = {shift}
    Letters = {a}
    Script <- OneScript
    Order <- OneModifier
    MaxOperations = 2
    MaxLosses = 1
    MaxXErrors = 1
    MaxCancels = 1
    MAX_ACTIVE_DEBTS = 2
INVARIANTS NoOrphanKey FramesAreExact
PROPERTY LostKeysComeUp
CHECK_DEADLOCK FALSE
