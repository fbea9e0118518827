SPECIFICATION Spec
CONSTANTS
    shift = shift
    ctrl = ctrl
    letter = letter
    None = None
    Modifiers = {shift, ctrl}
    Others = {letter}
    Order <- MCOrder
    Corrections <- MCCorrections
    Shortcuts <- MCShortcuts
    Separators <- MCSeparators
CHECK_DEADLOCK FALSE
INVARIANTS
    KeysAreAccountedFor
PROPERTIES
    SuccessRestores
    HardFailureOnlyReleases
