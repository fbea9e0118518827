SPECIFICATION FairDialogSpec
CONSTANTS
    Keys <- OneKey
    Owners = {o1, o2}
    Window = o1
    NoLease = NoLease
    SoftLease = 2
    AbsoluteLease = 3
    MaxTime = 3
    MaxStarts = 1
    MaxLoads = 1
    MaxSignals = 1
    MaxEvents = 1
INVARIANT HeartbeatHasDialog
PROPERTIES LendsTheKeyboard CaptureEnds
CHECK_DEADLOCK FALSE
