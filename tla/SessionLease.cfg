SPECIFICATION FairSpec
CONSTANTS
    Sessions = {s1, s2}
    Clients = {c1}
    None = None
    Ttl = 0
    MaxTime = 1
    MaxGeneration = 4
    MaxChanges = 2
CHECK_DEADLOCK FALSE
INVARIANTS
    LeaseIsGenuine
    ConfirmedRecently
PROPERTIES
    EndedSessionLosesAccess
