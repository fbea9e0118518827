SPECIFICATION LiveSpec
CONSTANTS
    Sync = {s1}
    Manual = {m1}
    Watched = {s1}
    Writer = Writer
    None = None
    Fast = Fast
    Shutdown = Shutdown
    Capacity = 1
    PlanLen = 1
    MaxSubmitted = 1
    Faults = {"session", "inputWorker", "guardian"}
INVARIANTS OneVerdict
PROPERTIES FailStop CallerReturns StopReachesWriter
CHECK_DEADLOCK FALSE
