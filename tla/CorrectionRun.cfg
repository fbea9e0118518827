SPECIFICATION RunSpec
CONSTANTS
    Plans <- MCPlans
    Delays <- MCDelays
    Slow = {645, 1000}
    MaxEvents = 2
INVARIANTS
    TypedInTheRightLayout
      ScheduleIsEnough
CHECK_DEADLOCK FALSE
