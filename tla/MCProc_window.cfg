SPECIFICATION Spec
CONSTANTS
    MAX_PROC = 3
    TickModulus = 6
    SchedPeriod = 2
    Durations <- MCDurations
    Killable <- MCUsers
    MallocFails = FALSE
    OpenWindows = {"ctx_sw"}
INVARIANT
    ContextsOwned
ACTION_CONSTRAINT OneTickAtMost
