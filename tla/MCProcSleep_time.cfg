SPECIFICATION SleepSpec
CONSTANTS
    MAX_PROC = 4
    TickModulus = 26
    SchedPeriod = 2
    Durations <- MCDurations
    Killable <- MCMiddle
    MallocFails = FALSE
    OpenWindows = {}
CONSTRAINT BeforeOverflow
INVARIANTS
    RunningIsOnCpu
    ContextsOwned
    SleepsLongEnough
    SleepsNotTooLong
PROPERTIES
    IdleOnlyWithoutWork
    TerminatedStaysDead
    ImplementsMultitask
