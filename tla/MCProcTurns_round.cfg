SPECIFICATION FairTurnsSpec
CONSTANTS
    MAX_PROC = 4
    TickModulus = 3
    SchedPeriod = 2
    Durations <- MCDurations
    Killable <- MCMiddle
    MallocFails = FALSE
    OpenWindows = {}
    ExitOpensRound = TRUE
PROPERTIES
    RoundRobin
    StarvationFree
