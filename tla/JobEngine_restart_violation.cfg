\* start() is called while a stop() waits for the active jobs.
CONSTANTS
    lowA = lowA
    lowB = lowB
    high = high
    s1 = s1
    s2 = s2
    None = None
    Jobs = {lowA, high}
    Priority <- MCPriority
    MaxConcurrency = 1
    Stoppers = {s1, s2}
    MaxSubmits = 2
    Resubmission = FALSE
    Restart = TRUE
    BusMayThrow = FALSE
SPECIFICATION FairSpec
PROPERTIES
    StopReturns
CHECK_DEADLOCK FALSE
