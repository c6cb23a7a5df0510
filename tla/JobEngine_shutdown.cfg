\* Callers wait for stop() before start(); the bus is healthy; progress is fair.
CONSTANTS
    lowA = lowA
    lowB = lowB
    high = high
    s1 = s1
    s2 = s2
    None = None
    Jobs = {lowA, high}
    Priority <- MCPriority
    MaxConcurrency = 1
    Stoppers = {s1, s2}
    MaxSubmits = 2
    Resubmission = FALSE
    Restart = FALSE
    BusMayThrow = FALSE
SPECIFICATION FairSpec
INVARIANTS
    StoppedIsIdle
    NoUnhandledRejection
PROPERTIES
    StopReturns
    EveryJobEnds
    ImplementsFairService
CHECK_DEADLOCK FALSE
