\* One submission per job; start() may race a stop(), publishes may reject.
CONSTANTS
    lowA = lowA
    lowB = lowB
    high = high
    s1 = s1
    s2 = s2
    None = None
    Jobs = {lowA, lowB, high}
    Priority <- MCPriority
    MaxConcurrency = 2
    Stoppers = {s1}
    MaxSubmits = 3
    Resubmission = FALSE
    Restart = TRUE
    BusMayThrow = TRUE
SPECIFICATION Spec
INVARIANTS
    TypeOK
    ConcurrencyLimit
    OnePlace
    NoOvertaking
    BacklogHasWaker
PROPERTIES
    AbortIsHonoured
    FinalIsForever
    ImplementsService
CHECK_DEADLOCK FALSE
