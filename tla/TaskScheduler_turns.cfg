\* A task, a more urgent one that depends on it and is due only when users ask for it,
\* and a less urgent one that depends on both; one intervention or call of stop().
CONSTANTS
    parent = parent
    child = child
    hasty = hasty
    None = None
    Tasks = {parent, child, hasty}
    Deps <- MCDeps
    Priority <- MCPriority
    Manual = {hasty}
    MaxRetries = 1
    ConcurrentLimit = 1
    MaxQueueSize = 2
    MaxTicks = 2
    MaxCalls = 1
SPECIFICATION FairSpec
INVARIANTS
    TypeOK
    NoStrandedTask
    LimitExceededByOverlap
    OneExecution
PROPERTIES
    ImplementsService
    QueuedSettles
CHECK_DEADLOCK FALSE
