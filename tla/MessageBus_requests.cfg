\* Two requests that share a correlation id; progress is fair.
CONSTANTS
    m1 = m1
    m2 = m2
    urgent = urgent
    r1 = r1
    r2 = r2
    r3 = r3
    h1 = h1
    h2 = h2
    h3 = h3
    k1 = k1
    k2 = k2
    None = None
    Msgs = {r1, r2}
    Requests = {r1, r2}
    Timed = {r1, r2}
    Handlers = {h1}
    MaxRetries = 1
    PriorityOf <- MCPriority
    CorrelationOf <- MCCorrelation
SPECIFICATION FairSpec
INVARIANTS
    RequestTable
PROPERTIES
    RequestsSettle
    DispatchesEnd
    BacklogDelivered
CHECK_DEADLOCK FALSE
