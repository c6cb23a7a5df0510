\* Two messages published, two subscriptions.
CONSTANTS
    m1 = m1
    m2 = m2
    urgent = urgent
    r1 = r1
    r2 = r2
    r3 = r3
    h1 = h1
    h2 = h2
    h3 = h3
    k1 = k1
    k2 = k2
    None = None
    Msgs = {m1, m2}
    Requests = {}
    Timed = {}
    Handlers = {h1, h2}
    MaxRetries = 1
    PriorityOf <- MCPriority
    CorrelationOf <- MCCorrelation
SPECIFICATION Spec
INVARIANTS
    ReceivedOnce
CHECK_DEADLOCK FALSE
