\* A message and an urgent request (its timer is the business of the other run), two
\* subscriptions, one retry.
CONSTANTS
    m1 = m1
    m2 = m2
    urgent = urgent
    r1 = r1
    r2 = r2
    r3 = r3
    h1 = h1
    h2 = h2
    h3 = h3
    k1 = k1
    k2 = k2
    None = None
    Msgs = {m1, urgent}
    Requests = {urgent}
    Timed = {}
    Handlers = {h1, h2}
    MaxRetries = 1
    PriorityOf <- MCPriority
    CorrelationOf <- MCCorrelation
SPECIFICATION Spec
SYMMETRY HandlerSymmetry
INVARIANTS
    TypeOK
    NoGhostEntries
    NothingLost
PROPERTIES
    ImplementsService
    BacklogInOrder
CHECK_DEADLOCK FALSE
