\* Two requests and a stream over two ids: some two of them share one.
CONSTANTS
    e1 = e1
    e2 = e2
    s1 = s1
    i1 = i1
    i2 = i2
    None = None
    Executes = {e1, e2}
    Streams = {s1}
    Ids = {i1, i2}
    MaxRetries = 1
    MaxChunks = 1
SPECIFICATION FairSpec
INVARIANTS
    CancelFinds
    FailedOnce
PROPERTIES
    StopsInTime
CHECK_DEADLOCK FALSE
