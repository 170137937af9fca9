CONSTANTS
    r1 = r1
    r2 = r2
    e1 = e1
    e2 = e2
    e3 = e3
    Requests = {r1}
    Payloads <- Pair
    Subscribers = {}
    TriageCap = 1
    DLQCap = 1
    Startups <- WithClickHouse
SPECIFICATION FairSpec
CHECK_DEADLOCK FALSE
PROPERTY UnreachableRoutesToDLQ
