CONSTANTS
    r1 = r1
    r2 = r2
    e1 = e1
    e2 = e2
    e3 = e3
    Requests = {r1}
    Payloads <- Pair
    Subscribers = {s1, s2}
    TriageCap = 1
    DLQCap = 1
    Startups <- AllStartups
SPECIFICATION FairSpec
CHECK_DEADLOCK FALSE
 
PROPERTY PushAnswered
PROPERTY ShutdownCompletes
