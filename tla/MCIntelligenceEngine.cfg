CONSTANTS
    Tenants = {acme, globex}
    Requests = {r1, r2}
    Batches <- Mixed
    None = None
    Environments = {"development", "production"}
    BusSize = 3
    WindowSize = 3
    WarningThreshold = 3
    CriticalThreshold = 2
    Cooldown = 2
    MaxTime = 3
    MaxPushes = 3
SPECIFICATION FairSpec
CHECK_DEADLOCK FALSE
INVARIANT WindowIsRecentHistory
 
PROPERTY QueueDrains
