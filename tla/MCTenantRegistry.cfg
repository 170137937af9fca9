CONSTANTS
    Tenants = {acme}
    Callers = {c1, c2, c3}
    MaxVersion = 2
    TTL = 2
    MaxQuery = 1
    NoOne = NoOne
SPECIFICATION FairSpec
PROPERTY ImplementsLookup
PROPERTY CacheMovesForward
PROPERTY LookupEnds
