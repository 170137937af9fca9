CONSTANTS
    Tenants = {acme, globex}
    Tokens = {t1, t2}
    Endpoints = {e1, e2}
    Requests = {r1, r2}
    MaxUses = {1}
    MaxGeneration = 1
    NoHeader = NoHeader
SPECIFICATION Spec
SYMMETRY Symmetry
INVARIANT UsesCountEnrollments
INVARIANT OvershootBounded
INVARIANT RevokedForGood
