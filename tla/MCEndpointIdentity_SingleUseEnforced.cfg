CONSTANTS
    Tenants = {acme}
    Tokens = {t1}
    Endpoints = {e1, e2}
    Requests = {r1, r2}
    MaxUses = {1}
    MaxGeneration = 1
    NoHeader = NoHeader
SPECIFICATION Spec
INVARIANT SingleUseEnforced
