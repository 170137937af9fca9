---------------------------- MODULE TenantLookup ----------------------------
(***************************************************************************)
(* What FetchConfig promises its caller, without cache or lock: a lookup   *)
(* of a tenant is refused, or answers with a configuration that the        *)
(* tenant_registry table held no more than MaxAge ago.                     *)
(***************************************************************************)
EXTENDS Naturals

CONSTANTS
    Tenants,     \* tenant ids
    Callers,     \* goroutines that call FetchConfig
    MaxVersion,  \* bound: changes of one tenant's row
    MaxAge       \* the most a served configuration may lag behind the table

VARIABLES
    registry,    \* tenant -> its row: a version number and what the row holds
    age,         \* tenant -> version -> time since the row last had that version
    call         \* caller -> its lookup

vars == <<registry, age, call>>

-----------------------------------------------------------------------------
Versions == 0 .. MaxVersion

Idle == [at |-> "idle"]
Asking(x) == [at |-> "asking", tenant |-> x]
Refused == [at |-> "refused"]
Answered(x, v) == [at |-> "answered", tenant |-> x, version |-> v]

Init ==
    /\ registry = [x \in Tenants |-> [version |-> 0, holds |-> "nothing"]]
    /\ age = [x \in Tenants |-> [v \in Versions |-> 0]]
    /\ call = [c \in Callers |-> Idle]

\* The row is inserted, changed or deleted by the backend or an operator.
Change(x, holds) ==
    /\ registry[x].version < MaxVersion
    /\ registry' = [registry EXCEPT ![x] =
            [version |-> registry[x].version + 1, holds |-> holds]]
    /\ UNCHANGED <<age, call>>

\* Time passes for the versions the table no longer holds.
Older(x, v) ==
    IF v < registry[x].version /\ age[x][v] <= MaxAge THEN age[x][v] + 1 ELSE age[x][v]

Tick ==
    /\ age' = [x \in Tenants |-> [v \in Versions |-> Older(x, v)]]
    /\ UNCHANGED <<registry, call>>

Ask(c, x) ==
    /\ call[c] = Idle
    /\ call' = [call EXCEPT ![c] = Asking(x)]
    /\ UNCHANGED <<registry, age>>

Answer(c, v) ==
    /\ call[c].at = "asking"
    /\ v <= registry[call[c].tenant].version
    /\ age[call[c].tenant][v] <= MaxAge
    /\ call' = [call EXCEPT ![c] = Answered(call[c].tenant, v)]
    /\ UNCHANGED <<registry, age>>

Refuse(c) ==
    /\ call[c].at = "asking"
    /\ call' = [call EXCEPT ![c] = Refused]
    /\ UNCHANGED <<registry, age>>

Return(c) ==
    /\ call[c].at \in {"answered", "refused"}
    /\ call' = [call EXCEPT ![c] = Idle]
    /\ UNCHANGED <<registry, age>>

Next ==
    \/ Tick
    \/ \E x \in Tenants, h \in {"nothing", "config", "malformed"} : Change(x, h)
    \/ \E c \in Callers :
         \/ \E x \in Tenants : Ask(c, x)
         \/ \E v \in Versions : Answer(c, v)
         \/ Refuse(c) \/ Return(c)

Spec == Init /\ [][Next]_vars
=============================================================================
