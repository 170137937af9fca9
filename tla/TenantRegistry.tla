--------------------------- MODULE TenantRegistry ---------------------------
(***************************************************************************)
(* MemoryRegistry.FetchConfig of core-ingest/tenant_registry.go: a map of  *)
(* configurations with a time to live, read under the read lock, checked   *)
(* again and refilled from PostgreSQL under the write lock.                *)
(*                                                                         *)
(* The refill is not instantaneous: the row is read at one time and        *)
(* UpdatedAt is stamped when the answer has arrived.  The read section is  *)
(* one step, so the lock is the caller that holds it for writing.          *)
(***************************************************************************)
EXTENDS Naturals, FiniteSets

CONSTANTS
    Tenants,     \* tenant ids
    Callers,     \* goroutines that call FetchConfig
    MaxVersion,  \* bound: changes of one tenant's row
    TTL,         \* ttlTime in ticks (five minutes in main)
    MaxQuery,    \* the longest a query's answer takes, in ticks
    NoOne        \* the lock is free

ASSUME RegistryAssumption ==
    /\ TTL \in Nat \ {0} /\ MaxQuery \in Nat /\ MaxVersion \in Nat
    /\ NoOne \notin Callers

VARIABLES
    registry,    \* the table (as in TenantLookup)
    age,         \* history (as in TenantLookup)
    call,        \* caller -> where FetchConfig is
    lock,        \* the caller that holds mr.Lock
    cache        \* tenant -> cached version and time since UpdatedAt

vars == <<registry, age, call, lock, cache>>

-----------------------------------------------------------------------------
\* A cached configuration is served while time.Since(UpdatedAt) < TTL, and it
\* was read from the table at most MaxQuery before UpdatedAt.
MaxAge == TTL - 1 + MaxQuery

Versions == 0 .. MaxVersion

NoEntry == [at |-> "none"]
Entry(v, t) == [at |-> "cached", version |-> v, since |-> t]

Idle == [at |-> "idle"]
Looking(x) == [at |-> "lookup", tenant |-> x]
Locking(x) == [at |-> "locking", tenant |-> x]
Querying(x) == [at |-> "query", tenant |-> x]
Storing(x, v, t) == [at |-> "store", tenant |-> x, version |-> v, since |-> t]
Refused == [at |-> "refused"]
Answered(x, v) == [at |-> "answered", tenant |-> x, version |-> v]

Init ==
    /\ registry = [x \in Tenants |-> [version |-> 0, holds |-> "nothing"]]
    /\ age = [x \in Tenants |-> [v \in Versions |-> 0]]
    /\ call = [c \in Callers |-> Idle]
    /\ lock = NoOne
    /\ cache = [x \in Tenants |-> NoEntry]

-----------------------------------------------------------------------------
(* FetchConfig.                                                              *)

Ask(c, x) ==
    /\ call[c] = Idle
    /\ call' = [call EXCEPT ![c] = Looking(x)]
    /\ UNCHANGED <<registry, age, lock, cache>>

\* Mutant: an entry is served one tick too long.
FreshOffByOne(x) == cache[x].at = "cached" /\ cache[x].since <= TTL

Fresh(x) == cache[x].at = "cached" /\ cache[x].since < TTL

\* RLock, read, RUnlock.
FastPath(c) ==
    /\ call[c].at = "lookup"
    /\ lock = NoOne
    /\ LET x == call[c].tenant
       IN call' = [call EXCEPT ![c] =
              IF Fresh(x) THEN Answered(x, cache[x].version) ELSE Locking(x)]
    /\ UNCHANGED <<registry, age, lock, cache>>

\* Mutant: the read lock is taken for the refill.
SlowPathShared(c) ==
    /\ call[c].at = "locking"
    /\ LET x == call[c].tenant
       IN call' = [call EXCEPT ![c] =
              IF Fresh(x) THEN Answered(x, cache[x].version) ELSE Querying(x)]
    /\ UNCHANGED <<registry, age, lock, cache>>

\* Lock and the second look at the map; the lock is kept for the query.
SlowPath(c) ==
    /\ call[c].at = "locking"
    /\ lock = NoOne
    /\ LET x == call[c].tenant
       IN IF Fresh(x)
          THEN /\ call' = [call EXCEPT ![c] = Answered(x, cache[x].version)]
               /\ UNCHANGED lock
          ELSE /\ call' = [call EXCEPT ![c] = Querying(x)]
               /\ lock' = c
    /\ UNCHANGED <<registry, age, cache>>

\* The row as the query sees it, or a connection error.
QueryRow(c) ==
    /\ call[c].at = "query"
    /\ LET x == call[c].tenant
       IN \/ /\ registry[x].holds = "config"
             /\ call' = [call EXCEPT ![c] = Storing(x, registry[x].version, 0)]
             /\ UNCHANGED lock
          \/ /\ call' = [call EXCEPT ![c] = Refused]
             /\ lock' = NoOne
    /\ UNCHANGED <<registry, age, cache>>

\* Mutant: the unlock is forgotten on the way out.
StoreKeepsLock(c) ==
    /\ call[c].at = "store"
    /\ LET x == call[c].tenant
           v == call[c].version
       IN /\ cache' = [cache EXCEPT ![x] = Entry(v, 0)]
          /\ call' = [call EXCEPT ![c] = Answered(x, v)]
    /\ UNCHANGED <<registry, age, lock>>

\* UpdatedAt: time.Now(), the store, the deferred Unlock.
Store(c) ==
    /\ call[c].at = "store"
    /\ LET x == call[c].tenant
           v == call[c].version
       IN /\ cache' = [cache EXCEPT ![x] = Entry(v, 0)]
          /\ call' = [call EXCEPT ![c] = Answered(x, v)]
    /\ lock' = NoOne
    /\ UNCHANGED <<registry, age>>

Return(c) ==
    /\ call[c].at \in {"answered", "refused"}
    /\ call' = [call EXCEPT ![c] = Idle]
    /\ UNCHANGED <<registry, age, lock, cache>>

-----------------------------------------------------------------------------
(* The table and the clock.                                                  *)

Change(x, holds) ==
    /\ registry[x].version < MaxVersion
    /\ registry' = [registry EXCEPT ![x] =
            [version |-> registry[x].version + 1, holds |-> holds]]
    /\ UNCHANGED <<age, call, lock, cache>>

Older(x, v) ==
    IF v < registry[x].version /\ age[x][v] <= MaxAge THEN age[x][v] + 1 ELSE age[x][v]

\* A query's answer arrives before it is older than MaxQuery.
Tick ==
    /\ \A c \in Callers : call[c].at = "store" => call[c].since < MaxQuery
    /\ age' = [x \in Tenants |-> [v \in Versions |-> Older(x, v)]]
    /\ call' = [c \in Callers |->
            IF call[c].at = "store" THEN [call[c] EXCEPT !.since = @ + 1] ELSE call[c]]
    /\ cache' = [x \in Tenants |->
            IF cache[x].at = "cached" /\ cache[x].since < TTL
            THEN [cache[x] EXCEPT !.since = @ + 1] ELSE cache[x]]
    /\ UNCHANGED <<registry, lock>>

FetchConfig(c) == FastPath(c) \/ SlowPath(c) \/ QueryRow(c) \/ Store(c) \/ Return(c)

Next ==
    \/ Tick
    \/ \E x \in Tenants, h \in {"nothing", "config", "malformed"} : Change(x, h)
    \/ \E c \in Callers : FetchConfig(c) \/ \E x \in Tenants : Ask(c, x)

Spec == Init /\ [][Next]_vars

\* Queries return, and sync.RWMutex admits every waiter in the end.
Fairness ==
    \A c \in Callers :
        /\ WF_vars(QueryRow(c) \/ Store(c) \/ Return(c))
        /\ SF_vars(FastPath(c)) /\ SF_vars(SlowPath(c))

FairSpec == Spec /\ Fairness

-----------------------------------------------------------------------------
(* Properties.                                                               *)

\* To the caller FetchConfig is a lookup that may lag: its steps between the
\* first read of the map and the answer are invisible.
AbstractCall(c) ==
    IF call[c].at \in {"lookup", "locking", "query", "store"}
    THEN [at |-> "asking", tenant |-> call[c].tenant] ELSE call[c]

Lookup == INSTANCE TenantLookup WITH call <- [c \in Callers |-> AbstractCall(c)]

\* FetchConfig implements TenantLookup: a configuration that was replaced or
\* deleted in the table is not served for longer than the time to live plus
\* the time its query took.
ImplementsLookup == Lookup!Spec

\* The cached version never goes back, although a query's answer may be older
\* than the row by the time it is stored.
CacheMovesForward ==
    [][\A x \in Tenants : cache[x].at = "cached" =>
          cache'[x].at = "cached" /\ cache'[x].version >= cache[x].version]_vars

\* Every lookup ends, whoever else is refilling the map.
LookupEnds == \A c \in Callers : call[c].at = "lookup" ~> call[c].at \in {"answered", "refused"}
=============================================================================
