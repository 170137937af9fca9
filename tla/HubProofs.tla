------------------------------ MODULE HubProofs ------------------------------
(***************************************************************************)
(* Proofs about two services of the hub, for any values of the constants.  *)
(* The tenant registry: the cached version never goes back, and            *)
(* FetchConfig implements TenantLookup.  The agent chat: a message is the  *)
(* beginning of one answer, whatever the length of the answers, the rate   *)
(* limit and the number of queries.  Liveness stays with TLC.              *)
(***************************************************************************)
EXTENDS TenantRegistry, AgentChat, TLAPS

\* The provers a leaf is given when it names none, with time for a busy machine.
USE SMTT(30), ZenonT(30)

-----------------------------------------------------------------------------
(* The tenant registry.                                                      *)

Holds == {"nothing", "config", "malformed"}

Calls ==
    [at : {"idle", "refused"}]
    \cup [at : {"lookup", "locking", "query"}, tenant : Tenants]
    \cup [at : {"store"}, tenant : Tenants, version : Versions, since : Nat]
    \cup [at : {"answered"}, tenant : Tenants, version : Versions]

TypeOK ==
    /\ registry \in [Tenants -> [version : Versions, holds : Holds]]
    /\ age \in [Tenants -> [Versions -> Nat]]
    /\ call \in [Callers -> Calls]
    /\ cache \in [Tenants -> [at : {"none"}]
                     \cup [at : {"cached"}, version : Versions, since : Nat]]

\* The write lock is held from the second look at the map to the answer, by
\* that caller alone.
LockHeld == \A c \in Callers : call[c].at \in {"query", "store"} => lock = c

\* A version ages only once it has been replaced.
CurrentIsNew ==
    \A x \in Tenants, v \in Versions : v >= registry[x].version => age[x][v] = 0

\* What a query brought is no older than the time since the row was read, and
\* no older than what the map holds.
RowInHand(c) ==
    LET r == call[c]
    IN  /\ r.version <= registry[r.tenant].version
        /\ age[r.tenant][r.version] <= r.since
        /\ r.since <= MaxQuery
        /\ cache[r.tenant].at = "cached" => cache[r.tenant].version <= r.version

\* An entry the map still serves was read at most MaxQuery before UpdatedAt.
EntryAge(x) ==
    /\ cache[x].version <= registry[x].version
    /\ cache[x].since < TTL => age[x][cache[x].version] <= cache[x].since + MaxQuery

Inv ==
    /\ TypeOK
    /\ LockHeld
    /\ CurrentIsNew
    /\ \A c \in Callers : call[c].at = "store" => RowInHand(c)
    /\ \A x \in Tenants : cache[x].at = "cached" => EntryAge(x)

-----------------------------------------------------------------------------
LEMMA InitInv == Init => Inv
<1> SUFFICES ASSUME Init PROVE Inv
  OBVIOUS
<1> USE RegistryAssumption DEF Init, Idle, NoEntry, Versions
<1>1. TypeOK
  BY DEF TypeOK, Calls, Holds
<1>2. LockHeld /\ CurrentIsNew
  BY DEF LockHeld, CurrentIsNew
<1> QED
  BY <1>1, <1>2 DEF Inv

LEMMA VersionsAreNaturals == Versions \subseteq Nat
BY RegistryAssumption DEF Versions

\* What a call that has a row in hand consists of.
LEMMA StoringFields ==
    ASSUME NEW r \in Calls, r.at = "store"
    PROVE  r.tenant \in Tenants /\ r.version \in Versions /\ r.since \in Nat
BY DEF Calls

\* A step that leaves the table, the ages and the map alone, and moves one
\* caller to a state without a row in hand, keeps the invariant.
LEMMA CallerMoves ==
    ASSUME Inv, NEW c \in Callers, NEW r \in Calls,
           call' = [call EXCEPT ![c] = r], r.at # "store",
           UNCHANGED <<registry, age, cache>>, LockHeld'
    PROVE  Inv'
<1>1. TypeOK'
  BY DEF Inv, TypeOK
<1>2. CurrentIsNew'
  BY DEF Inv, CurrentIsNew
<1>3. \A d \in Callers : (call[d].at = "store" => RowInHand(d))'
  BY DEF Inv, TypeOK, RowInHand
<1>4. \A x \in Tenants : (cache[x].at = "cached" => EntryAge(x))'
  BY DEF Inv, EntryAge
<1> QED
  BY <1>1, <1>2, <1>3, <1>4 DEF Inv

LEMMA AskInv == ASSUME Inv, NEW c \in Callers, NEW x \in Tenants, Ask(c, x) PROVE Inv'
<1>1. Looking(x) \in Calls /\ Looking(x).at = "lookup"
  BY DEF Looking, Calls
<1>2. LockHeld'
  BY <1>1 DEF Inv, TypeOK, LockHeld, Ask
<1> QED
  BY <1>1, <1>2, CallerMoves, ZenonT(30) DEF Ask

LEMMA FastPathInv == ASSUME Inv, NEW c \in Callers, FastPath(c) PROVE Inv'
<1> DEFINE x == call[c].tenant
           r == IF Fresh(x) THEN Answered(x, cache[x].version) ELSE Locking(x)
<1>1. x \in Tenants
  BY DEF Inv, TypeOK, Calls, FastPath
<1>2. r \in Calls /\ r.at \in {"answered", "locking"}
  BY <1>1 DEF Inv, TypeOK, Calls, Fresh, Answered, Locking
<1>3. call' = [call EXCEPT ![c] = r] /\ UNCHANGED <<registry, age, lock, cache>>
  BY DEF FastPath
<1> HIDE DEF r
<1>4. LockHeld'
  BY <1>2, <1>3 DEF Inv, TypeOK, LockHeld
<1> QED
  BY <1>2, <1>3, <1>4, CallerMoves, ZenonT(30)

LEMMA SlowPathInv == ASSUME Inv, NEW c \in Callers, SlowPath(c) PROVE Inv'
<1> DEFINE x == call[c].tenant
           r == IF Fresh(x) THEN Answered(x, cache[x].version) ELSE Querying(x)
<1>1. x \in Tenants
  BY DEF Inv, TypeOK, Calls, SlowPath
<1>2. r \in Calls /\ r.at \in {"answered", "query"}
  BY <1>1 DEF Inv, TypeOK, Calls, Fresh, Answered, Querying
<1>3. call' = [call EXCEPT ![c] = r] /\ UNCHANGED <<registry, age, cache>>
  BY DEF SlowPath
<1>4. lock = NoOne /\ lock' = IF r.at = "query" THEN c ELSE NoOne
  BY DEF SlowPath, Answered, Querying
<1> HIDE DEF r
<1>5. LockHeld'
  BY <1>2, <1>3, <1>4, RegistryAssumption DEF Inv, TypeOK, LockHeld
<1> QED
  BY <1>2, <1>3, <1>5, CallerMoves, ZenonT(30)

LEMMA ReturnInv == ASSUME Inv, NEW c \in Callers, Return(c) PROVE Inv'
<1>1. Idle \in Calls /\ Idle.at = "idle"
  BY DEF Idle, Calls
<1>2. LockHeld'
  BY <1>1 DEF Inv, TypeOK, LockHeld, Return
<1> QED
  BY <1>1, <1>2, CallerMoves, ZenonT(30) DEF Return

LEMMA QueryRowInv == ASSUME Inv, NEW c \in Callers, QueryRow(c) PROVE Inv'
<1> DEFINE x == call[c].tenant
           r == Storing(x, registry[x].version, 0)
<1>1. x \in Tenants /\ lock = c
  BY DEF Inv, TypeOK, LockHeld, Calls, QueryRow
<1>2. CASE call' = [call EXCEPT ![c] = r] /\ lock' = lock
  <2>1. /\ r \in Calls /\ r.at = "store" /\ r.tenant = x
        /\ r.version = registry[x].version /\ r.since = 0
    BY <1>1 DEF Inv, TypeOK, Calls, Storing
  <2> HIDE DEF r
  <2>2. UNCHANGED <<registry, age, cache>>
    BY DEF QueryRow
  <2>3. TypeOK'
    BY <1>2, <2>1, <2>2 DEF Inv, TypeOK
  <2>4. LockHeld' /\ CurrentIsNew'
    BY <1>1, <1>2, <2>1, <2>2 DEF Inv, TypeOK, LockHeld, CurrentIsNew
  <2>5. RowInHand(c)'
    <3>1. age[x][registry[x].version] = 0
      BY <1>1 DEF Inv, TypeOK, CurrentIsNew, Versions
    <3>2. cache[x].at = "cached" => cache[x].version <= registry[x].version
      BY <1>1 DEF Inv, EntryAge
    <3>3. registry[x].version \in Nat /\ call'[c] = r
      BY <1>1, <1>2 DEF Inv, TypeOK, Versions
    <3> QED
      BY <2>1, <2>2, <3>1, <3>2, <3>3, RegistryAssumption DEF RowInHand
  <2>6. \A d \in Callers : (call[d].at = "store" => RowInHand(d))'
    BY <1>2, <2>2, <2>5 DEF Inv, TypeOK, RowInHand
  <2>7. \A y \in Tenants : (cache[y].at = "cached" => EntryAge(y))'
    BY <2>2 DEF Inv, EntryAge
  <2> QED
    BY <2>3, <2>4, <2>6, <2>7 DEF Inv
<1>3. CASE call' = [call EXCEPT ![c] = Refused] /\ lock' = NoOne
  <2>1. Refused \in Calls /\ Refused.at = "refused"
    BY DEF Refused, Calls
  <2>2. LockHeld'
    BY <1>1, <1>3, <2>1 DEF Inv, TypeOK, LockHeld
  <2> QED
    BY <1>3, <2>1, <2>2, CallerMoves, ZenonT(30) DEF QueryRow
<1> QED
  BY <1>2, <1>3 DEF QueryRow

LEMMA StoreInv == ASSUME Inv, NEW c \in Callers, Store(c) PROVE Inv'
<1> DEFINE x == call[c].tenant
           v == call[c].version
<1>1. /\ x \in Tenants /\ v \in Versions /\ lock = c /\ call[c].since \in Nat
      /\ RowInHand(c)
  BY DEF Inv, TypeOK, LockHeld, Calls, Store
<1>2. Answered(x, v) \in Calls /\ Answered(x, v).at = "answered"
  BY <1>1 DEF Calls, Answered
<1>3. /\ call' = [call EXCEPT ![c] = Answered(x, v)]
      /\ cache' = [cache EXCEPT ![x] = Entry(v, 0)]
      /\ UNCHANGED <<registry, age>>
  BY DEF Store
<1>4. TypeOK'
  BY <1>1, <1>2, <1>3 DEF Inv, TypeOK, Entry
<1>5. \A d \in Callers : call'[d].at \notin {"query", "store"}
  BY <1>1, <1>2, <1>3 DEF Inv, TypeOK, LockHeld
<1>6. LockHeld' /\ CurrentIsNew'
  BY <1>3, <1>5 DEF Inv, LockHeld, CurrentIsNew
<1>7. ASSUME NEW y \in Tenants, cache'[y].at = "cached" PROVE EntryAge(y)'
  <2>1. CASE y = x
    <3>1. cache'[y].version = v /\ cache'[y].since = 0
      BY <1>1, <1>3, <2>1 DEF Inv, TypeOK, Entry
    <3>2. age[x][v] <= 0 + MaxQuery /\ v <= registry[x].version
      BY <1>1, RegistryAssumption DEF RowInHand, Inv, TypeOK, Versions
    <3> QED
      BY <1>3, <2>1, <3>1, <3>2 DEF EntryAge
  <2>2. CASE y # x
    BY <1>3, <1>7, <2>2 DEF Inv, TypeOK, EntryAge
  <2> QED
    BY <2>1, <2>2
<1> QED
  BY <1>4, <1>5, <1>6, <1>7 DEF Inv

LEMMA ChangeInv ==
    ASSUME Inv, NEW x \in Tenants, NEW h \in Holds, Change(x, h) PROVE Inv'
<1>1. /\ registry[x].version \in Nat /\ registry[x].version < MaxVersion
      /\ registry' = [registry EXCEPT ![x] = [version |-> registry[x].version + 1, holds |-> h]]
      /\ UNCHANGED <<age, call, lock, cache>>
  BY DEF Inv, TypeOK, Versions, Change
<1>2. TypeOK'
  BY <1>1, RegistryAssumption DEF Inv, TypeOK, Versions
<1>3. \A y \in Tenants : registry'[y].version >= registry[y].version
  BY <1>1 DEF Inv, TypeOK, Versions
<1>4. LockHeld' /\ CurrentIsNew'
  BY <1>1, <1>2, <1>3 DEF Inv, TypeOK, LockHeld, CurrentIsNew, Versions
<1>5. ASSUME NEW d \in Callers, call'[d].at = "store" PROVE RowInHand(d)'
  <2>1. RowInHand(d) /\ call[d].tenant \in Tenants /\ call[d].version \in Nat
    BY <1>1, <1>5, StoringFields, VersionsAreNaturals, ZenonT(30) DEF Inv, TypeOK
  <2>2. /\ registry[call[d].tenant].version \in Nat
        /\ registry'[call[d].tenant].version \in Nat
    BY <1>2, <2>1, VersionsAreNaturals, ZenonT(30) DEF Inv, TypeOK
  <2> QED
    BY <1>1, <1>3, <2>1, <2>2 DEF RowInHand
<1>6. ASSUME NEW y \in Tenants, cache'[y].at = "cached" PROVE EntryAge(y)'
  <2>1. EntryAge(y) /\ cache[y].version \in Nat
    BY <1>1, <1>6 DEF Inv, TypeOK, Versions
  <2>2. registry[y].version \in Nat /\ registry'[y].version \in Nat
    BY <1>2, VersionsAreNaturals, ZenonT(30) DEF Inv, TypeOK
  <2> QED
    BY <1>1, <1>3, <2>1, <2>2 DEF EntryAge
<1> QED
  BY <1>2, <1>4, <1>5, <1>6 DEF Inv

LEMMA TickInv == ASSUME Inv, Tick PROVE Inv'
<1>1. \A x \in Tenants, v \in Versions :
        /\ age[x][v] \in Nat /\ age'[x][v] \in Nat /\ age'[x][v] <= age[x][v] + 1
        /\ v >= registry[x].version => age'[x][v] = age[x][v]
  <2> TAKE x \in Tenants, v \in Versions
  <2>1. age[x][v] \in Nat /\ registry[x].version \in Nat /\ v \in Nat
    BY VersionsAreNaturals, Zenon DEF Inv, TypeOK
  <2>2. age'[x][v] = Older(x, v)
    BY DEF Tick
  <2> QED
    BY <2>1, <2>2 DEF Older
<1>2. ASSUME NEW c \in Callers, call[c].at = "store"
      PROVE  /\ call[c].tenant \in Tenants /\ call[c].version \in Versions
             /\ call[c].since \in Nat /\ call[c].since < MaxQuery
             /\ call'[c] \in Calls /\ call'[c].at = "store"
             /\ call'[c].tenant = call[c].tenant /\ call'[c].version = call[c].version
             /\ call'[c].since = call[c].since + 1
  <2>1. call[c] \in Calls /\ call'[c] = [call[c] EXCEPT !.since = @ + 1]
    BY <1>2 DEF Inv, TypeOK, Tick
  <2>2. call[c].since < MaxQuery
    BY <1>2 DEF Tick
  <2>3. call[c] \in [at : {"store"}, tenant : Tenants, version : Versions, since : Nat]
    BY <1>2, <2>1 DEF Calls
  <2>4. call'[c] \in [at : {"store"}, tenant : Tenants, version : Versions, since : Nat]
    BY <2>1, <2>3
  <2> QED
    BY <2>1, <2>2, <2>3, <2>4 DEF Calls
<1>3. \A c \in Callers : call[c].at # "store" => call'[c] = call[c]
  BY DEF Tick
<1>4. \A x \in Tenants :
        /\ cache'[x].at = cache[x].at
        /\ cache[x].at = "cached" =>
              /\ cache[x].version \in Versions /\ cache[x].since \in Nat
              /\ cache'[x].version = cache[x].version
              /\ cache'[x].since = IF cache[x].since < TTL
                                   THEN cache[x].since + 1 ELSE cache[x].since
  BY DEF Inv, TypeOK, Tick
<1>5. TypeOK'
  <2>1. age' \in [Tenants -> [Versions -> Nat]] /\ registry' = registry
    BY <1>1 DEF Tick
  <2>2. call' \in [Callers -> Calls]
    BY <1>2, <1>3 DEF Inv, TypeOK, Tick
  <2>3. cache' \in [Tenants -> [at : {"none"}]
                       \cup [at : {"cached"}, version : Versions, since : Nat]]
    <3> DEFINE Cached == [at : {"cached"}, version : Versions, since : Nat]
    <3>1. ASSUME NEW x \in Tenants PROVE cache'[x] \in [at : {"none"}] \cup Cached
      <4>1. CASE cache[x] \in Cached
        BY <4>1 DEF Tick
      <4>2. CASE cache[x] \in [at : {"none"}]
        BY <4>2 DEF Tick
      <4> QED
        BY <4>1, <4>2 DEF Inv, TypeOK
    <3> QED
      BY <3>1 DEF Tick
  <2> QED
    BY <2>1, <2>2, <2>3 DEF Inv, TypeOK
<1>6. LockHeld'
  BY <1>2, <1>3 DEF Inv, LockHeld, Tick
<1>7. CurrentIsNew'
  BY <1>1 DEF Inv, CurrentIsNew, Tick
<1>8. ASSUME NEW c \in Callers, call'[c].at = "store" PROVE RowInHand(c)'
  <2>1. call[c].at = "store" /\ RowInHand(c)
    BY <1>3, <1>8 DEF Inv
  <2>2. age'[call[c].tenant][call[c].version] <= call[c].since + 1
    BY <1>1, <1>2, <2>1 DEF RowInHand
  <2>3. /\ registry' = registry
        /\ cache'[call[c].tenant].at = "cached" =>
             cache'[call[c].tenant].version <= call[c].version
    BY <1>2, <1>4, <2>1 DEF RowInHand, Tick
  <2>4. call[c].since + 1 <= MaxQuery
    BY <1>2, <2>1, RegistryAssumption
  <2> QED
    BY <1>2, <2>1, <2>2, <2>3, <2>4 DEF RowInHand
<1>9. ASSUME NEW x \in Tenants, cache'[x].at = "cached" PROVE EntryAge(x)'
  <2>1. cache[x].at = "cached" /\ EntryAge(x)
    BY <1>4, <1>9 DEF Inv
  <2>2. cache'[x].since < TTL =>
          age'[x][cache[x].version] <= cache'[x].since + MaxQuery
    BY <1>1, <1>4, <2>1, RegistryAssumption DEF EntryAge
  <2> QED
    BY <1>4, <2>1, <2>2 DEF EntryAge, Tick
<1> QED
  BY <1>5, <1>6, <1>7, <1>8, <1>9 DEF Inv

LEMMA NextInv == Inv /\ [Next]_vars => Inv'
<1> SUFFICES ASSUME Inv, [Next]_vars PROVE Inv'
  OBVIOUS
<1>1. CASE UNCHANGED vars
  BY <1>1 DEF vars, Inv, TypeOK, LockHeld, CurrentIsNew, RowInHand, EntryAge
<1>2. CASE Tick
  BY <1>2, TickInv
<1>3. ASSUME NEW x \in Tenants, NEW h \in Holds, Change(x, h) PROVE Inv'
  BY <1>3, ChangeInv
<1>4. ASSUME NEW c \in Callers, FetchConfig(c) PROVE Inv'
  BY <1>4, FastPathInv, SlowPathInv, QueryRowInv, StoreInv, ReturnInv DEF FetchConfig
<1>5. ASSUME NEW c \in Callers, NEW x \in Tenants, Ask(c, x) PROVE Inv'
  BY <1>5, AskInv
<1> QED
  BY <1>1, <1>2, <1>3, <1>4, <1>5 DEF Next, Holds

\* The invariant of the cache: one refill at a time, and every entry that is
\* still served is at most MaxQuery older than its age in the map.
THEOREM RegistryInvariant == Spec => []Inv
BY InitInv, NextInv, PTL DEF Spec

-----------------------------------------------------------------------------
LEMMA StepMovesForward ==
    Inv /\ [Next]_vars =>
        [\A x \in Tenants : cache[x].at = "cached" =>
            cache'[x].at = "cached" /\ cache'[x].version >= cache[x].version]_vars
<1> SUFFICES ASSUME Inv, Next, NEW x \in Tenants, cache[x].at = "cached"
             PROVE  cache'[x].at = "cached" /\ cache'[x].version >= cache[x].version
  OBVIOUS
<1>1. cache[x] \in [at : {"cached"}, version : Versions, since : Nat]
  BY DEF Inv, TypeOK
<1>2. cache[x].version \in Nat
  BY <1>1, VersionsAreNaturals
<1>3. CASE UNCHANGED cache
  BY <1>2, <1>3
<1>4. CASE Tick
  <2>1. cache'[x] = IF cache[x].since < TTL THEN [cache[x] EXCEPT !.since = @ + 1] ELSE cache[x]
    BY <1>4 DEF Tick
  <2>2. cache'[x].at = "cached" /\ cache'[x].version = cache[x].version
    BY <1>1, <2>1
  <2> QED
    BY <1>2, <2>2
<1>5. ASSUME NEW c \in Callers, Store(c)
      PROVE  cache'[x].at = "cached" /\ cache'[x].version >= cache[x].version
  <2>1. /\ call[c].tenant \in Tenants /\ call[c].version \in Versions
        /\ RowInHand(c)
    BY <1>5, StoringFields DEF Inv, TypeOK, Store
  <2>2. cache' = [cache EXCEPT ![call[c].tenant] = Entry(call[c].version, 0)]
    BY <1>5 DEF Store
  <2>3. CASE x = call[c].tenant
    <3>1. cache'[x] = Entry(call[c].version, 0)
      BY <2>2, <2>3 DEF Inv, TypeOK
    <3>2. cache[x].version <= call[c].version
      BY <2>1, <2>3 DEF RowInHand
    <3> QED
      BY <1>2, <2>1, <3>1, <3>2, VersionsAreNaturals DEF Entry
  <2>4. CASE x # call[c].tenant
    BY <1>2, <2>2, <2>4 DEF Inv, TypeOK
  <2> QED
    BY <2>3, <2>4
<1> QED
  BY <1>3, <1>4, <1>5
  DEF Next, FetchConfig, Change, Ask, FastPath, SlowPath, QueryRow, Return

\* Several callers may miss together and a row may change while its query is
\* on the way; what MemoryRegistry keeps for a tenant still never goes back to
\* an earlier version, because the second look at the map, the query and the
\* store are under one lock.
THEOREM CacheForward == Spec => CacheMovesForward
BY RegistryInvariant, StepMovesForward, PTL DEF Spec, CacheMovesForward

-----------------------------------------------------------------------------
(* FetchConfig implements TenantLookup.                                      *)

\* The lookups as the caller sees them.
Seen == [c \in Callers |-> AbstractCall(c)]

\* A step of one caller that is not visible outside.
LEMMA Invisible ==
    ASSUME Inv, NEW c \in Callers, NEW r, call' = [call EXCEPT ![c] = r],
           call[c].at \in {"lookup", "locking", "query", "store"},
           r.at \in {"lookup", "locking", "query", "store"}, r.tenant = call[c].tenant
    PROVE  Seen' = Seen
<1>1. ASSUME NEW d \in Callers PROVE AbstractCall(d)' = AbstractCall(d)
  <2>1. CASE d = c
    <3>1. call'[c] = r
      BY DEF Inv, TypeOK
    <3> QED
      BY <2>1, <3>1 DEF AbstractCall
  <2>2. CASE d # c
    BY <2>2 DEF Inv, TypeOK, AbstractCall
  <2> QED
    BY <2>1, <2>2
<1> QED
  BY <1>1 DEF Seen

\* A step of one caller that its caller sees.
LEMMA Visible ==
    ASSUME Inv, NEW c \in Callers, NEW r, NEW a, call' = [call EXCEPT ![c] = r],
           a = IF r.at \in {"lookup", "locking", "query", "store"}
               THEN [at |-> "asking", tenant |-> r.tenant] ELSE r
    PROVE  Seen' = [Seen EXCEPT ![c] = a]
<1>1. ASSUME NEW d \in Callers
      PROVE  AbstractCall(d)' = IF d = c THEN a ELSE AbstractCall(d)
  <2>1. CASE d = c
    <3>1. call'[c] = r
      BY DEF Inv, TypeOK
    <3> QED
      BY <2>1, <3>1 DEF AbstractCall
  <2>2. CASE d # c
    BY <2>2 DEF Inv, TypeOK, AbstractCall
  <2> QED
    BY <2>1, <2>2
<1> QED
  BY <1>1, ZenonT(30) DEF Seen

\* An answer from the map or from the query is one that TenantLookup allows.
LEMMA AnswerAllowed ==
    ASSUME Inv, NEW c \in Callers, NEW v \in Versions,
           call[c].at \in {"lookup", "locking", "store"},
           v <= registry[call[c].tenant].version,
           age[call[c].tenant][v] <= MaxAge,
           call' = [call EXCEPT ![c] = Answered(call[c].tenant, v)],
           UNCHANGED <<registry, age>>
    PROVE  Lookup!Next
<1>1. Seen[c] = [at |-> "asking", tenant |-> call[c].tenant]
  BY DEF Seen, AbstractCall
<1>2. Seen' = [Seen EXCEPT ![c] = Answered(call[c].tenant, v)]
  <2>1. Answered(call[c].tenant, v).at = "answered"
    BY DEF Answered
  <2> QED
    BY <2>1, Visible, ZenonT(30)
<1>3. Lookup!Answer(c, v)
  <2>1. /\ Seen[c].at = "asking"
        /\ v <= registry[Seen[c].tenant].version
        /\ age[Seen[c].tenant][v] <= MaxAge
        /\ UNCHANGED <<registry, age>>
    BY <1>1
  <2>2. Seen' = [Seen EXCEPT ![c] = Lookup!Answered(Seen[c].tenant, v)]
    BY <1>1, <1>2 DEF Lookup!Answered, Answered
  <2> QED
    BY <2>1, <2>2 DEF Lookup!Answer, Seen
<1> QED
  BY <1>3 DEF Lookup!Next, Lookup!Versions, Versions

LEMMA LookupStep == Inv /\ [Next]_vars => [Lookup!Next]_(Lookup!vars)
<1> SUFFICES ASSUME Inv, [Next]_vars
             PROVE  Lookup!Next \/ UNCHANGED <<registry, age, Seen>>
  BY DEF Lookup!vars, Seen
<1>1. CASE UNCHANGED vars
  BY <1>1 DEF vars, Seen, AbstractCall
<1>2. CASE Tick
  <2>1. ASSUME NEW c \in Callers PROVE AbstractCall(c)' = AbstractCall(c)
    <3>1. call'[c] = IF call[c].at = "store" THEN [call[c] EXCEPT !.since = @ + 1] ELSE call[c]
      BY <1>2 DEF Tick
    <3>2. CASE call[c].at = "store"
      <4>1. call[c] \in [at : {"store"}, tenant : Tenants, version : Versions, since : Nat]
        BY <3>2 DEF Inv, TypeOK, Calls
      <4>2. call'[c].at = "store" /\ call'[c].tenant = call[c].tenant
        BY <3>1, <3>2, <4>1
      <4> QED
        BY <3>2, <4>2 DEF AbstractCall
    <3>3. CASE call[c].at # "store"
      BY <3>1, <3>3 DEF AbstractCall
    <3> QED
      BY <3>2, <3>3
  <2>2. UNCHANGED Seen
    BY <2>1 DEF Seen
  <2>3. Lookup!Tick
    BY <1>2, <2>2 DEF Tick, Lookup!Tick, Older, Lookup!Older, Versions, Lookup!Versions, Seen
  <2> QED
    BY <2>3 DEF Lookup!Next
<1>3. ASSUME NEW x \in Tenants, NEW h \in Holds, Change(x, h)
      PROVE  Lookup!Next
  <2>1. UNCHANGED Seen
    BY <1>3 DEF Change, Seen, AbstractCall
  <2>2. Lookup!Change(x, h)
    BY <1>3, <2>1 DEF Change, Lookup!Change, Seen
  <2> QED
    BY <2>2 DEF Lookup!Next, Holds
<1>4. ASSUME NEW c \in Callers, NEW x \in Tenants, Ask(c, x)
      PROVE  Lookup!Next
  <2>1. Seen[c] = Lookup!Idle /\ UNCHANGED <<registry, age>>
    BY <1>4 DEF Ask, Seen, AbstractCall, Idle, Lookup!Idle
  <2>2. Seen' = [Seen EXCEPT ![c] = Lookup!Asking(x)]
    <3>1. Looking(x).at = "lookup" /\ Looking(x).tenant = x
      BY DEF Looking
    <3> QED
      BY <1>4, <3>1, Visible, ZenonT(30) DEF Ask, Lookup!Asking
  <2>3. Lookup!Ask(c, x)
    BY <2>1, <2>2 DEF Lookup!Ask, Seen
  <2> QED
    BY <2>3 DEF Lookup!Next
<1>5. ASSUME NEW c \in Callers, FastPath(c) \/ SlowPath(c)
      PROVE  Lookup!Next \/ UNCHANGED <<registry, age, Seen>>
  <2> DEFINE x == call[c].tenant
  <2>1. /\ x \in Tenants /\ call[c].at \in {"lookup", "locking"}
        /\ UNCHANGED <<registry, age>>
    BY <1>5 DEF Inv, TypeOK, Calls, FastPath, SlowPath
  <2>2. CASE Fresh(x)
    <3>1. call' = [call EXCEPT ![c] = Answered(x, cache[x].version)]
      BY <1>5, <2>2 DEF FastPath, SlowPath
    <3>2. cache[x] \in [at : {"cached"}, version : Versions, since : Nat]
      BY <2>1, <2>2 DEF Inv, TypeOK, Fresh
    <3>3. EntryAge(x) /\ cache[x].since < TTL
      BY <2>1, <2>2 DEF Inv, Fresh
    <3>4. age[x][cache[x].version] \in Nat
      BY <2>1, <3>2 DEF Inv, TypeOK
    <3>5. age[x][cache[x].version] <= MaxAge
      BY <3>2, <3>3, <3>4, RegistryAssumption DEF EntryAge, MaxAge
    <3>6. cache[x].version <= registry[x].version
      BY <3>3 DEF EntryAge
    <3> QED
      BY <2>1, <3>1, <3>2, <3>5, <3>6, AnswerAllowed, ZenonT(30)
  <2>3. CASE ~Fresh(x)
    <3>1. PICK r \in {Locking(x), Querying(x)} : call' = [call EXCEPT ![c] = r]
      BY <1>5, <2>3 DEF FastPath, SlowPath
    <3>2. r.at \in {"locking", "query"} /\ r.tenant = x
      BY <3>1 DEF Locking, Querying
    <3> QED
      BY <2>1, <3>1, <3>2, Invisible, ZenonT(30)
  <2> QED
    BY <2>2, <2>3
<1>6. ASSUME NEW c \in Callers, QueryRow(c)
      PROVE  Lookup!Next \/ UNCHANGED <<registry, age, Seen>>
  <2>1. call[c].at = "query" /\ UNCHANGED <<registry, age>>
    BY <1>6 DEF QueryRow
  <2>2. ASSUME NEW v, NEW t, call' = [call EXCEPT ![c] = Storing(call[c].tenant, v, t)]
        PROVE  UNCHANGED Seen
    BY <2>1, <2>2, Invisible, ZenonT(30) DEF Storing
  <2>3. CASE call' = [call EXCEPT ![c] = Refused]
    <3>1. Seen' = [Seen EXCEPT ![c] = Lookup!Refused]
      BY <2>3, Visible, ZenonT(30) DEF Refused, Lookup!Refused
    <3>2. Seen[c].at = "asking"
      BY <2>1 DEF Seen, AbstractCall
    <3>3. Lookup!Refuse(c)
      BY <2>1, <3>1, <3>2 DEF Lookup!Refuse, Seen
    <3> QED
      BY <3>3 DEF Lookup!Next
  <2> QED
    BY <1>6, <2>1, <2>2, <2>3 DEF QueryRow
<1>7. ASSUME NEW c \in Callers, Store(c) PROVE Lookup!Next
  <2> DEFINE x == call[c].tenant
             v == call[c].version
  <2>1. /\ x \in Tenants /\ v \in Versions /\ call[c].since \in Nat
        /\ call[c].at = "store" /\ RowInHand(c)
    BY <1>7, StoringFields DEF Inv, TypeOK, Store
  <2>2. age[x][v] \in Nat
    BY <2>1 DEF Inv, TypeOK
  <2>3. v <= registry[x].version /\ age[x][v] <= MaxAge
    BY <2>1, <2>2, RegistryAssumption DEF RowInHand, MaxAge
  <2>4. call' = [call EXCEPT ![c] = Answered(x, v)] /\ UNCHANGED <<registry, age>>
    BY <1>7 DEF Store
  <2> QED
    BY <2>1, <2>3, <2>4, AnswerAllowed, ZenonT(30)
<1>8. ASSUME NEW c \in Callers, Return(c) PROVE Lookup!Next
  <2>1. Seen' = [Seen EXCEPT ![c] = Lookup!Idle] /\ UNCHANGED <<registry, age>>
    BY <1>8, Visible, ZenonT(30) DEF Return, Idle, Lookup!Idle
  <2>2. Seen[c].at \in {"answered", "refused"}
    BY <1>8 DEF Return, Seen, AbstractCall
  <2>3. Lookup!Return(c)
    BY <2>1, <2>2 DEF Lookup!Return, Seen
  <2> QED
    BY <2>3 DEF Lookup!Next
<1> QED
  BY <1>1, <1>2, <1>3, <1>4, <1>5, <1>6, <1>7, <1>8 DEF Next, FetchConfig, Holds

\* Whatever the callers, the cache and the lock do, a caller of FetchConfig sees
\* a lookup that is refused or answered with a configuration the table held at
\* most TTL - 1 + MaxQuery ago: each step is a step of TenantLookup or invisible.
THEOREM FetchConfigImplementsLookup == Spec => ImplementsLookup
<1>1. Init => Lookup!Init
  BY DEF Init, Lookup!Init, AbstractCall, Idle, Lookup!Idle, Versions, Lookup!Versions
<1> QED
  BY <1>1, RegistryInvariant, LookupStep, PTL DEF Spec, ImplementsLookup, Lookup!Spec

-----------------------------------------------------------------------------
(* The agent chat.                                                           *)

\* The first n chunks of the answer to q.
Prefix(q, n) == [k \in 1 .. n |-> <<q, k>>]

\* Message i of b shows chunks of the answer to q.
ShowsAnswer(b, i, q) == \E n \in Nat \ {0} : b[i].content = Prefix(q, n)

Unanswered(b, q) == \A i \in DOMAIN b : ~ShowsAnswer(b, i, q)

\* The last message is not the agent's, or chunk k of the answer to q is next.
Ready(b, q, k) ==
    b[Len(b)].role = "agent" => b[Len(b)].content = Prefix(q, k - 1)

\* Chunk k of the answer to q comes right after frame f.
Follows(f, q, k) ==
    /\ f.query = q
    /\ IF k = 1 THEN f.type = "typing" ELSE f.type = "chunk" /\ f.chunk = k - 1

Opens(f, q) == f.type = "chunk" /\ f.chunk = 1 /\ f.query = q

MessageType == [role : {"system", "user", "agent"}, content : Seq(Nat \X Nat)]
FrameType == [type : {"error", "typing", "chunk", "done"}, query : Nat, chunk : Nat]

ChatTypes ==
    /\ queries \in Nat
    /\ bubbles \in Seq(MessageType) /\ bubbles # <<>>
    /\ frames \in Seq(FrameType)
    /\ inbox \in Seq(Nat) /\ \A i \in DOMAIN inbox : inbox[i] \in 1 .. queries
    /\ answering \in [query : Nat, next : Nat]
    /\ answering = ChatIdle \/ (answering.query \in 1 .. queries /\ answering.next # 0)

\* Every message is the beginning of one answer, or empty.
Messages ==
    \A i \in DOMAIN bubbles : \E q, n \in Nat :
        /\ bubbles[i].content = Prefix(q, n)
        /\ n # 0 => q \in 1 .. queries /\ bubbles[i].role = "agent"

\* The chunks of an answer come in order after their typing frame, the widget
\* is ready for the one that comes first, and the hub's loop for its next one.
InOrder ==
    /\ \A i \in DOMAIN frames : frames[i].type = "chunk" =>
         /\ frames[i].chunk # 0 /\ frames[i].query \in 1 .. queries
         /\ i # 1 => Follows(frames[i - 1], frames[i].query, frames[i].chunk)
         /\ i = 1 => Ready(bubbles, frames[i].query, frames[i].chunk)
    /\ answering # ChatIdle =>
         IF frames = <<>> THEN Ready(bubbles, answering.query, answering.next)
         ELSE Follows(frames[Len(frames)], answering.query, answering.next)

\* An answer is opened once: a query waits in one place, and it has no message
\* while its first chunk is still to come.
OpenedOnce ==
    /\ \A q \in Nat : \A i, j \in DOMAIN bubbles :
         ShowsAnswer(bubbles, i, q) /\ ShowsAnswer(bubbles, j, q) => i = j
    /\ \A q \in Nat : \A i \in DOMAIN frames : Opens(frames[i], q) =>
         /\ Unanswered(bubbles, q)
         /\ \A j \in DOMAIN frames : Opens(frames[j], q) => i = j
         /\ ~(answering.query = q /\ answering.next = 1)
         /\ \A j \in DOMAIN inbox : inbox[j] # q
    /\ answering.next = 1 => Unanswered(bubbles, answering.query)
    /\ \A i \in DOMAIN inbox :
         /\ Unanswered(bubbles, inbox[i]) /\ inbox[i] # answering.query
         /\ \A j \in DOMAIN inbox : inbox[i] = inbox[j] => i = j

ChatInv == ChatTypes /\ Messages /\ InOrder /\ OpenedOnce

-----------------------------------------------------------------------------
LEMMA PrefixFacts ==
    ASSUME NEW q \in Nat, NEW n \in Nat
    PROVE  /\ Prefix(q, n) \in Seq(Nat \X Nat) /\ Len(Prefix(q, n)) = n
           /\ Prefix(q, n) = <<>> <=> n = 0
           /\ n # 0 => Prefix(q, n)[1] = <<q, 1>>
           /\ Append(Prefix(q, n), <<q, n + 1>>) = Prefix(q, n + 1)
<1>1. Prefix(q, n) \in Seq(Nat \X Nat) /\ Len(Prefix(q, n)) = n
  BY DEF Prefix
<1>2. Prefix(q, n) = <<>> <=> n = 0
  BY <1>1
<1>3. n # 0 => Prefix(q, n)[1] = <<q, 1>>
  BY DEF Prefix
<1>4. Append(Prefix(q, n), <<q, n + 1>>) = Prefix(q, n + 1)
  <2> DEFINE a == Append(Prefix(q, n), <<q, n + 1>>)
             p == Prefix(q, n + 1)
  <2>1. <<q, n + 1>> \in Nat \X Nat
    OBVIOUS
  <2>2. a \in Seq(Nat \X Nat) /\ Len(a) = n + 1
    BY <1>1, <2>1
  <2>3. p \in Seq(Nat \X Nat) /\ Len(p) = n + 1
    BY DEF Prefix
  <2>4. \A k \in 1 .. n + 1 : a[k] = p[k]
    BY <1>1 DEF Prefix
  <2> HIDE DEF a, p
  <2>5. a = p
    BY <2>2, <2>3, <2>4
  <2> QED
    BY <2>5 DEF a, p
<1> QED
  BY <1>1, <1>2, <1>3, <1>4

LEMMA PrefixInjective ==
    ASSUME NEW q \in Nat, NEW n \in Nat \ {0}, NEW r \in Nat, NEW m \in Nat,
           Prefix(q, n) = Prefix(r, m)
    PROVE  q = r /\ n = m
<1>1. n = m
  BY PrefixFacts
<1>2. <<q, 1>> = <<r, 1>>
  BY <1>1, PrefixFacts, ZenonT(30)
<1> QED
  BY <1>1, <1>2

\* What an empty message at the end of b changes.
LEMMA EmptyMessage ==
    ASSUME NEW b \in Seq(MessageType), NEW r \in {"system", "user", "agent"}
    PROVE  LET c == Append(b, Bubble(r)) IN
           /\ c \in Seq(MessageType) /\ c # <<>>
           /\ DOMAIN c = DOMAIN b \cup {Len(b) + 1} /\ \A i \in DOMAIN b : c[i] = b[i]
           /\ c[Len(c)].role = r /\ c[Len(c)].content = <<>> /\ c[Len(b) + 1].content = <<>>
           /\ \A q \in Nat : \A i \in DOMAIN c :
                ShowsAnswer(c, i, q) => i \in DOMAIN b /\ ShowsAnswer(b, i, q)
<1> DEFINE e == Bubble(r)
           c == Append(b, e)
<1>1. e \in MessageType /\ e.role = r /\ e.content = <<>>
  BY DEF Bubble, MessageType
<1> HIDE DEF e
<1>2. /\ c \in Seq(MessageType) /\ c # <<>> /\ DOMAIN c = DOMAIN b \cup {Len(b) + 1}
      /\ \A i \in DOMAIN b : c[i] = b[i]
      /\ c[Len(b) + 1] = e /\ Len(c) = Len(b) + 1
  BY <1>1
<1> HIDE DEF c
<1>3. ASSUME NEW q \in Nat, NEW i \in DOMAIN c, ShowsAnswer(c, i, q)
      PROVE  i \in DOMAIN b /\ ShowsAnswer(b, i, q)
  <2>1. PICK n \in Nat \ {0} : c[i].content = Prefix(q, n)
    BY <1>3 DEF ShowsAnswer
  <2>2. c[i].content # <<>>
    BY <2>1, PrefixFacts, ZenonT(30)
  <2> QED
    BY <1>1, <1>2, <2>1, <2>2 DEF ShowsAnswer
<1> QED
  BY <1>1, <1>2, <1>3 DEF c, e

\* A message is added without a chunk.
LEMMA MessageAdded ==
    ASSUME ChatInv, NEW r \in {"system", "user", "agent"},
           bubbles' = Append(bubbles, Bubble(r)),
           queries' \in Nat, queries <= queries'
    PROVE  /\ bubbles' \in Seq(MessageType) /\ bubbles' # <<>>
           /\ Messages'
           /\ \A q \in Nat : Unanswered(bubbles, q) => Unanswered(bubbles', q)
           /\ \A q \in Nat : \A i, j \in DOMAIN bubbles' :
                ShowsAnswer(bubbles', i, q) /\ ShowsAnswer(bubbles', j, q) => i = j
           /\ r # "agent" => \A q, k : Ready(bubbles', q, k)
           /\ \A q \in Nat : Ready(bubbles', q, 1)
<1> USE DEF ChatInv
<1>1. bubbles \in Seq(MessageType)
  BY DEF ChatTypes
<1>2. /\ bubbles' \in Seq(MessageType) /\ bubbles' # <<>>
      /\ DOMAIN bubbles' = DOMAIN bubbles \cup {Len(bubbles) + 1}
      /\ \A i \in DOMAIN bubbles : bubbles'[i] = bubbles[i]
      /\ bubbles'[Len(bubbles')].role = r /\ bubbles'[Len(bubbles')].content = <<>>
      /\ bubbles'[Len(bubbles) + 1].content = <<>>
      /\ \A q \in Nat : \A i \in DOMAIN bubbles' :
           ShowsAnswer(bubbles', i, q) => i \in DOMAIN bubbles /\ ShowsAnswer(bubbles, i, q)
  BY <1>1, EmptyMessage
<1>3. \A q \in Nat : Prefix(q, 0) = <<>>
  BY PrefixFacts
<1>4. Messages'
  <2> SUFFICES ASSUME NEW i \in DOMAIN bubbles'
               PROVE  \E q, n \in Nat :
                        /\ bubbles'[i].content = Prefix(q, n)
                        /\ n # 0 => q \in 1 .. queries' /\ bubbles'[i].role = "agent"
    BY DEF Messages
  <2>1. CASE i \in DOMAIN bubbles
    <3>1. PICK q, n \in Nat :
              /\ bubbles[i].content = Prefix(q, n)
              /\ n # 0 => q \in 1 .. queries /\ bubbles[i].role = "agent"
      BY <2>1 DEF Messages
    <3>2. n # 0 => q \in 1 .. queries'
      BY <3>1 DEF ChatTypes
    <3> QED
      BY <1>2, <2>1, <3>1, <3>2
  <2>2. CASE i = Len(bubbles) + 1
    <3>1. bubbles'[i].content = Prefix(0, 0)
      BY <1>2, <1>3, <2>2
    <3> QED
      BY <3>1
  <2> QED
    BY <1>2, <2>1, <2>2
<1>5. \A q \in Nat : Unanswered(bubbles, q) => Unanswered(bubbles', q)
  BY <1>2 DEF Unanswered
<1>6. \A q \in Nat : \A i, j \in DOMAIN bubbles' :
          ShowsAnswer(bubbles', i, q) /\ ShowsAnswer(bubbles', j, q) => i = j
  BY <1>2, ZenonT(30) DEF OpenedOnce
<1>7. r # "agent" => \A q, k : Ready(bubbles', q, k)
  BY <1>2 DEF Ready
<1>8. \A q \in Nat : Ready(bubbles', q, 1)
  BY <1>2, <1>3 DEF Ready
<1> QED
  BY <1>2, <1>4, <1>5, <1>6, <1>7, <1>8
\* A query that was not sent yet has no message.
LEMMA NewQuery ==
    ASSUME ChatInv, NEW q \in Nat, ~(q \in 1 .. queries)
    PROVE  Unanswered(bubbles, q)
<1> SUFFICES ASSUME NEW i \in DOMAIN bubbles, ShowsAnswer(bubbles, i, q) PROVE FALSE
  BY DEF Unanswered
<1>1. PICK n \in Nat \ {0} : bubbles[i].content = Prefix(q, n)
  BY DEF ShowsAnswer
<1>2. PICK r, m \in Nat :
          /\ bubbles[i].content = Prefix(r, m)
          /\ m # 0 => r \in 1 .. queries /\ bubbles[i].role = "agent"
  BY DEF ChatInv, Messages
<1>3. q = r /\ n = m
  BY <1>1, <1>2, PrefixInjective, ZenonT(30)
<1> QED
  BY <1>2, <1>3

LEMMA DisconnectedInv ==
    ASSUME ChatInv, Disconnected, UNCHANGED <<bubbles, queries>>
    PROVE  ChatInv'
<1>1. inbox' = <<>> /\ frames' = <<>> /\ answering' = [query |-> 0, next |-> 0]
  BY DEF Disconnected, ChatIdle
<1>2. ChatTypes'
  BY <1>1 DEF ChatInv, ChatTypes, ChatIdle
<1>3. Messages' /\ InOrder'
  BY <1>1 DEF ChatInv, Messages, InOrder, ChatIdle
<1>4. OpenedOnce'
  BY <1>1 DEF ChatInv, OpenedOnce
<1> QED
  BY <1>2, <1>3, <1>4 DEF ChatInv

LEMMA HandleSendInv ==
    ASSUME ChatInv, HandleSend
    PROVE  ChatInv'
<1> USE DEF ChatInv
<1> DEFINE q == queries + 1
<1>1. /\ queries \in Nat /\ queries' = q /\ bubbles' = Append(bubbles, Bubble("user"))
      /\ inbox' = inbox \/ inbox' = Append(inbox, q)
      /\ UNCHANGED <<answering, frames>>
  BY DEF HandleSend, ChatTypes
<1>2. q \in Nat /\ queries <= q /\ ~(q \in 1 .. queries) /\ 1 .. queries \subseteq 1 .. q
      /\ q \in 1 .. q
  BY <1>1
<1> HIDE DEF q
<1>3. /\ bubbles' \in Seq(MessageType) /\ bubbles' # <<>>
      /\ Messages'
      /\ \A p \in Nat : Unanswered(bubbles, p) => Unanswered(bubbles', p)
      /\ \A p \in Nat : \A i, j \in DOMAIN bubbles' :
           ShowsAnswer(bubbles', i, p) /\ ShowsAnswer(bubbles', j, p) => i = j
      /\ \A p, k : Ready(bubbles', p, k)
  BY <1>1, <1>2, MessageAdded
<1>4. /\ inbox \in Seq(Nat) /\ \A i \in DOMAIN inbox : inbox[i] \in 1 .. queries
      /\ answering \in [query : Nat, next : Nat]
      /\ answering = ChatIdle \/ (answering.query \in 1 .. queries /\ answering.next # 0)
  BY DEF ChatTypes
<1>5. /\ inbox' \in Seq(Nat)
      /\ \A i \in DOMAIN inbox' :
           \/ i \in DOMAIN inbox /\ inbox'[i] = inbox[i]
           \/ i = Len(inbox) + 1 /\ inbox'[i] = q
  <2>1. CASE inbox' = inbox
    BY <1>4, <2>1
  <2>2. CASE inbox' = Append(inbox, q)
    BY <1>2, <1>4, <2>2
  <2> QED
    BY <1>1, <2>1, <2>2
<1>6. ChatTypes'
  BY <1>1, <1>2, <1>3, <1>4, <1>5, ZenonT(30) DEF ChatTypes
<1>7. InOrder'
  BY <1>1, <1>2, <1>3, ZenonT(30) DEF InOrder
<1>8. OpenedOnce'
  <2>1. Unanswered(bubbles', q)
    BY <1>2, <1>3, NewQuery
  <2>2. ASSUME NEW i \in DOMAIN frames, frames[i].type = "chunk" PROVE frames[i].query # q
    BY <1>2, <2>2, ZenonT(30) DEF InOrder
  <2>3. answering.query # q
    BY <1>2, <1>4 DEF ChatIdle
  <2>4. ASSUME NEW p \in Nat, NEW i \in DOMAIN frames, Opens(frames[i], p)
        PROVE  /\ Unanswered(bubbles', p)
               /\ \A j \in DOMAIN inbox' : inbox'[j] # p
    BY <1>3, <1>5, <2>2, <2>4, ZenonT(30) DEF OpenedOnce, Opens
  <2>5. answering.next = 1 => Unanswered(bubbles', answering.query)
    BY <1>3, <1>4 DEF OpenedOnce
  <2>6. ASSUME NEW i \in DOMAIN inbox'
        PROVE  /\ Unanswered(bubbles', inbox'[i]) /\ inbox'[i] # answering.query
               /\ \A j \in DOMAIN inbox' : inbox'[i] = inbox'[j] => i = j
    <3>1. \A j \in DOMAIN inbox : inbox[j] # q /\ inbox[j] \in Nat
      BY <1>2, <1>4
    <3>2. CASE i \in DOMAIN inbox /\ inbox'[i] = inbox[i]
      <4>1. /\ Unanswered(bubbles, inbox[i]) /\ inbox[i] # answering.query
            /\ \A j \in DOMAIN inbox : inbox[i] = inbox[j] => i = j
        BY <3>2, ZenonT(30) DEF OpenedOnce
      <4> QED
        BY <1>3, <1>5, <3>1, <3>2, <4>1
    <3>3. CASE i = Len(inbox) + 1 /\ inbox'[i] = q
      BY <1>5, <2>1, <2>3, <3>1, <3>3
    <3> QED
      BY <1>5, <3>2, <3>3, ZenonT(30)
  <2> QED
    BY <1>1, <1>3, <2>4, <2>5, <2>6, ZenonT(30) DEF OpenedOnce
<1> QED
  BY <1>3, <1>6, <1>7, <1>8

\* The places of the frames after the first.
LEMMA TailPlaces ==
    ASSUME NEW S, NEW s \in Seq(S), s # <<>>
    PROVE  LET t == Tail(s) IN
           /\ 1 \in DOMAIN s /\ Head(s) = s[1] /\ t \in Seq(S)
           /\ \A i \in DOMAIN t : i \in Nat /\ i + 1 \in DOMAIN s /\ t[i] = s[i + 1] /\ i + 1 # 1
           /\ \A i \in DOMAIN t : i # 1 => i - 1 \in DOMAIN t /\ t[i - 1] = s[i]
           /\ t = <<>> => Len(s) = 1
           /\ t # <<>> => Len(t) \in DOMAIN t /\ Len(t) + 1 = Len(s)
<1> DEFINE t == Tail(s)
<1>1. /\ DOMAIN s = 1 .. Len(s) /\ Len(s) \in Nat \ {0} /\ DOMAIN t = 1 .. (Len(s) - 1)
      /\ Head(s) = s[1] /\ t \in Seq(S) /\ Len(t) = Len(s) - 1
  OBVIOUS
<1>2. \A i \in 1 .. (Len(s) - 1) : t[i] = s[i + 1]
  OBVIOUS
<1> HIDE DEF t
<1>3. \A i \in DOMAIN t : i \in Nat /\ i + 1 \in DOMAIN s /\ t[i] = s[i + 1] /\ i + 1 # 1
  BY <1>1, <1>2
<1>4. ASSUME NEW i \in DOMAIN t, i # 1 PROVE i - 1 \in DOMAIN t /\ t[i - 1] = s[i]
  <2>1. i - 1 \in 1 .. (Len(s) - 1) /\ (i - 1) + 1 = i
    BY <1>1, <1>4
  <2> QED
    BY <1>1, <1>2, <2>1
<1>5. (t = <<>> => Len(s) = 1) /\ (t # <<>> => Len(t) \in DOMAIN t /\ Len(t) + 1 = Len(s))
  BY <1>1
<1> QED
  BY <1>1, <1>3, <1>4, <1>5 DEF t

\* The head of the frames is consumed: the widget must be ready for a chunk
\* that follows it, and only the answer it opens may get a message.
LEMMA FrameConsumed ==
    ASSUME ChatInv, frames # <<>>, frames' = Tail(frames), UNCHANGED <<queries, inbox, answering>>,
           bubbles' \in Seq(MessageType), bubbles' # <<>>, Messages',
           \A q \in Nat : \A i, j \in DOMAIN bubbles' :
              ShowsAnswer(bubbles', i, q) /\ ShowsAnswer(bubbles', j, q) => i = j,
           \A q \in Nat : ~Opens(Head(frames), q) /\ Unanswered(bubbles, q) =>
              Unanswered(bubbles', q),
           \A q \in Nat, k \in Nat \ {0} : Follows(Head(frames), q, k) => Ready(bubbles', q, k)
    PROVE  ChatInv'
<1> USE DEF ChatInv
<1>1. /\ frames \in Seq(FrameType) /\ inbox \in Seq(Nat)
      /\ answering \in [query : Nat, next : Nat]
      /\ answering = ChatIdle \/ answering.next # 0
  BY DEF ChatTypes
<1>2. /\ 1 \in DOMAIN frames /\ Head(frames) = frames[1] /\ frames' \in Seq(FrameType)
      /\ \A i \in DOMAIN frames' :
           i \in Nat /\ i + 1 \in DOMAIN frames /\ frames'[i] = frames[i + 1] /\ i + 1 # 1
      /\ \A i \in DOMAIN frames' : i # 1 => i - 1 \in DOMAIN frames' /\ frames'[i - 1] = frames[i]
      /\ frames' = <<>> => Len(frames) = 1
      /\ frames' # <<>> => Len(frames') \in DOMAIN frames' /\ Len(frames') + 1 = Len(frames)
  BY <1>1, TailPlaces
<1>3. ChatTypes'
  BY <1>2 DEF ChatTypes
<1>4. InOrder'
  <2>1. ASSUME NEW i \in DOMAIN frames', frames'[i].type = "chunk"
        PROVE  /\ frames'[i].chunk # 0 /\ frames'[i].query \in 1 .. queries
               /\ i # 1 => Follows(frames'[i - 1], frames'[i].query, frames'[i].chunk)
               /\ i = 1 => Ready(bubbles', frames'[i].query, frames'[i].chunk)
    <3>1. /\ frames'[i].chunk # 0 /\ frames'[i].query \in 1 .. queries
          /\ Follows(frames[(i + 1) - 1], frames'[i].query, frames'[i].chunk)
      BY <1>2, <2>1 DEF InOrder
    <3>2. (i + 1) - 1 = i /\ frames'[i].query \in Nat /\ frames'[i].chunk \in Nat \ {0}
      <4>1. frames'[i] \in FrameType /\ i \in Nat
        BY <1>2
      <4> QED
        BY <3>1, <4>1 DEF FrameType
    <3>3. i = 1 => Ready(bubbles', frames'[i].query, frames'[i].chunk)
      BY <1>2, <3>1, <3>2
    <3> QED
      BY <1>2, <3>1, <3>2, <3>3, ZenonT(30)
  <2>2. ASSUME answering # ChatIdle, frames' = <<>>
        PROVE  Ready(bubbles', answering.query, answering.next)
    BY <1>1, <1>2, <2>2, ZenonT(30) DEF InOrder
  <2>3. ASSUME answering # ChatIdle, frames' # <<>>
        PROVE  Follows(frames'[Len(frames')], answering.query, answering.next)
    BY <1>1, <1>2, <2>3, ZenonT(30) DEF InOrder
  <2> QED
    BY <2>1, <2>2, <2>3, ZenonT(30) DEF InOrder
<1>5. OpenedOnce'
  <2>1. ASSUME NEW q \in Nat, NEW i \in DOMAIN frames', Opens(frames'[i], q)
        PROVE  /\ Unanswered(bubbles', q)
               /\ \A j \in DOMAIN frames' : Opens(frames'[j], q) => i = j
               /\ ~(answering.query = q /\ answering.next = 1)
               /\ \A j \in DOMAIN inbox : inbox[j] # q
    <3>1. /\ Unanswered(bubbles, q) /\ ~Opens(Head(frames), q)
          /\ \A j \in DOMAIN frames' : Opens(frames'[j], q) => i + 1 = j + 1
          /\ ~(answering.query = q /\ answering.next = 1)
          /\ \A j \in DOMAIN inbox : inbox[j] # q
      BY <1>2, <2>1 DEF OpenedOnce
    <3> QED
      BY <1>2, <3>1
  <2>2. answering.next = 1 => Unanswered(bubbles', answering.query)
    BY <1>1, <1>2 DEF OpenedOnce
  <2>3. ASSUME NEW i \in DOMAIN inbox PROVE Unanswered(bubbles', inbox[i])
    BY <1>1, <1>2 DEF OpenedOnce
  <2> QED
    BY <2>1, <2>2, <2>3, ZenonT(30) DEF OpenedOnce
<1> QED
  BY <1>3, <1>4, <1>5

\* The places of a sequence that grew by one frame.
LEMMA AppendPlaces ==
    ASSUME NEW S, NEW s \in Seq(S), NEW g \in S
    PROVE  LET t == Append(s, g) IN
           /\ t \in Seq(S) /\ t # <<>> /\ t[Len(t)] = g
           /\ \A i \in DOMAIN t : i \in Nat /\ (i \in DOMAIN s \/ i = Len(s) + 1)
           /\ \A i \in DOMAIN s : t[i] = s[i] /\ i # Len(s) + 1
           /\ t[Len(s) + 1] = g /\ Len(s) + 1 - 1 = Len(s)
           /\ s = <<>> <=> Len(s) + 1 = 1
           /\ s # <<>> => Len(s) \in DOMAIN s
           /\ \A i \in DOMAIN s : i # 1 => i - 1 \in DOMAIN s
  OBVIOUS

\* The hub sends a frame: a chunk is the next one of the answer it streams, and
\* the next one after that follows the frame.
LEMMA FrameSent ==
    ASSUME ChatInv, NEW g \in FrameType, frames' = Append(frames, g),
           UNCHANGED <<bubbles, queries>>,
           inbox' \in Seq(Nat), \A i \in DOMAIN inbox' : inbox'[i] \in 1 .. queries,
           answering' \in [query : Nat, next : Nat],
           answering' = ChatIdle \/ (answering'.query \in 1 .. queries /\ answering'.next # 0),
           g.type = "chunk" =>
              answering # ChatIdle /\ g.query = answering.query /\ g.chunk = answering.next,
           answering' # ChatIdle => Follows(g, answering'.query, answering'.next),
           OpenedOnce'
    PROVE  ChatInv'
<1> USE DEF ChatInv
<1>1. /\ frames \in Seq(FrameType)
      /\ answering = ChatIdle \/ (answering.query \in 1 .. queries /\ answering.next # 0)
  BY DEF ChatTypes
<1>2. /\ frames' \in Seq(FrameType) /\ frames' # <<>> /\ frames'[Len(frames')] = g
      /\ \A i \in DOMAIN frames' : i \in Nat /\ (i \in DOMAIN frames \/ i = Len(frames) + 1)
      /\ \A i \in DOMAIN frames : frames'[i] = frames[i]
      /\ frames'[Len(frames) + 1] = g /\ Len(frames) + 1 - 1 = Len(frames)
      /\ frames = <<>> <=> Len(frames) + 1 = 1
      /\ frames # <<>> => Len(frames) \in DOMAIN frames
      /\ \A i \in DOMAIN frames : i # 1 => i - 1 \in DOMAIN frames
  BY <1>1, AppendPlaces
<1>3. ChatTypes'
  BY <1>2 DEF ChatTypes, ChatIdle
<1>4. Messages'
  BY ZenonT(30) DEF Messages
<1>5. InOrder'
  <2>1. ASSUME NEW i \in DOMAIN frames', frames'[i].type = "chunk"
        PROVE  /\ frames'[i].chunk # 0 /\ frames'[i].query \in 1 .. queries
               /\ i # 1 => Follows(frames'[i - 1], frames'[i].query, frames'[i].chunk)
               /\ i = 1 => Ready(bubbles', frames'[i].query, frames'[i].chunk)
    <3>1. CASE i \in DOMAIN frames
      BY <1>2, <2>1, <3>1, ZenonT(30) DEF InOrder
    <3>2. CASE i = Len(frames) + 1
      <4>1. /\ frames'[i] = g /\ answering # ChatIdle
            /\ g.query = answering.query /\ g.chunk = answering.next
        BY <1>2, <2>1, <3>2
      <4>2. i = 1 => Ready(bubbles, g.query, g.chunk)
        BY <1>2, <3>2, <4>1, ZenonT(30) DEF InOrder
      <4>3. i # 1 => Follows(frames[Len(frames)], g.query, g.chunk)
        BY <1>2, <3>2, <4>1, ZenonT(30) DEF InOrder
      <4>4. i # 1 => frames'[i - 1] = frames[Len(frames)]
        <5>1. i - 1 = Len(frames)
          BY <1>1, <3>2
        <5>2. i # 1 => Len(frames) \in DOMAIN frames
          BY <1>2, <3>2
        <5> QED
          BY <1>2, <5>1, <5>2
      <4> QED
        BY <1>1, <4>1, <4>2, <4>3, <4>4, ZenonT(30)
    <3> QED
      BY <1>2, <3>1, <3>2, ZenonT(30)
  <2> QED
    BY <1>2, <2>1, ZenonT(30) DEF InOrder, ChatIdle
<1> QED
  BY <1>3, <1>4, <1>5

LEMMA HubReceivesInv ==
    ASSUME ChatInv, HubReceives
    PROVE  ChatInv'
<1> USE DEF ChatInv
<1> DEFINE h == Head(inbox)
           g == frames'[Len(frames')]
<1>1. /\ inbox \in Seq(Nat) /\ inbox # <<>> /\ \A i \in DOMAIN inbox : inbox[i] \in 1 .. queries
      /\ queries \in Nat /\ frames \in Seq(FrameType)
      /\ inbox' = Tail(inbox) /\ answering = ChatIdle /\ UNCHANGED <<bubbles, queries>>
  BY ZenonT(30) DEF HubReceives, ChatTypes, widgetVars
<1>2. /\ 1 \in DOMAIN inbox /\ h = inbox[1] /\ inbox' \in Seq(Nat)
      /\ \A i \in DOMAIN inbox' : i \in Nat /\ i + 1 \in DOMAIN inbox /\ inbox'[i] = inbox[i + 1]
                                  /\ i + 1 # 1
  BY <1>1, TailPlaces
<1> HIDE DEF h
<1>3. h \in Nat /\ h \in 1 .. queries
  BY <1>1, <1>2
<1>4. PICK x \in FrameType :
          /\ frames' = Append(frames, x) /\ x.type # "chunk" /\ x.query = h
          /\ \/ x.type = "error" /\ answering' = ChatIdle
             \/ x.type = "typing" /\ answering' = [query |-> h, next |-> 1]
  <2>1. CASE LimitReached
    <3>1. frames' = Append(frames, Frame("error", h, 0)) /\ answering' = ChatIdle
      BY <1>1, <2>1 DEF HubReceives, h
    <3>2. /\ Frame("error", h, 0) \in FrameType
          /\ Frame("error", h, 0).type = "error" /\ Frame("error", h, 0).query = h
      BY <1>3 DEF Frame, FrameType
    <3> QED
      BY <3>1, <3>2
  <2>2. CASE ~LimitReached
    <3>1. /\ frames' = Append(frames, Frame("typing", h, 0))
          /\ answering' = [query |-> h, next |-> 1]
      BY <1>1, <2>2 DEF HubReceives, h
    <3>2. /\ Frame("typing", h, 0) \in FrameType
          /\ Frame("typing", h, 0).type = "typing" /\ Frame("typing", h, 0).query = h
      BY <1>3 DEF Frame, FrameType
    <3> QED
      BY <3>1, <3>2
  <2> QED
    BY <2>1, <2>2
<1>5. /\ answering' \in [query : Nat, next : Nat]
      /\ answering' = ChatIdle \/ (answering'.query \in 1 .. queries /\ answering'.next # 0)
      /\ answering'.query \in {0, h} /\ (answering'.next = 1 => answering'.query = h)
  BY <1>3, <1>4 DEF ChatIdle
<1>6. answering' # ChatIdle => Follows(x, answering'.query, answering'.next)
  BY <1>4 DEF Follows
<1>7. OpenedOnce'
  <2>1. \A i \in DOMAIN frames', q \in Nat : Opens(frames'[i], q) =>
            i \in DOMAIN frames /\ frames'[i] = frames[i]
    <3>1. \A i \in DOMAIN frames' :
              (i \in DOMAIN frames /\ frames'[i] = frames[i]) \/ frames'[i] = x
      BY <1>1, <1>4, AppendPlaces
    <3> QED
      BY <1>4, <3>1, ZenonT(30) DEF Opens
  <2>2. ASSUME NEW q \in Nat, NEW i \in DOMAIN frames', Opens(frames'[i], q)
        PROVE  /\ Unanswered(bubbles', q)
               /\ \A j \in DOMAIN frames' : Opens(frames'[j], q) => i = j
               /\ ~(answering'.query = q /\ answering'.next = 1)
               /\ \A j \in DOMAIN inbox' : inbox'[j] # q
    <3>1. i \in DOMAIN frames /\ Opens(frames[i], q)
      BY <2>1, <2>2
    <3>2. /\ Unanswered(bubbles, q)
          /\ \A j \in DOMAIN frames : Opens(frames[j], q) => i = j
          /\ \A j \in DOMAIN inbox : inbox[j] # q
      BY <3>1, ZenonT(30) DEF OpenedOnce
    <3> QED
      BY <1>1, <1>2, <1>5, <2>1, <3>2
  <2>3. answering'.next = 1 => Unanswered(bubbles', answering'.query)
    BY <1>1, <1>2, <1>5 DEF OpenedOnce
  <2>4. ASSUME NEW i \in DOMAIN inbox'
        PROVE  /\ Unanswered(bubbles', inbox'[i]) /\ inbox'[i] # answering'.query
               /\ \A j \in DOMAIN inbox' : inbox'[i] = inbox'[j] => i = j
    <3>1. /\ Unanswered(bubbles, inbox[i + 1]) /\ inbox[i + 1] # h /\ inbox[i + 1] # 0
          /\ \A j \in DOMAIN inbox' : inbox[i + 1] = inbox[j + 1] => i + 1 = j + 1
      <4>1. i + 1 \in DOMAIN inbox /\ i + 1 # 1
        BY <1>2
      <4>2. /\ Unanswered(bubbles, inbox[i + 1])
            /\ \A j \in DOMAIN inbox : inbox[i + 1] = inbox[j] => i + 1 = j
        BY <4>1 DEF OpenedOnce
      <4>3. inbox[i + 1] # 0
        BY <1>1, <4>1
      <4> QED
        BY <1>2, <4>1, <4>2, <4>3
    <3>2. Unanswered(bubbles', inbox'[i]) /\ inbox'[i] # answering'.query
      BY <1>1, <1>2, <1>5, <3>1
    <3>3. ASSUME NEW j \in DOMAIN inbox', inbox'[i] = inbox'[j] PROVE i = j
      <4>1. i + 1 = j + 1 /\ i \in Nat /\ j \in Nat
        BY <1>2, <3>1, <3>3
      <4> QED
        BY <4>1
    <3> QED
      BY <3>2, <3>3, ZenonT(30)
  <2> QED
    BY <1>1, <2>2, <2>3, <2>4, ZenonT(30) DEF OpenedOnce
<1>8. \A i \in DOMAIN inbox' : inbox'[i] \in 1 .. queries
  BY <1>1, <1>2
<1> QED
  BY <1>1, <1>2, <1>4, <1>5, <1>6, <1>7, <1>8, FrameSent, ZenonT(30)

LEMMA HubStreamsInv ==
    ASSUME ChatInv, HubStreams
    PROVE  ChatInv'
<1> USE DEF ChatInv
<1> DEFINE q == answering.query
           k == answering.next
<1>1. /\ answering # ChatIdle /\ answering \in [query : Nat, next : Nat]
      /\ q \in Nat /\ k \in Nat /\ q \in 1 .. queries /\ k # 0 /\ queries \in Nat
      /\ frames \in Seq(FrameType)
      /\ inbox \in Seq(Nat) /\ \A i \in DOMAIN inbox : inbox[i] \in 1 .. queries
      /\ UNCHANGED <<bubbles, queries, inbox>>
  BY DEF HubStreams, ChatTypes, widgetVars
<1>2. CASE k <= Chunks
  <2> DEFINE g == Frame("chunk", q, k)
  <2>1. frames' = Append(frames, g) /\ answering' = [answering EXCEPT !.next = k + 1]
    BY <1>2 DEF HubStreams
  <2>2. g \in FrameType /\ g.type = "chunk" /\ g.query = q /\ g.chunk = k
    BY <1>1 DEF Frame, FrameType
  <2>3. k + 1 \in Nat /\ k + 1 # 0 /\ k + 1 # 1 /\ k + 1 - 1 = k
    BY <1>1
  <2>4. answering' \in [query : Nat, next : Nat] /\ answering'.query = q /\ answering'.next = k + 1
    <3>1. answering = [query |-> q, next |-> k]
      BY <1>1
    <3>2. answering' = [query |-> q, next |-> k + 1]
      BY <2>1, <3>1
    <3> QED
      BY <1>1, <2>3, <3>2
  <2> HIDE DEF g, q, k
  <2>5. Follows(g, answering'.query, answering'.next)
    <3>1. Follows(g, q, k + 1)
      BY <1>1, <2>2, <2>3 DEF Follows
    <3> QED
      BY <2>4, <3>1
  <2>6. /\ \A i \in DOMAIN frames' : i \in DOMAIN frames \/ i = Len(frames) + 1
        /\ \A i \in DOMAIN frames : frames'[i] = frames[i]
        /\ frames'[Len(frames) + 1] = g
    BY <1>1, <2>1, <2>2, AppendPlaces
  <2>7. ASSUME NEW p \in Nat, NEW i \in DOMAIN frames', Opens(frames'[i], p)
        PROVE  /\ Unanswered(bubbles, p)
               /\ \A j \in DOMAIN frames' : Opens(frames'[j], p) => i = j
               /\ \A j \in DOMAIN inbox : inbox[j] # p
    <3>1. Opens(g, p) => k = 1 /\ p = q
      BY <2>2 DEF Opens
    <3>2. CASE i \in DOMAIN frames
      <4>1. /\ Unanswered(bubbles, p) /\ ~(q = p /\ k = 1)
            /\ \A j \in DOMAIN frames : Opens(frames[j], p) => i = j
            /\ \A j \in DOMAIN inbox : inbox[j] # p
        BY <2>6, <2>7, <3>2, ZenonT(30) DEF OpenedOnce, q, k
      <4> QED
        BY <2>6, <3>1, <4>1
    <3>3. CASE i = Len(frames) + 1
      <4>1. k = 1 /\ p = q
        BY <2>6, <2>7, <3>1, <3>3, ZenonT(30)
      <4>2. Unanswered(bubbles, q) /\ \A j \in DOMAIN inbox : inbox[j] # q
        BY <4>1 DEF OpenedOnce, q, k
      <4>3. \A j \in DOMAIN frames : ~Opens(frames[j], q)
        BY <1>1, <4>1 DEF OpenedOnce, q, k
      <4> QED
        BY <2>6, <3>3, <4>1, <4>2, <4>3, ZenonT(30)
    <3> QED
      BY <2>6, <3>2, <3>3, ZenonT(30)
  <2>8. \A i \in DOMAIN inbox : inbox[i] # q
    BY DEF OpenedOnce, q
  <2>9. OpenedOnce'
    BY <1>1, <2>3, <2>4, <2>7, <2>8, ZenonT(30) DEF OpenedOnce
  <2> QED
    BY <1>1, <2>1, <2>2, <2>3, <2>4, <2>5, <2>9, FrameSent DEF q, k
<1>3. CASE ~(k <= Chunks)
  <2> DEFINE g == Frame("done", q, 0)
  <2>1. frames' = Append(frames, g) /\ answering' = ChatIdle
    BY <1>3 DEF HubStreams
  <2>2. g \in FrameType /\ g.type = "done"
    BY <1>1 DEF Frame, FrameType
  <2>3. answering' \in [query : Nat, next : Nat] /\ answering'.query = 0 /\ answering'.next = 0
    BY <2>1 DEF ChatIdle
  <2> HIDE DEF g, q, k
  <2>4. \A i \in DOMAIN frames' : (i \in DOMAIN frames /\ frames'[i] = frames[i]) \/ frames'[i] = g
    BY <1>1, <2>1, <2>2, AppendPlaces
  <2>5. \A p, i : i \in DOMAIN frames' /\ Opens(frames'[i], p) =>
            i \in DOMAIN frames /\ Opens(frames[i], p)
    BY <2>2, <2>4, ZenonT(30) DEF Opens
  <2>6. \A i \in DOMAIN inbox : inbox[i] # 0
    BY <1>1
  <2>7. OpenedOnce'
    BY <1>1, <2>3, <2>5, <2>6 DEF OpenedOnce
  <2> QED
    BY <1>1, <2>1, <2>2, <2>3, <2>7, FrameSent
<1> QED
  BY <1>2, <1>3

LEMMA ExceptSeq ==
    ASSUME NEW S, NEW s \in Seq(S), NEW i \in DOMAIN s, NEW e \in S
    PROVE  [s EXCEPT ![i] = e] \in Seq(S) /\ Len([s EXCEPT ![i] = e]) = Len(s)
  OBVIOUS

\* Chunk k of the answer to q is appended to the last message of b.
Grown(b, q, k) == [b EXCEPT ![Len(b)].content = Append(@, <<q, k>>)]

LEMMA ChunkAppended ==
    ASSUME NEW b \in Seq(MessageType), b # <<>>, NEW q \in Nat, NEW k \in Nat \ {0},
           b[Len(b)].content = Prefix(q, k - 1),
           NEW d, d = Grown(b, q, k)
    PROVE  /\ d \in Seq(MessageType) /\ d # <<>>
           /\ DOMAIN d = DOMAIN b /\ Len(d) = Len(b)
           /\ d[Len(b)].role = b[Len(b)].role /\ d[Len(b)].content = Prefix(q, k)
           /\ \A i \in DOMAIN b : i # Len(b) => d[i] = b[i]
<1> DEFINE l == Len(b)
<1>1. l \in DOMAIN b /\ b[l] \in MessageType
  OBVIOUS
<1>2. k - 1 \in Nat /\ (k - 1) + 1 = k
  OBVIOUS
<1>3. Append(b[l].content, <<q, k>>) = Prefix(q, k) /\ Prefix(q, k) \in Seq(Nat \X Nat)
  <2>1. /\ Append(Prefix(q, k - 1), <<q, (k - 1) + 1>>) = Prefix(q, (k - 1) + 1)
        /\ Prefix(q, k) \in Seq(Nat \X Nat)
    BY <1>2, PrefixFacts, ZenonT(30)
  <2> QED
    BY <1>2, <2>1
<1> DEFINE m == [b[l] EXCEPT !.content = Prefix(q, k)]
           c == [b EXCEPT ![l] = m]
<1>4. d = c
  BY <1>3, ZenonT(30) DEF Grown
<1>5. m \in MessageType /\ m.role = b[l].role /\ m.content = Prefix(q, k)
  BY <1>1, <1>3, ZenonT(30) DEF MessageType
<1> HIDE DEF m, l
<1>6. c \in Seq(MessageType) /\ Len(c) = Len(b)
  BY <1>1, <1>5, ExceptSeq
<1>7. DOMAIN c = DOMAIN b /\ c[l] = m /\ \A i \in DOMAIN b : i # l => c[i] = b[i]
  BY <1>1
<1> HIDE DEF c
<1>8. c # <<>>
  BY <1>1, <1>7
<1> QED
  BY <1>4, <1>5, <1>6, <1>7, <1>8 DEF l

\* The last message, of the agent, grows to the first k chunks of an answer.
LEMMA AnswerGrows ==
    ASSUME ChatInv, NEW q \in 1 .. queries, NEW k \in Nat \ {0},
           bubbles[Len(bubbles)].content = Prefix(q, k - 1),
           k = 1 => Unanswered(bubbles, q),
           queries' = queries, DOMAIN bubbles' = DOMAIN bubbles, Len(bubbles') = Len(bubbles),
           bubbles'[Len(bubbles)].role = "agent",
           bubbles'[Len(bubbles)].content = Prefix(q, k),
           \A i \in DOMAIN bubbles : i # Len(bubbles) => bubbles'[i] = bubbles[i]
    PROVE  /\ Messages'
           /\ \A p \in Nat : \A i, j \in DOMAIN bubbles' :
                ShowsAnswer(bubbles', i, p) /\ ShowsAnswer(bubbles', j, p) => i = j
           /\ \A p \in Nat : ~(p = q /\ k = 1) /\ Unanswered(bubbles, p) => Unanswered(bubbles', p)
           /\ Ready(bubbles', q, k + 1)
<1> USE DEF ChatInv
<1> DEFINE l == Len(bubbles)
<1>1. l \in DOMAIN bubbles /\ queries \in Nat /\ q \in Nat
  BY DEF ChatTypes
<1>2. k - 1 \in Nat /\ k + 1 - 1 = k /\ (k - 1 = 0 <=> k = 1)
  OBVIOUS
<1> HIDE DEF l
<1>3. \A i \in DOMAIN bubbles, p \in Nat : i # l =>
          (ShowsAnswer(bubbles', i, p) <=> ShowsAnswer(bubbles, i, p))
  BY DEF ShowsAnswer, l
<1>4. ASSUME NEW p \in Nat, ShowsAnswer(bubbles', l, p) PROVE p = q
  <2>1. PICK n \in Nat \ {0} : Prefix(q, k) = Prefix(p, n)
    BY <1>4 DEF ShowsAnswer, l
  <2> QED
    BY <1>1, <2>1, PrefixInjective
<1>5. k # 1 => ShowsAnswer(bubbles, l, q)
  BY <1>2 DEF ShowsAnswer, l
<1>6. ASSUME NEW i \in DOMAIN bubbles, i # l PROVE ~ShowsAnswer(bubbles', i, q)
  <2>1. CASE k = 1
    BY <1>1, <1>3, <1>6, <2>1 DEF Unanswered
  <2>2. CASE k # 1
    BY <1>1, <1>3, <1>5, <1>6, <2>2, ZenonT(30) DEF OpenedOnce
  <2> QED
    BY <2>1, <2>2, ZenonT(30)
<1>7. Messages'
  <2> SUFFICES ASSUME NEW i \in DOMAIN bubbles'
               PROVE  \E p, n \in Nat :
                        /\ bubbles'[i].content = Prefix(p, n)
                        /\ n # 0 => p \in 1 .. queries /\ bubbles'[i].role = "agent"
    BY ZenonT(30) DEF Messages
  <2>1. CASE i = l
    <3>1. bubbles'[i].content = Prefix(q, k) /\ bubbles'[i].role = "agent"
      BY <2>1, ZenonT(30) DEF l
    <3> QED
      BY <1>1, <3>1
  <2>2. CASE i # l
    BY <2>2, ZenonT(30) DEF Messages, l
  <2> QED
    BY <2>1, <2>2, ZenonT(30)
<1>8. ASSUME NEW p \in Nat, NEW i \in DOMAIN bubbles', NEW j \in DOMAIN bubbles',
              ShowsAnswer(bubbles', i, p), ShowsAnswer(bubbles', j, p)
       PROVE  i = j
  <2>1. CASE p = q
    BY <1>6, <1>8, <2>1, ZenonT(30)
  <2>2. CASE p # q
    <3>1. i # l /\ j # l
      BY <1>4, <1>8, <2>2, ZenonT(30)
    <3> QED
      BY <1>3, <1>8, <3>1, ZenonT(30) DEF OpenedOnce
  <2> QED
    BY <2>1, <2>2
<1>9. ASSUME NEW p \in Nat, ~(p = q /\ k = 1), Unanswered(bubbles, p)
       PROVE  Unanswered(bubbles', p)
  <2>1. p # q
    BY <1>1, <1>5, <1>9, ZenonT(30) DEF Unanswered
  <2> QED
    BY <1>3, <1>4, <1>9, <2>1, ZenonT(30) DEF Unanswered
<1>10. Ready(bubbles', q, k + 1)
  <2>1. bubbles'[Len(bubbles')].content = Prefix(q, k)
    OBVIOUS
  <2>2. Prefix(q, k + 1 - 1) = Prefix(q, k)
    BY <1>2
  <2> QED
    BY <2>1, <2>2 DEF Ready
<1> QED
  BY <1>7, <1>8, <1>9, <1>10, ZenonT(30)

LEMMA OnMessageInv ==
    ASSUME ChatInv, ChatOnMessage
    PROVE  ChatInv'
<1> USE DEF ChatInv
<1> DEFINE f == Head(frames)
<1>1. /\ frames # <<>> /\ frames' = Tail(frames) /\ UNCHANGED <<queries, inbox, answering>>
      /\ f.type = "error" => bubbles' = Append(bubbles, Bubble("system"))
      /\ f.type = "typing" => bubbles' = OnTyping
      /\ f.type = "chunk" => bubbles' = OnChunk(f)
      /\ f.type = "done" => bubbles' = bubbles
  BY DEF ChatOnMessage
<1>2. /\ frames \in Seq(FrameType) /\ bubbles \in Seq(MessageType) /\ bubbles # <<>>
      /\ queries \in Nat
  BY DEF ChatTypes
<1>3. f = frames[1] /\ 1 \in DOMAIN frames /\ f \in FrameType
  BY <1>1, <1>2
<1>4. /\ f.type \in {"error", "typing", "chunk", "done"} /\ f.query \in Nat /\ f.chunk \in Nat
      /\ queries' \in Nat /\ queries <= queries'
  BY <1>1, <1>2, <1>3 DEF FrameType
<1> HIDE DEF f
<1>5. \A q \in Nat : \A i, j \in DOMAIN bubbles :
          ShowsAnswer(bubbles, i, q) /\ ShowsAnswer(bubbles, j, q) => i = j
  BY DEF OpenedOnce
<1>6. bubbles' = bubbles => Messages'
  BY <1>1, ZenonT(30) DEF Messages
<1>7. CASE f.type \in {"error", "done"}
  <2>1. \A q, k : ~Follows(f, q, k)
    BY <1>7 DEF Follows
  <2>2. CASE f.type = "error"
    BY <1>1, <1>4, <2>1, <2>2, MessageAdded, FrameConsumed, ZenonT(30) DEF f
  <2>3. CASE f.type = "done"
    BY <1>1, <1>2, <1>5, <1>6, <2>1, <2>3, FrameConsumed DEF f
  <2> QED
    BY <1>7, <2>2, <2>3
<1>8. CASE f.type = "typing"
  <2>1. \A q, k : Follows(f, q, k) => k = 1
    BY <1>8 DEF Follows
  <2>2. CASE bubbles[Len(bubbles)] = Bubble("agent")
    <3>1. bubbles' = bubbles
      BY <1>1, <1>8, <2>2 DEF OnTyping
    <3>2. ASSUME NEW q \in Nat PROVE Ready(bubbles', q, 1)
      <4>1. Prefix(q, 0) = <<>>
        BY PrefixFacts
      <4> QED
        BY <2>2, <3>1, <4>1 DEF Ready, Bubble
    <3> QED
      BY <1>1, <1>2, <1>5, <1>6, <2>1, <3>1, <3>2, FrameConsumed, ZenonT(30) DEF f
  <2>3. CASE bubbles[Len(bubbles)] # Bubble("agent")
    <3>1. bubbles' = Append(bubbles, Bubble("agent"))
      BY <1>1, <1>8, <2>3 DEF OnTyping
    <3>2. \A q \in Nat, k \in Nat \ {0} : Follows(f, q, k) => Ready(bubbles', q, k)
      BY <1>4, <2>1, <3>1, MessageAdded
    <3> QED
      BY <1>1, <1>4, <3>1, <3>2, MessageAdded, FrameConsumed, ZenonT(30) DEF f
  <2> QED
    BY <2>2, <2>3
<1>9. CASE f.type = "chunk"
  <2> DEFINE q == f.query
             n == f.chunk
  <2>1. n # 0 /\ n \in Nat \ {0} /\ q \in Nat /\ q \in 1 .. queries /\ Ready(bubbles, q, n)
    BY <1>3, <1>4, <1>9, ZenonT(30) DEF InOrder
  <2>2. n = 1 => Unanswered(bubbles, q)
    <3>1. n = 1 => Opens(frames[1], q)
      BY <1>3, <1>9 DEF Opens
    <3> QED
      BY <1>3, <2>1, <3>1, ZenonT(30) DEF OpenedOnce
  <2>3. \A p \in Nat, k \in Nat \ {0} : Follows(f, p, k) => p = q /\ k = n + 1
    BY <1>9, <2>1 DEF Follows
  <2>4. \A p : ~Opens(f, p) => ~(p = q /\ n = 1)
    BY <1>9 DEF Opens
  <2> HIDE DEF q, n
  <2>5. CASE bubbles[Len(bubbles)].role = "agent"
    <3>1. bubbles' = Grown(bubbles, q, n)
      BY <1>1, <1>9, <2>5 DEF OnChunk, AppendChunk, Grown, q, n
    <3>2. bubbles[Len(bubbles)].content = Prefix(q, n - 1)
      BY <2>1, <2>5, ZenonT(30) DEF Ready
    <3>3. /\ bubbles' \in Seq(MessageType) /\ bubbles' # <<>>
          /\ DOMAIN bubbles' = DOMAIN bubbles /\ Len(bubbles') = Len(bubbles)
          /\ bubbles'[Len(bubbles)].role = "agent"
          /\ bubbles'[Len(bubbles)].content = Prefix(q, n)
          /\ \A i \in DOMAIN bubbles : i # Len(bubbles) => bubbles'[i] = bubbles[i]
      BY <1>2, <2>1, <2>5, <3>1, <3>2, ChunkAppended
    <3>4. /\ Messages'
          /\ \A p \in Nat : \A i, j \in DOMAIN bubbles' :
               ShowsAnswer(bubbles', i, p) /\ ShowsAnswer(bubbles', j, p) => i = j
          /\ \A p \in Nat :
               ~(p = q /\ n = 1) /\ Unanswered(bubbles, p) => Unanswered(bubbles', p)
          /\ Ready(bubbles', q, n + 1)
      BY <1>1, <2>1, <2>2, <3>2, <3>3, AnswerGrows, ZenonT(30)
    <3>5. \A p \in Nat, k \in Nat \ {0} : Follows(f, p, k) => Ready(bubbles', p, k)
      BY <2>3, <3>4, ZenonT(30)
    <3>6. \A p \in Nat : ~Opens(f, p) /\ Unanswered(bubbles, p) => Unanswered(bubbles', p)
      BY <2>4, <3>4
    <3> QED
      BY <1>1, <3>3, <3>4, <3>5, <3>6, FrameConsumed, ZenonT(30) DEF f
  <2>6. CASE bubbles[Len(bubbles)].role # "agent"
    <3>1. bubbles' = bubbles
      BY <1>1, <1>9, <2>6 DEF OnChunk
    <3>2. \A p, k : Ready(bubbles', p, k)
      BY <2>6, <3>1 DEF Ready
    <3> QED
      BY <1>1, <1>2, <1>5, <1>6, <3>1, <3>2, FrameConsumed DEF f
  <2> QED
    BY <2>5, <2>6, ZenonT(30)
<1> QED
  BY <1>4, <1>7, <1>8, <1>9

LEMMA InitChatInv == ChatInit => ChatInv
<1> SUFFICES ASSUME ChatInit PROVE ChatInv
  BY ZenonT(30) DEF ChatInit
<1>1. /\ queries = 0 /\ inbox = <<>> /\ answering = ChatIdle /\ frames = <<>>
      /\ bubbles = <<Bubble("system")>>
  BY DEF ChatInit
<1>2. Bubble("system") \in MessageType /\ Bubble("system").content = <<>>
  BY DEF Bubble, MessageType
<1>3. bubbles \in Seq(MessageType) /\ bubbles # <<>> /\ DOMAIN bubbles = {1}
      /\ bubbles[1].content = <<>>
  BY <1>1, <1>2
<1>4. ChatTypes
  BY <1>1, <1>3 DEF ChatTypes, ChatIdle
<1>5. Messages
  <2>1. bubbles[1].content = Prefix(0, 0)
    BY <1>3, PrefixFacts
  <2> QED
    BY <1>3, <2>1 DEF Messages
<1>6. InOrder
  BY <1>1 DEF InOrder
<1>7. OpenedOnce
  BY <1>1, <1>3 DEF OpenedOnce, ChatIdle
<1> QED
  BY <1>4, <1>5, <1>6, <1>7 DEF ChatInv

LEMMA NextChatInv == ChatInv /\ (ChatNext \/ UNCHANGED chatVars) => ChatInv'
<1> SUFFICES ASSUME ChatInv, ChatNext \/ UNCHANGED chatVars PROVE ChatInv'
  OBVIOUS
<1>1. CASE HandleSend
  BY <1>1, HandleSendInv
<1>2. CASE ChatOnMessage
  BY <1>2, OnMessageInv
<1>3. CASE HubReceives
  BY <1>3, HubReceivesInv
<1>4. CASE HubStreams
  BY <1>4, HubStreamsInv
<1>5. CASE ClosePanel \/ ChatBreaks
  BY <1>5, DisconnectedInv DEF ClosePanel, ChatBreaks, widgetVars
<1>6. CASE UNCHANGED <<bubbles, queries, inbox, answering, frames>>
  BY <1>6, ZenonT(30) DEF ChatInv, ChatTypes, Messages, InOrder, OpenedOnce
<1>7. CASE OpenPanel \/ Connected \/ WindowPasses \/ UNCHANGED chatVars
  BY <1>6, <1>7 DEF OpenPanel, Connected, WindowPasses, chatVars,
                    widgetVars, chatHubVars
<1> QED
  BY <1>1, <1>2, <1>3, <1>4, <1>5, <1>7 DEF ChatNext

LEMMA ChatInvShows == ChatInv => BubbleIsPrefixOfAnswer
<1> SUFFICES ASSUME ChatInv PROVE BubbleIsPrefixOfAnswer
  OBVIOUS
<1> USE DEF ChatInv
<1>1. \A i \in ChatAnswers : i \in DOMAIN bubbles /\ bubbles[i].content # <<>>
  BY DEF ChatAnswers, ChatTypes
<1>2. ASSUME NEW i \in ChatAnswers
      PROVE  \E q \in 1 .. queries, n \in Nat \ {0} : bubbles[i].content = Prefix(q, n)
  <2>1. PICK q, n \in Nat :
            bubbles[i].content = Prefix(q, n) /\ (n # 0 => q \in 1 .. queries)
    BY <1>1 DEF Messages
  <2>2. n # 0
    BY <1>1, <2>1, PrefixFacts
  <2> QED
    BY <2>1, <2>2
<1>3. 1 .. queries \subseteq Nat
  BY DEF ChatTypes
<1>4. ASSUME NEW i \in ChatAnswers
      PROVE  \E q \in 1 .. queries :
                bubbles[i].content = [k \in 1 .. Len(bubbles[i].content) |-> <<q, k>>]
  <2>1. PICK q \in 1 .. queries, n \in Nat \ {0} : bubbles[i].content = Prefix(q, n)
    BY <1>2
  <2>2. Len(bubbles[i].content) = n
    BY <1>3, <2>1, PrefixFacts
  <2> QED
    BY <2>1, <2>2 DEF Prefix
<1>5. ASSUME NEW i \in ChatAnswers, NEW j \in ChatAnswers,
             bubbles[i].content[1] = bubbles[j].content[1]
      PROVE  i = j
  <2>1. PICK q \in 1 .. queries, n \in Nat \ {0} : bubbles[i].content = Prefix(q, n)
    BY <1>2
  <2>2. PICK r \in 1 .. queries, m \in Nat \ {0} : bubbles[j].content = Prefix(r, m)
    BY <1>2
  <2>3. Prefix(q, n)[1] = <<q, 1>> /\ Prefix(r, m)[1] = <<r, 1>> /\ q \in Nat
    BY <1>3, PrefixFacts, ZenonT(30)
  <2>4. q = r
    BY <1>5, <2>1, <2>2, <2>3
  <2> QED
    BY <1>1, <2>1, <2>2, <2>3, <2>4 DEF OpenedOnce, ShowsAnswer
<1> QED
  BY <1>4, <1>5, ZenonT(30) DEF BubbleIsPrefixOfAnswer

\* For answers of any length, any rate limit and any number of queries, sent at
\* any time and over any number of connections: a message of the agent is the
\* beginning of one answer and no answer has two messages.  The widget appends a
\* chunk to its last message only because the hub's loop answers one query at a
\* time and opens each answer with a typing frame.
THEOREM ChatBubbles == ChatSpec => []BubbleIsPrefixOfAnswer
<1>1. ChatInv /\ [ChatNext]_chatVars => ChatInv'
  BY NextChatInv
<1> QED
  BY InitChatInv, <1>1, ChatInvShows, PTL DEF ChatSpec
=============================================================================
