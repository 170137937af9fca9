------------------------- MODULE IntelligenceEngine -------------------------
(***************************************************************************)
(* push_agent_logs of interfaces/agent_routes.py and the background loop   *)
(* of domain/Intelligence/AIIntelligenceEngine.py, which meet at the       *)
(* bounded queue _internal_event_bus.  Both run on one event loop: what    *)
(* lies between two awaits is one step.                                    *)
(*                                                                         *)
(* An event is its tenant, its severity class and the time it was queued.  *)
(* queued is a history variable: every event the queue accepted, in order. *)
(***************************************************************************)
EXTENDS Integers, Sequences

CONSTANTS
    Tenants,
    Requests,             \* concurrent POST /v1/agent/push calls
    Batches,              \* severity sequences a call may carry
    None,
    Environments,         \* values of ENVIRONMENT
    BusSize,              \* maxsize of the queue (50 000 in the code)
    WindowSize,           \* maxlen of a tenant's window (1000)
    WarningThreshold,     \* ANOMALY_THRESHOLD_WARNING (5)
    CriticalThreshold,    \* ANOMALY_THRESHOLD_CRITICAL (2)
    Cooldown,             \* seconds between two triages of a tenant (60)
    MaxTime, MaxPushes    \* bounds

ASSUME EngineAssumption ==
    /\ Batches \subseteq Seq({"INFO", "WARNING", "CRITICAL"})
    /\ Environments \subseteq {"development", "production"}
    /\ {BusSize, WindowSize, WarningThreshold, CriticalThreshold, Cooldown} \subseteq Nat \ {0}
    /\ {MaxTime, MaxPushes} \subseteq Nat

VARIABLES
    push,      \* request -> the batch being forwarded to core-ingest, or None
    bus,       \* _internal_event_bus
    window,    \* _tenant_windows
    cooldown,  \* _triage_cooldown: time of a tenant's last triage
    triage,    \* the triage the loop awaits, or None
    alerts,    \* rows of audit_logs written by _emit_alert, per tenant
    task,      \* the asyncio task of the loop
    environment, now, pushes, queued

vars == <<push, bus, window, cooldown, triage, alerts, task, environment, now, pushes,
          queued>>

\* The clock is the time of day: the default 0 of _triage_cooldown.get is long past.
Init ==
    /\ push = [r \in Requests |-> None]
    /\ bus = <<>> /\ queued = <<>>
    /\ window = [t \in Tenants |-> <<>>]
    /\ cooldown = [t \in Tenants |-> -Cooldown]
    /\ triage = None /\ task = "running" /\ environment \in Environments
    /\ alerts = [t \in Tenants |-> 0]
    /\ now = 0 /\ pushes = 0

-----------------------------------------------------------------------------
(* push_agent_logs.                                                          *)

\* Up to the call of core-ingest.
Push(r, t, batch) ==
    /\ task = "running" /\ push[r] = None /\ pushes < MaxPushes
    /\ push' = [push EXCEPT ![r] = [tenant |-> t, batch |-> batch]]
    /\ pushes' = pushes + 1
    /\ UNCHANGED <<bus, window, cooldown, triage, alerts, task, now, queued, environment>>

Enriched(p) ==
    [i \in 1 .. Len(p.batch) |-> [tenant |-> p.tenant, severity |-> p.batch[i], at |-> now]]

\* Mutant: a full queue makes room for the new event.
ingest_eventDropOldest(b, e) == IF Len(b) < BusSize THEN Append(b, e) ELSE Append(Tail(b), e)

\* put_nowait: an event that finds the queue full is dropped.
ingest_event(b, e) == IF Len(b) < BusSize THEN Append(b, e) ELSE b

\* The for loop over the enriched events: none of its awaits suspends.
ingest_events(b, events) ==
    LET after[i \in 0 .. Len(events)] ==
            IF i = 0 THEN b ELSE ingest_event(after[i - 1], events[i])
    IN  after[Len(events)]

Feed(r) ==
    LET after == ingest_events(bus, Enriched(push[r]))
    IN  /\ bus' = after
        /\ queued' = queued \o SubSeq(after, Len(bus) + 1, Len(after))

\* core-ingest accepted the events.
Forwarded(r) ==
    /\ push[r] # None
    /\ Feed(r)
    /\ push' = [push EXCEPT ![r] = None]
    /\ UNCHANGED <<window, cooldown, triage, alerts, task, now, pushes, environment>>

\* core-ingest refused them, or did not answer: 502 or 503, and in development
\* the events are analysed all the same.
ForwardFailed(r) ==
    /\ push[r] # None
    /\ IF environment = "development" THEN Feed(r) ELSE UNCHANGED <<bus, queued>>
    /\ push' = [push EXCEPT ![r] = None]
    /\ UNCHANGED <<window, cooldown, triage, alerts, task, now, pushes, environment>>

-----------------------------------------------------------------------------
(* run_intelligence_loop.                                                    *)

CountOf(w, s) == Len(SelectSeq(w, LAMBDA e : e.severity = s))

check_anomaly_thresholds(w) ==
    \/ CountOf(w, "WARNING") >= WarningThreshold
    \/ CountOf(w, "CRITICAL") >= CriticalThreshold

\* deque(maxlen): the oldest event makes room.
Appended(w, e) == IF Len(w) < WindowSize THEN Append(w, e) ELSE Append(Tail(w), e)

\* Mutant: the cool-down ends a second early.
CoolEarly(t) == now - cooldown[t] >= Cooldown - 1

Cool(t) == now - cooldown[t] >= Cooldown

\* From the event out of the queue to the await of a database connection.
Consume ==
    LET e == Head(bus)
        w == Appended(window[e.tenant], e)
    IN  /\ task = "running" /\ triage = None /\ bus # <<>>
        /\ bus' = Tail(bus)
        /\ window' = [window EXCEPT ![e.tenant] = w]
        /\ IF Cool(e.tenant) /\ check_anomaly_thresholds(w)
           THEN /\ cooldown' = [cooldown EXCEPT ![e.tenant] = now]
                /\ triage' = [tenant |-> e.tenant, events |-> w]
           ELSE UNCHANGED <<cooldown, triage>>
        /\ UNCHANGED <<push, alerts, task, now, pushes, queued, environment>>

\* run_triage does not exist in the module it is imported from: the import
\* raises, which is caught and answered with None.
classify_batch == None

\* _emit_alert: one row of audit_logs.
emit_alert(t) == [alerts EXCEPT ![t] = @ + 1]

\* The triage with a database connection, an alert for its classification.
Triaged ==
    /\ task = "running" /\ triage # None
    /\ alerts' = IF classify_batch # None THEN emit_alert(triage.tenant) ELSE alerts
    /\ triage' = None
    /\ UNCHANGED <<push, bus, window, cooldown, task, now, pushes, queued, environment>>

\* Mutant: the exception leaves the loop.
TriageFailedRaises ==
    /\ task = "running" /\ triage # None
    /\ triage' = None
    /\ task' = "failed"
    /\ UNCHANGED <<push, bus, window, cooldown, alerts, now, pushes, queued, environment>>

\* No database connection: logged, and the loop goes on.
TriageFailed ==
    /\ task = "running" /\ triage # None
    /\ triage' = None
    /\ UNCHANGED <<push, bus, window, cooldown, alerts, task, now, pushes, queued, environment>>

\* The end of lifespan, once the server has answered its requests: what is in
\* the queue is not analysed.
Shutdown ==
    /\ task = "running" /\ \A r \in Requests : push[r] = None
    /\ task' = "cancelled" /\ triage' = None
    /\ UNCHANGED <<push, bus, window, cooldown, alerts, now, pushes, queued, environment>>

Tick ==
    /\ now < MaxTime
    /\ now' = now + 1
    /\ UNCHANGED <<push, bus, window, cooldown, triage, alerts, task, pushes, queued, environment>>

Loop == Consume \/ Triaged \/ TriageFailed

Next ==
    \/ \E r \in Requests : \/ \E t \in Tenants, batch \in Batches : Push(r, t, batch)
                           \/ Forwarded(r) \/ ForwardFailed(r)
    \/ Loop \/ Shutdown \/ Tick

Spec == Init /\ [][Next]_vars

\* The event loop runs the task; the connection pool answers; time passes.
Fairness == WF_vars(Loop) /\ WF_vars(Tick) /\
            \A r \in Requests : WF_vars(Forwarded(r) \/ ForwardFailed(r))

FairSpec == Spec /\ Fairness

-----------------------------------------------------------------------------
(* Properties.                                                               *)

\* The events of tenant t in s, in their order.
Of(t, s) ==
    LET kept[i \in 0 .. Len(s)] ==
            IF i = 0 THEN <<>>
            ELSE IF s[i].tenant = t THEN Append(kept[i - 1], s[i]) ELSE kept[i - 1]
    IN  kept[Len(s)]

\* The last events of all, in number as many as in w, are w.
Ends(w, all) ==
    Len(w) <= Len(all) /\ w = SubSeq(all, Len(all) - Len(w) + 1, Len(all))

\* No event is lost, duplicated or reordered between the queue and a tenant's
\* window: what is in the window and then in the queue are the latest events of
\* the tenant that the queue accepted, and the window is full before it forgets.
WindowIsRecentHistory ==
    \A t \in Tenants :
        LET seen == window[t] \o Of(t, bus)
        IN  /\ Ends(seen, Of(t, queued))
            /\ Len(seen) < Len(Of(t, queued)) => Len(window[t]) = WindowSize

\* "avoid re-triggering on the same tenant within 60s", through failed triages too.
NoAlertStorm ==
    [][\A t \in Tenants :
          triage = None /\ triage' # None /\ triage'.tenant = t
              => /\ cooldown'[t] = now
                 /\ now - cooldown[t] >= Cooldown]_vars

\* The loop outlives every failed triage: unless the server is shut down, each
\* queued event is analysed.
QueueDrains == <>[](task = "cancelled" \/ (bus = <<>> /\ triage = None))
=============================================================================
