---------------------------- MODULE CommandCenter ----------------------------
(***************************************************************************)
(* features/investigations/ui/CommandCenter.tsx, the first page: the       *)
(* alerts of GET /alerts and of the alerts stream, the quick triage of an  *)
(* alert, and usePolling.ts for the metrics.  The alerts stream and the    *)
(* routes that acknowledge and assign an alert are external: the hub of    *)
(* this repository has a stream that announces nothing and no such routes. *)
(***************************************************************************)
EXTENDS WebSocketStream, Sequences, FiniteSets

CONSTANTS Severity,        \* alert |-> severity
          MaxAnnouncements \* bound on what the stream announces

Alerts == DOMAIN Severity

VARIABLES
    ccMounted,
    ccAlerts,       \* alerts, in the order shown
    alertStream,    \* useWebSocketStream
    initialGet,     \* GET /alerts and the list it answers
    hubAlerts,      \* the alerts the hub has open
    announced,      \* announcements made so far
    triage,         \* PATCH requests under way
    poll,           \* usePolling: "inflight", "waiting", "aborted", "stopped"
    metricsShown    \* metrics and metricsError

alertVars == <<ccAlerts, initialGet, hubAlerts, announced, triage>>
ccVars == <<alertVars, ccMounted, alertStream, poll, metricsShown>>

Listed(s) == {s[i] : i \in DOMAIN s}

CenterTypeOK ==
    /\ ccMounted \in BOOLEAN
    /\ ccAlerts \in Seq(Alerts)
    /\ alertStream \in StreamType
    /\ initialGet.st \in {"sent", "answered", "done"}
    /\ hubAlerts \subseteq Alerts
    /\ announced \in 0..MaxAnnouncements
    /\ triage \subseteq {"acknowledge", "assign"} \X Alerts
    /\ poll \in {"inflight", "waiting", "aborted", "stopped"}
    /\ metricsShown \in [data : BOOLEAN, error : BOOLEAN]

CenterInit ==
    /\ ccMounted = TRUE
    /\ ccAlerts = <<>>
    /\ alertStream = StreamStart
    /\ initialGet = [st |-> "sent", list |-> <<>>]
    /\ hubAlerts \in SUBSET Alerts
    /\ announced = 0
    /\ triage = {}
    /\ poll = "inflight"
    /\ metricsShown = [data |-> FALSE, error |-> FALSE]

-----------------------------------------------------------------------------
(* Alerts.  setAlerts does nothing once the page is unmounted.             *)
SetAlerts(s) == ccAlerts' = IF ccMounted THEN s ELSE ccAlerts

Orders(S) == {s \in [1..Cardinality(S) -> S] : Listed(s) = S}

HubServesAlerts ==
    /\ initialGet.st = "sent"
    /\ \E s \in Orders(hubAlerts) : initialGet' = [st |-> "answered", list |-> s]
    /\ UNCHANGED <<ccMounted, ccAlerts, alertStream, hubAlerts, announced, triage,
                   poll, metricsShown>>

\* The answer replaces the list, whatever the stream has added to it.
AlertsLoaded ==
    /\ initialGet.st = "answered"
    /\ SetAlerts(initialGet.list)
    /\ initialGet' = [st |-> "done", list |-> <<>>]
    /\ UNCHANGED <<ccMounted, alertStream, hubAlerts, announced, triage, poll,
                   metricsShown>>

AlertsNotLoaded ==
    /\ initialGet.st # "done"
    /\ initialGet' = [st |-> "done", list |-> <<>>]
    /\ UNCHANGED <<ccMounted, ccAlerts, alertStream, hubAlerts, announced, triage,
                   poll, metricsShown>>

\* sort is stable; the larger severity comes first.
BySeverity(s) ==
    LET Levels == {Severity[a] : a \in Alerts}
        Of(v) == SelectSeq(s, LAMBDA a : Severity[a] = v)
        from[V \in SUBSET Levels] ==
            IF V = {} THEN <<>>
            ELSE LET top == CHOOSE v \in V : \A w \in V : w <= v
                 IN  Of(top) \o from[V \ {top}]
    IN  from[Levels]

WithAlert(a, s) == IF a \in Listed(s) THEN s ELSE BySeverity(<<a>> \o s)

\* The stream announces a new alert, or one a second time.
OnAlert(a) ==
    /\ alertStream.sock = "open" /\ announced < MaxAnnouncements
    /\ announced' = announced + 1
    /\ hubAlerts' = hubAlerts \cup {a}
    /\ SetAlerts(WithAlert(a, ccAlerts))
    /\ UNCHANGED <<ccMounted, alertStream, initialGet, triage, poll, metricsShown>>

\* handleAcknowledge and handleAssignToMe, up to the await.
HandleTriage(what, a) ==
    /\ ccMounted /\ a \in Listed(ccAlerts)
    /\ triage' = triage \cup {<<what, a>>}
    /\ UNCHANGED <<ccMounted, ccAlerts, alertStream, initialGet, hubAlerts,
                   announced, poll, metricsShown>>

Acknowledged(t) ==
    /\ t \in triage /\ t[1] = "acknowledge"
    /\ triage' = triage \ {t}
    /\ hubAlerts' = hubAlerts \ {t[2]}
    /\ SetAlerts(SelectSeq(ccAlerts, LAMBDA b : b # t[2]))
    /\ UNCHANGED <<ccMounted, alertStream, initialGet, announced, poll, metricsShown>>

\* Assigned, or the request failed: the list stays as it is.
TriageLeavesList(t) ==
    /\ t \in triage
    /\ triage' = triage \ {t}
    /\ UNCHANGED <<ccMounted, ccAlerts, alertStream, initialGet, hubAlerts,
                   announced, poll, metricsShown>>

-----------------------------------------------------------------------------
(* The connection of the stream.                                           *)
StreamStep(guard, s) ==
    /\ guard
    /\ alertStream' = s
    /\ UNCHANGED <<alertVars, ccMounted, poll, metricsShown>>

StreamOpens == StreamStep(alertStream.sock = "connecting", OnStreamOpen(alertStream))
StreamCloses == StreamStep(alertStream.sock # "none", OnStreamClose(alertStream))

StreamReconnects == StreamStep(alertStream.timer > 0, Reconnect(alertStream))

-----------------------------------------------------------------------------
(* usePolling: the next poll is scheduled when the last one has ended.     *)

PollEnds(error) ==
    /\ poll = "inflight"
    /\ poll' = "waiting"
    /\ metricsShown' = [data |-> metricsShown.data \/ ~error, error |-> error]
    /\ UNCHANGED <<alertVars, ccMounted, alertStream>>

PollAgain ==
    /\ poll = "waiting"
    /\ poll' = "inflight"
    /\ UNCHANGED <<alertVars, ccMounted, alertStream, metricsShown>>

\* CanceledError: return before the timer is set.
PollCancelled ==
    /\ poll = "aborted"
    /\ poll' = "stopped"
    /\ UNCHANGED <<alertVars, ccMounted, alertStream, metricsShown>>

\* The clean-ups of both hooks.
Leave ==
    /\ ccMounted
    /\ ccMounted' = FALSE
    /\ poll' = IF poll = "inflight" THEN "aborted" ELSE "stopped"
    /\ alertStream' = StreamCleanup(alertStream)
    /\ UNCHANGED <<alertVars, metricsShown>>

CenterNext ==
    \/ HubServesAlerts \/ AlertsLoaded \/ AlertsNotLoaded
    \/ \E a \in Alerts : \/ OnAlert(a)
                         \/ HandleTriage("acknowledge", a) \/ HandleTriage("assign", a)
    \/ \E t \in triage : Acknowledged(t) \/ TriageLeavesList(t)
    \/ StreamOpens \/ StreamCloses \/ StreamReconnects
    \/ PollEnds(TRUE) \/ PollEnds(FALSE) \/ PollAgain \/ PollCancelled
    \/ Leave

CenterSpec == CenterInit /\ [][CenterNext]_ccVars

-----------------------------------------------------------------------------
\* The hook of the stream has one connection or one attempt to come, never
\* both and, while the page is open, never neither; its light says which.
OneConnection ==
    LET s == alertStream IN
    /\ s.sock = "none" \/ s.timer = 0
    /\ ccMounted => s.sock # "none" \/ s.timer > 0
    /\ ccMounted => (s.connected <=> s.sock = "open")
=============================================================================
