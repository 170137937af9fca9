---------------------------- MODULE OverviewPage ----------------------------
(***************************************************************************)
(* pages/dashboards/OverviewPage.tsx: the alert queue with its triage, the *)
(* activity feed and the handoff note.  The alerts stream and the routes   *)
(* that change an alert are external, as in CommandCenter; the connection  *)
(* of a stream is modelled there, so here a message may come at any time.  *)
(***************************************************************************)
EXTENDS Naturals, Sequences, FiniteSets

CONSTANTS Severity,     \* alert |-> severity
          ActivityCap,  \* activities kept
          MaxMessages   \* bound on the messages of the two streams

Alerts == DOMAIN Severity

ASSUME OverviewAssumption == IsFiniteSet(Alerts) /\ Severity \in [Alerts -> 1..4]

VARIABLES
    metricsState,      \* "loading", "error" or "shown": the hook of the metrics
    myQueueOnly,
    queue,             \* alerts: identifier, severity, assignee
    queueGet,          \* GET /alerts and the list it answers
    queuePatches,      \* escalations and dismissals under way
    messages,          \* messages received so far
    activities,        \* how many activities are shown
    handoffGenerating,
    handoffRequests    \* POST /shifts/handoff under way

queueVars == <<queue, queueGet, queuePatches>>
feedVars == <<messages, activities>>
handoffVars == <<handoffGenerating, handoffRequests>>
overviewVars == <<queueVars, feedVars, handoffVars, metricsState, myQueueOnly>>

Item(a, sev, who) == [id |-> a, severity |-> sev, assignedTo |-> who]
Ids(s) == {s[i].id : i \in DOMAIN s}

Row == [id : Alerts, severity : 1..4, assignedTo : {"me", "team"}]

OverviewTypeOK ==
    /\ metricsState \in {"loading", "error", "shown"}
    /\ myQueueOnly \in BOOLEAN
    /\ queue \in Seq(Row)
    /\ queueGet.st \in {"sent", "answered", "done"}
    /\ queuePatches \subseteq {"escalate", "dismiss"} \X Alerts
    /\ messages \in 0..MaxMessages
    /\ activities \in 0..MaxMessages
    /\ handoffGenerating \in BOOLEAN
    /\ handoffRequests \in Nat

OverviewInit ==
    /\ metricsState = "loading"
    /\ myQueueOnly = FALSE
    /\ queue = <<>>
    /\ queueGet = [st |-> "sent", list |-> <<>>]
    /\ queuePatches = {}
    /\ messages = 0
    /\ activities = 0
    /\ handoffGenerating = FALSE
    /\ handoffRequests = 0

-----------------------------------------------------------------------------
(* The metrics decide whether the page can be used.                        *)
MetricsEnd(state) ==
    /\ metricsState = "loading"
    /\ metricsState' = state
    /\ UNCHANGED <<queueVars, feedVars, handoffVars, myQueueOnly>>

ExecuteMetrics ==
    /\ metricsState = "error"
    /\ metricsState' = "loading"
    /\ UNCHANGED <<queueVars, feedVars, handoffVars, myQueueOnly>>

SetMyQueueOnly(mine) ==
    /\ metricsState = "shown" /\ myQueueOnly # mine
    /\ myQueueOnly' = mine
    /\ UNCHANGED <<queueVars, feedVars, handoffVars, metricsState>>

FilteredAlerts ==
    IF myQueueOnly THEN SelectSeq(queue, LAMBDA x : x.assignedTo = "me") ELSE queue

-----------------------------------------------------------------------------
(* fetchAlerts.  An alert without an assignee gets one at random.          *)
ParsedLists ==
    LET Of(S) == {s \in [1..Cardinality(S) -> {Item(a, Severity[a], who) :
                            a \in S, who \in {"me", "team"}}] : Ids(s) = S}
    IN  UNION {Of(S) : S \in SUBSET Alerts}

HubServesAlerts ==
    /\ queueGet.st = "sent"
    /\ \E s \in ParsedLists : queueGet' = [st |-> "answered", list |-> s]
    /\ UNCHANGED <<queue, queuePatches, feedVars, handoffVars, metricsState, myQueueOnly>>

\* The list is replaced, or the request failed and it is kept.
FetchAlertsEnds ==
    /\ \/ queueGet.st = "answered" /\ queue' = queueGet.list
       \/ queueGet.st # "done" /\ queue' = queue
    /\ queueGet' = [st |-> "done", list |-> <<>>]
    /\ UNCHANGED <<queuePatches, feedVars, handoffVars, metricsState, myQueueOnly>>

-----------------------------------------------------------------------------
(* The streams.                                                            *)

\* [new, ...prev.slice(0, 19)]
Recorded == IF activities >= ActivityCap THEN ActivityCap ELSE activities + 1

Ingested(a) == IF a \in Ids(queue) THEN queue ELSE <<Item(a, Severity[a], "me")>> \o queue

OnAlert(a) ==
    /\ messages < MaxMessages
    /\ messages' = messages + 1
    /\ queue' = Ingested(a)
    /\ activities' = Recorded
    /\ UNCHANGED <<queueGet, queuePatches, handoffVars, metricsState, myQueueOnly>>

OnAgentEvent ==
    /\ messages < MaxMessages
    /\ messages' = messages + 1
    /\ activities' = Recorded
    /\ UNCHANGED <<queueVars, handoffVars, metricsState, myQueueOnly>>

-----------------------------------------------------------------------------
(* Triage.                                                                 *)
HandlePatch(what, a) ==
    /\ metricsState = "shown" /\ a \in Ids(FilteredAlerts)
    /\ queuePatches' = queuePatches \cup {<<what, a>>}
    /\ UNCHANGED <<queue, queueGet, feedVars, handoffVars, metricsState, myQueueOnly>>

\* prev.filter(a => a.id !== id)
Without(a, alerts) ==
    LET kept[i \in 0 .. Len(alerts)] ==
            IF i = 0 THEN <<>>
            ELSE IF alerts[i].id # a THEN Append(kept[i - 1], alerts[i]) ELSE kept[i - 1]
    IN  kept[Len(alerts)]

\* Mutant: the escalated alert is put into the list, be it there or not.
EscalatedOrAdded(a) ==
    <<Item(a, 1, "team")>> \o Without(a, queue)

EscalatedQueue(a) ==
    [i \in DOMAIN queue |-> IF queue[i].id = a THEN [queue[i] EXCEPT !.severity = 1]
                            ELSE queue[i]]

\* A failed escalation changes nothing.
EscalateEnds(a) ==
    /\ <<"escalate", a>> \in queuePatches
    /\ queuePatches' = queuePatches \ {<<"escalate", a>>}
    /\ queue' \in {EscalatedQueue(a), queue}
    /\ UNCHANGED <<queueGet, feedVars, handoffVars, metricsState, myQueueOnly>>

\* handleFalsePositive removes the alert also when the request failed.
FalsePositiveEnds(a) ==
    /\ <<"dismiss", a>> \in queuePatches
    /\ queuePatches' = queuePatches \ {<<"dismiss", a>>}
    /\ queue' = Without(a, queue)
    /\ UNCHANGED <<queueGet, feedVars, handoffVars, metricsState, myQueueOnly>>

-----------------------------------------------------------------------------
(* The handoff note.                                                       *)

HandoffEnabled == ~handoffGenerating

HandleGenerateHandoff ==
    /\ metricsState = "shown" /\ HandoffEnabled
    /\ handoffGenerating' = TRUE
    /\ handoffRequests' = handoffRequests + 1
    /\ UNCHANGED <<queueVars, feedVars, metricsState, myQueueOnly>>

\* Answered or failed: finally.
HandoffEnds ==
    /\ handoffRequests > 0
    /\ handoffRequests' = handoffRequests - 1
    /\ handoffGenerating' = FALSE
    /\ UNCHANGED <<queueVars, feedVars, metricsState, myQueueOnly>>

OverviewNext ==
    \/ MetricsEnd("shown") \/ MetricsEnd("error") \/ ExecuteMetrics
    \/ SetMyQueueOnly(TRUE) \/ SetMyQueueOnly(FALSE)
    \/ HubServesAlerts \/ FetchAlertsEnds
    \/ OnAgentEvent
    \/ \E a \in Alerts : \/ OnAlert(a)
                         \/ HandlePatch("escalate", a) \/ HandlePatch("dismiss", a)
                         \/ EscalateEnds(a) \/ FalsePositiveEnds(a)
    \/ HandleGenerateHandoff \/ HandoffEnds

OverviewSpec == OverviewInit /\ [][OverviewNext]_overviewVars

-----------------------------------------------------------------------------
\* Once the list has been loaded, an alert gets into the queue only by being
\* announced: a late answer to an escalation does not bring back an alert
\* that was dismissed in the meantime.
OnlyStreamAdds ==
    [][queueGet.st = "done" => \A a \in Ids(queue') \ Ids(queue) : OnAlert(a)]_overviewVars
=============================================================================
