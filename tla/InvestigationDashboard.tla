----------------------- MODULE InvestigationDashboard -----------------------
(***************************************************************************)
(* features/investigations/ui/InvestigationDashboard.tsx: one              *)
(* investigation with its log, fed by GET /investigations/{id} and by a    *)
(* stream, and the actions proposed for it.  The page stays mounted when   *)
(* the analyst moves to another investigation with the browser's history.  *)
(*                                                                         *)
(* The answer to GET stands for the investigation it is about.  An action  *)
(* is a name and a target.  A stream of useWebSocketStream connects again  *)
(* after its clean-up (see WebSocketStream), so every investigation seen   *)
(* since the page was mounted may go on adding to the log.                 *)
(*                                                                         *)
(* ThreatIntelPanel.tsx, mounted with the page's panels, fills itself by a *)
(* timer for each address; the timers have one delay and end in order.     *)
(***************************************************************************)
EXTENDS AsyncState, Sequences

CONSTANTS Proposed,    \* investigation |-> its proposed actions
          ApprovalIds, \* slots for POST .../actions: the bound on concurrent ones
          NoAction

Investigations == DOMAIN Proposed
Actions == UNION {Proposed[i] : i \in Investigations}
Name(a) == a[1]

VARIABLES
    investigationId,  \* id of the route
    visited,          \* investigations whose stream was opened
    dashboard,        \* useAsyncState
    urls,             \* the investigation each call asks for
    agentLog,         \* logs: the answer it starts with, and the streams that added to it
    proposals,        \* actions
    approvals,        \* POST requests under way
    approvedNames,    \* history: names of the actions the hub accepted
    intel             \* ThreatIntelPanel: intelData, loading and its timers

dashboardVars == <<investigationId, visited, dashboard, urls, agentLog, proposals,
                   approvals, approvedNames, intel>>

TypeOK ==
    /\ investigationId \in Investigations /\ visited \subseteq Investigations
    /\ dashboard \in HookType(Investigations)
    /\ urls \in [FetchIds -> Investigations]
    /\ agentLog \in [from : Investigations \cup {NoData}, streams : SUBSET Investigations]
    /\ proposals \subseteq Actions
    /\ approvals \in [ApprovalIds -> Actions \cup {NoAction}]
    /\ approvedNames \subseteq {Name(a) : a \in Actions}
    /\ intel.about \in Investigations \cup {NoData} /\ intel.loading \in BOOLEAN
    /\ intel.timers \in Seq(Investigations)

Fresh == [about |-> NoData, loading |-> TRUE, timers |-> <<>>]

Init ==
    /\ investigationId \in Investigations
    /\ visited = {investigationId}
    /\ dashboard = Execute(Mounted)
    /\ urls = [f \in FetchIds |-> investigationId]
    /\ agentLog = [from |-> NoData, streams |-> {}]
    /\ proposals = {}
    /\ approvals = [p \in ApprovalIds |-> NoAction]
    /\ approvedNames = {}
    /\ intel = Fresh

\* The skeleton replaces every panel of the page while a call is under way.
Panels(h) == ~h.loading /\ h.data # NoData

\* The panel when the hook of the page becomes h: unmounted with the others,
\* mounted afresh, or with an address that may be another.
IntelEffect(h) ==
    IF ~Panels(h) THEN intel' = Fresh
    ELSE IF ~Panels(dashboard) THEN intel' = [Fresh EXCEPT !.timers = <<h.data>>]
    ELSE IF h.data # dashboard.data
         THEN intel' = [intel EXCEPT !.loading = TRUE, !.timers = Append(@, h.data)]
         ELSE UNCHANGED intel

IntelArrives ==
    /\ intel.timers # <<>>
    /\ intel' = [about |-> Head(intel.timers), loading |-> FALSE,
                 timers |-> Tail(intel.timers)]
    /\ UNCHANGED <<investigationId, visited, dashboard, urls, agentLog, proposals,
                   approvals, approvedNames>>

\* execute for the investigation i.
Fetch(i) ==
    /\ CanExecute(dashboard)
    /\ dashboard' = Execute(dashboard)
    /\ urls' = [f \in FetchIds |->
          IF f \in Free(dashboard) \ Free(dashboard') THEN i ELSE urls[f]]
    /\ IntelEffect(dashboard')

\* The effects on id: the page is asked for again and the stream is opened.
GoTo(i) ==
    /\ i # investigationId
    /\ investigationId' = i
    /\ visited' = visited \cup {i}
    /\ Fetch(i)
    /\ UNCHANGED <<agentLog, proposals, approvals, approvedNames>>

Retry ==
    /\ ~dashboard.loading /\ dashboard.error /\ dashboard.data = NoData
    /\ Fetch(investigationId)
    /\ UNCHANGED <<investigationId, visited, agentLog, proposals, approvals, approvedNames>>

HubAnswers(f) ==
    /\ dashboard.calls[f].st = "sent"
    /\ dashboard' = Served(dashboard, f, urls[f])
    /\ UNCHANGED <<investigationId, visited, urls, agentLog, proposals, approvals,
                   approvedNames, intel>>

\* Mutant: the answer's actions are added to those listed.
LoadedAdding(f) ==
    /\ f \in Answered(dashboard)
    /\ dashboard' = Resolve(dashboard, f)
    /\ agentLog' = [from |-> dashboard.calls[f].v, streams |-> {}]
    /\ proposals' = proposals \cup Proposed[dashboard.calls[f].v]
    /\ IntelEffect(dashboard')
    /\ UNCHANGED <<investigationId, visited, urls, approvals, approvedNames>>

\* fetchFn after its await and execute after its own, in one rendering: the
\* answer replaces the log, also what the stream has added, and the actions.
Loaded(f) ==
    /\ f \in Answered(dashboard)
    /\ dashboard' = Resolve(dashboard, f)
    /\ agentLog' = [from |-> dashboard.calls[f].v, streams |-> {}]
    /\ proposals' = Proposed[dashboard.calls[f].v]
    /\ IntelEffect(dashboard')
    /\ UNCHANGED <<investigationId, visited, urls, approvals, approvedNames>>

NotLoaded(f) ==
    /\ f \in InFlight(dashboard)
    /\ dashboard' = Reject(dashboard, f)
    /\ IntelEffect(dashboard')
    /\ UNCHANGED <<investigationId, visited, urls, agentLog, proposals, approvals,
                   approvedNames>>

OnLog(i) ==
    /\ i \in visited
    /\ agentLog' = [agentLog EXCEPT !.streams = @ \cup {i}]
    /\ UNCHANGED <<investigationId, visited, dashboard, urls, proposals, approvals,
                   approvedNames, intel>>

\* The cards with their buttons, which are never disabled.
Cards == IF Panels(dashboard) THEN proposals ELSE {}

\* handleActionApprove up to its await.
HandleActionApprove(a, p) ==
    /\ a \in Cards /\ approvals[p] = NoAction
    /\ approvals' = [approvals EXCEPT ![p] = a]
    /\ UNCHANGED <<investigationId, visited, dashboard, urls, agentLog, proposals,
                   approvedNames, intel>>

\* The hub accepts; every listed action of that name goes.
Approved(p) ==
    /\ approvals[p] # NoAction
    /\ approvals' = [approvals EXCEPT ![p] = NoAction]
    /\ approvedNames' = approvedNames \cup {Name(approvals[p])}
    /\ proposals' = {a \in proposals : Name(a) # Name(approvals[p])}
    /\ UNCHANGED <<investigationId, visited, dashboard, urls, agentLog, intel>>

NotApproved(p) ==
    /\ approvals[p] # NoAction
    /\ approvals' = [approvals EXCEPT ![p] = NoAction]
    /\ UNCHANGED <<investigationId, visited, dashboard, urls, agentLog, proposals,
                   approvedNames, intel>>

Next ==
    \/ \E i \in Investigations : GoTo(i) \/ OnLog(i)
    \/ Retry \/ IntelArrives
    \/ \E f \in FetchIds : HubAnswers(f) \/ Loaded(f) \/ NotLoaded(f)
    \/ \E p \in ApprovalIds : \/ \E a \in Actions : HandleActionApprove(a, p)
                              \/ Approved(p) \/ NotApproved(p)

-----------------------------------------------------------------------------
\* The log, the actions and the rest of the page come from one answer, however
\* the answers for two investigations overtake each other.  (They need not be
\* the answer for the investigation in the heading: the hook applies a late
\* answer like any other.)
PanelsAgree ==
    /\ agentLog.from = dashboard.data
    /\ \A a \in proposals : dashboard.data # NoData /\ a \in Proposed[dashboard.data]

\* An action of the answer on the screen is missing from the list only when
\* the hub has accepted an action of that name: a request that failed, in
\* whatever order the answers come, takes nothing away.
MissingWasApproved ==
    dashboard.data # NoData =>
        \A a \in Proposed[dashboard.data] \ proposals : Name(a) \in approvedNames

\* Once its timers have run out, the intelligence panel is about the address
\* of the page, though an answer may change the address under a panel that is
\* still waiting for the last one.
IntelOfPage ==
    Panels(dashboard) /\ intel.timers = <<>> => intel.about = dashboard.data /\ ~intel.loading
=============================================================================
