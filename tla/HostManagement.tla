--------------------------- MODULE HostManagement ---------------------------
(***************************************************************************)
(* The host table of pages/endpoints/HostManagementPage.tsx: the fleet is  *)
(* fetched, refreshed when an agent enrols, filtered, selected, updated in *)
(* bulk and has its credentials rotated.  The enrolment dialog of the page *)
(* is in EnrollModal.                                                      *)
(*                                                                         *)
(* A fleet maps every host to what the page tells apart: not listed, an    *)
(* old agent, or an agent of the latest version.  Toasts only report what  *)
(* a step did and are left out.                                            *)
(***************************************************************************)
EXTENDS AsyncState, FiniteSets, Naturals

CONSTANTS Hosts,      \* hosts that are or may become enrolled
          Enrolled,   \* the ones enrolled at the start
          Found,      \* the hosts the search term matches
          Views,      \* the filter tabs and search terms explored
          Rotatable,  \* the hosts whose rotation is explored
          MaxNotices  \* bound on enrolment events under way

VARIABLES
    fleet,         \* the hub's inventory
    notices,       \* endpoint_enrolled events on the socket
    page,          \* the useAsyncState record of the page
    selectedIds,
    view,          \* viewFilter and searchTerm
    bulkProgress,  \* NoProgress, or the counters the bar shows
    loops,         \* calls of handleBulkAction that have not ended
    rotateConfirmHost, \* the host of the confirmation dialog
    rotating,      \* hosts whose rotation has been posted
    chosen         \* history: hosts some bulk action was started for

tableVars == <<selectedIds, view>>
bulkVars == <<bulkProgress, loops, chosen>>
rotateVars == <<rotateConfirmHost, rotating>>
hostVars == <<fleet, notices, page, tableVars, bulkVars, rotateVars>>

Fleets == [Hosts -> {"absent", "old", "latest"}]
\* A page can fetch, and no fleet is the null of a hook without data.
ASSUME HostsAssumption ==
    /\ Enrolled \subseteq Hosts /\ Found \subseteq Hosts /\ Rotatable \subseteq Hosts
    /\ IsFiniteSet(Hosts) /\ MaxNotices \in Nat
    /\ FetchIds # {} /\ NoData \notin Fleets

NoProgress == [total |-> 0, completed |-> 0, failed |-> 0]
NoHost == "no host"

HostsTypeOK ==
    /\ fleet \in Fleets
    /\ notices \in 0..MaxNotices
    /\ page \in HookType(Fleets)
    /\ selectedIds \subseteq Hosts
    /\ view \in Views
    /\ bulkProgress \in [total : 0..Cardinality(Hosts),
                         completed : 0..Cardinality(Hosts),
                         failed : 0..Cardinality(Hosts)]
    /\ \A l \in loops :
          /\ l.action \in {"restart", "update"}
          /\ l.todo \subseteq l.ids /\ l.ids \subseteq Hosts
          /\ l.view \in Fleets
          /\ l.completed + l.failed + Cardinality(l.todo) = Cardinality(l.ids)
    /\ rotateConfirmHost \in Hosts \cup {NoHost}
    /\ rotating \subseteq Hosts
    /\ chosen \subseteq Hosts

-----------------------------------------------------------------------------
(* What the page renders.                                                  *)

Listed(data) == {h \in Hosts : data # NoData /\ data[h] # "absent"}

\* filteredData: the filter tab and the search term, both over the page's data.
FilteredData ==
    {h \in Listed(page.data) :
        /\ view.filter = "out-of-compliance" => page.data[h] = "old"
        /\ view.term # "" => h \in Found}

\* Neither the skeleton nor the error state stands in for the page.
Interactive == ~page.loading /\ ~(page.error /\ page.data = NoData)

\* The rows of the table, each with its checkbox and its buttons.
Rows == IF Interactive THEN FilteredData ELSE {}

\* The bar of bulk operations offers its buttons only while none is running.
BulkButtons == Interactive /\ selectedIds # {} /\ bulkProgress = NoProgress

-----------------------------------------------------------------------------
HostsInit ==
    /\ fleet = [h \in Hosts |-> IF h \in Enrolled THEN "old" ELSE "absent"]
    /\ notices = 0
    /\ page = Execute(Mounted)
    /\ selectedIds = {}
    /\ view = [filter |-> "all", term |-> ""]
    /\ bulkProgress = NoProgress
    /\ loops = {}
    /\ rotateConfirmHost = NoHost
    /\ rotating = {}
    /\ chosen = {}

(* The hub: an endpoint enrols and is announced on /api/ws/endpoints.      *)
HostEnrolls(h) ==
    /\ fleet[h] = "absent"
    /\ notices < MaxNotices
    /\ fleet' = [fleet EXCEPT ![h] = "old"]
    /\ notices' = notices + 1
    /\ UNCHANGED <<page, tableVars, bulkVars, rotateVars>>

\* The socket is down when the event is sent; it is not repeated.
NoticeLost ==
    /\ notices > 0
    /\ notices' = notices - 1
    /\ UNCHANGED <<fleet, page, tableVars, bulkVars, rotateVars>>

\* GET /endpoints/hosts reads the inventory.
HubListsHosts(f) ==
    /\ page.calls[f].st = "sent"
    /\ page' = Served(page, f, fleet)
    /\ UNCHANGED <<fleet, notices, tableVars, bulkVars, rotateVars>>

(* The page's own calls.                                                   *)
FetchResolves(f) ==
    /\ f \in Answered(page)
    /\ page' = Resolve(page, f)
    /\ UNCHANGED <<fleet, notices, tableVars, bulkVars, rotateVars>>

FetchFails(f) ==
    /\ f \in InFlight(page)
    /\ page' = Reject(page, f)
    /\ UNCHANGED <<fleet, notices, tableVars, bulkVars, rotateVars>>

\* The listener of the enrolment events fetches again, whatever is loading.
AgentConnected ==
    /\ notices > 0
    /\ notices' = notices - 1
    /\ CanExecute(page)
    /\ page' = Execute(page)
    /\ UNCHANGED <<fleet, tableVars, bulkVars, rotateVars>>

\* The error state offers to retry.
RetryHosts ==
    /\ ~page.loading /\ page.error /\ page.data = NoData
    /\ CanExecute(page)
    /\ page' = Execute(page)
    /\ UNCHANGED <<fleet, notices, tableVars, bulkVars, rotateVars>>

(* The toolbar and the table.                                              *)
SetView ==
    /\ Interactive
    /\ view' \in Views \ {view}
    /\ UNCHANGED <<fleet, notices, page, selectedIds, bulkVars, rotateVars>>

ToggleSelect(h) ==
    /\ h \in Rows
    /\ selectedIds' = IF h \in selectedIds THEN selectedIds \ {h}
                                           ELSE selectedIds \cup {h}
    /\ UNCHANGED <<fleet, notices, page, view, bulkVars,
                   rotateVars>>

\* The two sets are compared by their sizes alone.
ToggleSelectAll ==
    /\ Interactive
    /\ selectedIds' =
          IF Cardinality(selectedIds) = Cardinality(FilteredData)
            THEN {} ELSE FilteredData
    /\ UNCHANGED <<fleet, notices, page, view, bulkVars,
                   rotateVars>>

ClearSelection ==
    /\ BulkButtons
    /\ selectedIds' = {}
    /\ UNCHANGED <<fleet, notices, page, view, bulkVars,
                   rotateVars>>

(* handleBulkAction: the loop works on the selection and the data of the   *)
(* render it was started from, and each of its steps sets the page's data. *)
HandleBulkAction(action) ==
    /\ BulkButtons
    /\ bulkProgress' = [total |-> Cardinality(selectedIds),
                        completed |-> 0, failed |-> 0]
    /\ loops' = loops \cup
          {[action |-> action, ids |-> selectedIds, todo |-> selectedIds,
            view |-> page.data, completed |-> 0, failed |-> 0]}
    /\ chosen' = chosen \cup selectedIds
    /\ UNCHANGED <<fleet, notices, page, tableVars, rotateVars>>

\* The bar shows the counters of the loop against the size it captured.
Progress(l) ==
    [total |-> Cardinality(l.ids), completed |-> l.completed,
     failed |-> l.failed]

\* Mutant: the condition on the host is missing from data.map.
MarksWholeView(l, h) ==
    [x \in Hosts |-> IF l.view[x] # "absent" THEN "latest" ELSE l.view[x]]

\* data.map over the captured list: only this host becomes the latest version.
BulkView(l, h) ==
    [x \in Hosts |-> IF x = h /\ l.view[x] # "absent" THEN "latest" ELSE l.view[x]]

BulkStep(l, h) ==
    /\ l \in loops /\ h \in l.todo
    /\ \E n \in {[l EXCEPT !.todo = @ \ {h}, !.completed = @ + 1],
                 [l EXCEPT !.todo = @ \ {h}, !.failed = @ + 1]} :
          /\ loops' = (loops \ {l}) \cup {n}
          /\ bulkProgress' = Progress(n)
    /\ page' = IF l.action = "update" THEN SetData(page, BulkView(l, h))
                                      ELSE page
    /\ UNCHANGED <<fleet, notices, tableVars, rotateVars, chosen>>

\* The timer at the end clears the bar and whatever is selected by then.
BulkEnd(l) ==
    /\ l \in loops /\ l.todo = {}
    /\ loops' = loops \ {l}
    /\ bulkProgress' = NoProgress
    /\ selectedIds' = {}
    /\ UNCHANGED <<fleet, notices, page, view, rotateVars,
                   chosen>>

(* Rotation of a credential behind its confirmation dialog.                *)
AskRotate(h) ==
    /\ h \in Rows \cap Rotatable /\ rotateConfirmHost # h
    /\ rotateConfirmHost' = h
    /\ UNCHANGED <<fleet, notices, page, tableVars, bulkVars, rotating>>

CancelRotate ==
    /\ Interactive /\ rotateConfirmHost # NoHost
    /\ rotateConfirmHost' = NoHost
    /\ UNCHANGED <<fleet, notices, page, tableVars, bulkVars, rotating>>

\* handleRotateCredential up to its await: the dialog is gone before the post.
HandleRotateCredential ==
    /\ Interactive /\ rotateConfirmHost # NoHost
    /\ rotating' = rotating \cup {rotateConfirmHost}
    /\ rotateConfirmHost' = NoHost
    /\ UNCHANGED <<fleet, notices, page, tableVars, bulkVars>>

\* handleRotateCredential after its await: a success fetches the fleet again.
RotateAnswered(h) ==
    /\ h \in rotating
    /\ rotating' = rotating \ {h}
    /\ \/ CanExecute(page) /\ page' = Execute(page)
       \/ UNCHANGED page
    /\ UNCHANGED <<fleet, notices, tableVars, bulkVars, rotateConfirmHost>>

HostsNext ==
    \/ \E h \in Hosts : HostEnrolls(h)
    \/ NoticeLost
    \/ \E f \in FetchIds : HubListsHosts(f)
    \/ \E f \in FetchIds : FetchResolves(f)
    \/ \E f \in FetchIds : FetchFails(f)
    \/ AgentConnected
    \/ RetryHosts
    \/ SetView
    \/ \E h \in Hosts : ToggleSelect(h)
    \/ ToggleSelectAll
    \/ ClearSelection
    \/ \E action \in {"restart", "update"} : HandleBulkAction(action)
    \/ \E l \in loops, h \in Hosts : BulkStep(l, h)
    \/ \E l \in loops : BulkEnd(l)
    \/ \E h \in Hosts : AskRotate(h)
    \/ CancelRotate
    \/ HandleRotateCredential
    \/ \E h \in Hosts : RotateAnswered(h)

HostsSpec == HostsInit /\ [][HostsNext]_hostVars

-----------------------------------------------------------------------------
\* A host that the page shows in the latest version although the hub lists an
\* old agent was selected when some bulk update was started: the captured list
\* that every step of handleBulkAction writes back never marks another host.
ClaimsOnlyChosen ==
    \A h \in Listed(page.data) :
        page.data[h] = "latest" /\ fleet[h] # "latest" => h \in chosen
=============================================================================
