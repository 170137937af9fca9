------------------------- MODULE InvestigationGraph -------------------------
(***************************************************************************)
(* features/investigations/ui/InvestigationGraph.tsx: a snapshot of the    *)
(* graph and a stream of updates to it, requested at the same time.  What  *)
(* the stream brings before the snapshot waits; a ticker applies it.       *)
(*                                                                         *)
(* A node is shown in some version, 0 when it is not shown.  The route of  *)
(* the stream is external: the hub of this repository does not serve it.   *)
(* The baseline drawn for an empty snapshot consists of other nodes.       *)
(***************************************************************************)
EXTENDS Naturals, Sequences

CONSTANTS GraphNodes,
          MaxVersion   \* bound on the updates of a node

ASSUME GraphAssumption == MaxVersion \in Nat

VARIABLES
    hubGraph,          \* the version of every node at the hub
    graphSocket,       \* "connecting", "open", "closed"
    graphWire,         \* updates on their way
    pendingUpdates,
    isSnapshotLoaded,
    snapshotGet,       \* the request for the snapshot and its answer
    shownNodes,        \* nodes
    viewMode,
    graphSelection,    \* selectedNode
    subscribedFirst,   \* history: the stream was open when the snapshot was read
    snapshotShown      \* history: the snapshot was received

graphVars == <<hubGraph, graphSocket, graphWire, pendingUpdates, isSnapshotLoaded,
               snapshotGet, shownNodes, viewMode, graphSelection, subscribedFirst,
               snapshotShown>>
viewVars == <<viewMode, graphSelection>>
historyVars == <<subscribedFirst, snapshotShown>>

Versions == [GraphNodes -> 0..MaxVersion]
Nothing == [n \in GraphNodes |-> 0]
Update == [node : GraphNodes, v : 1..MaxVersion]

GraphTypeOK ==
    /\ hubGraph \in Versions /\ shownNodes \in Versions
    /\ graphSocket \in {"connecting", "open", "closed"}
    /\ graphWire \in Seq(Update) /\ pendingUpdates \in Seq(Update)
    /\ isSnapshotLoaded \in BOOLEAN
    /\ snapshotGet \in [st : {"sent", "answered", "done"}, nodes : Versions]
    /\ viewMode \in {"topology", "stepper"}
    /\ graphSelection \in GraphNodes \cup {"none"}
    /\ subscribedFirst \in BOOLEAN /\ snapshotShown \in BOOLEAN

GraphInit ==
    /\ hubGraph \in {f \in Versions : \A n \in GraphNodes : f[n] <= 1}
    /\ graphSocket = "connecting"
    /\ graphWire = <<>>
    /\ pendingUpdates = <<>>
    /\ isSnapshotLoaded = FALSE
    /\ snapshotGet = [st |-> "sent", nodes |-> Nothing]
    /\ shownNodes = Nothing
    /\ viewMode = "topology"
    /\ graphSelection = "none"
    /\ subscribedFirst = FALSE
    /\ snapshotShown = FALSE

-----------------------------------------------------------------------------
(* The hub.                                                                *)
NodeExecutes(n) ==
    /\ hubGraph[n] < MaxVersion
    /\ hubGraph' = [hubGraph EXCEPT ![n] = @ + 1]
    /\ graphWire' = IF graphSocket = "open"
                    THEN Append(graphWire, [node |-> n, v |-> hubGraph[n] + 1])
                    ELSE graphWire
    /\ UNCHANGED <<graphSocket, pendingUpdates, isSnapshotLoaded, snapshotGet,
                   shownNodes, viewVars, historyVars>>

HubAccepts ==
    /\ graphSocket = "connecting"
    /\ graphSocket' = "open"
    /\ UNCHANGED <<hubGraph, graphWire, pendingUpdates, isSnapshotLoaded,
                   snapshotGet, shownNodes, viewVars, historyVars>>

\* There is no onclose: a broken stream stays broken.
GraphBreaks ==
    /\ graphSocket # "closed"
    /\ graphSocket' = "closed"
    /\ graphWire' = <<>>
    /\ UNCHANGED <<hubGraph, pendingUpdates, isSnapshotLoaded, snapshotGet,
                   shownNodes, viewVars, historyVars>>

HubReadsSnapshot ==
    /\ snapshotGet.st = "sent"
    /\ snapshotGet' = [st |-> "answered", nodes |-> hubGraph]
    /\ subscribedFirst' = (graphSocket = "open")
    /\ UNCHANGED <<hubGraph, graphSocket, graphWire, pendingUpdates,
                   isSnapshotLoaded, shownNodes, viewVars, snapshotShown>>

-----------------------------------------------------------------------------
(* The component.                                                          *)
GraphOnMessage ==
    /\ graphSocket = "open" /\ graphWire # <<>>
    /\ pendingUpdates' = Append(pendingUpdates, Head(graphWire))
    /\ graphWire' = Tail(graphWire)
    /\ UNCHANGED <<hubGraph, graphSocket, isSnapshotLoaded, snapshotGet, shownNodes,
                   viewVars, historyVars>>

SnapshotArrives ==
    /\ snapshotGet.st = "answered"
    /\ shownNodes' = snapshotGet.nodes
    /\ isSnapshotLoaded' = TRUE
    /\ snapshotShown' = TRUE
    /\ snapshotGet' = [st |-> "done", nodes |-> Nothing]
    /\ UNCHANGED <<hubGraph, graphSocket, graphWire, pendingUpdates, viewVars,
                   subscribedFirst>>

\* The stream is shown without the snapshot.
SnapshotFails ==
    /\ snapshotGet.st # "done"
    /\ isSnapshotLoaded' = TRUE
    /\ snapshotGet' = [st |-> "done", nodes |-> Nothing]
    /\ UNCHANGED <<hubGraph, graphSocket, graphWire, pendingUpdates, shownNodes,
                   viewVars, historyVars>>

\* Mutant: the ticker does not wait for the snapshot.
TickerAlways == pendingUpdates # <<>>

TickerFlushes == isSnapshotLoaded /\ pendingUpdates # <<>>

\* The batch in order: the last update of a node is what is shown.
Applied(nodes, batch) ==
    [n \in GraphNodes |->
        LET mine == {i \in DOMAIN batch : batch[i].node = n}
        IN  IF mine = {} THEN nodes[n]
            ELSE batch[CHOOSE i \in mine : \A j \in mine : j <= i].v]

RenderTicker ==
    /\ TickerFlushes
    /\ shownNodes' = Applied(shownNodes, pendingUpdates)
    /\ pendingUpdates' = <<>>
    /\ UNCHANGED <<hubGraph, graphSocket, graphWire, isSnapshotLoaded, snapshotGet,
                   viewVars, historyVars>>

SetViewMode(m) ==
    /\ viewMode # m
    /\ viewMode' = m
    /\ UNCHANGED <<hubGraph, graphSocket, graphWire, pendingUpdates,
                   isSnapshotLoaded, snapshotGet, shownNodes, graphSelection, historyVars>>

\* Only the topology has nodes to click and the card with its close button.
SetSelectedNode(n) ==
    /\ viewMode = "topology"
    /\ IF n = "none" THEN graphSelection # "none" ELSE shownNodes[n] > 0
    /\ graphSelection' = n
    /\ UNCHANGED <<hubGraph, graphSocket, graphWire, pendingUpdates,
                   isSnapshotLoaded, snapshotGet, shownNodes, viewMode, historyVars>>

GraphNext ==
    \/ \E n \in GraphNodes : NodeExecutes(n)
    \/ HubAccepts \/ GraphBreaks \/ HubReadsSnapshot
    \/ GraphOnMessage \/ SnapshotArrives \/ SnapshotFails \/ RenderTicker
    \/ \E m \in {"topology", "stepper"} : SetViewMode(m)
    \/ \E n \in GraphNodes \cup {"none"} : SetSelectedNode(n)

GraphSpec == GraphInit /\ [][GraphNext]_graphVars

-----------------------------------------------------------------------------
\* When the stream was open before the hub read the snapshot, nothing is lost
\* between the two: as soon as all that was sent has been applied, the page
\* shows the graph of the hub.
SnapshotAndStreamMeet ==
    /\ subscribedFirst /\ snapshotShown /\ graphSocket = "open"
    /\ graphWire = <<>> /\ pendingUpdates = <<>>
    => shownNodes = hubGraph
=============================================================================
