----------------------------- MODULE NetworkMap -----------------------------
(***************************************************************************)
(* pages/assets/NetworkMapPage.tsx: the topology with its security         *)
(* findings, the side bar of a selected node, the response action of a     *)
(* finding and the simulation of a blast radius, which is a breadth-first  *)
(* search over the edges taken in both directions.                         *)
(*                                                                         *)
(* Colours are abstracted to lit or dim, which is all the simulation       *)
(* decides; the overlays, the legend and the zoom choose other colours and *)
(* are left out.                                                           *)
(***************************************************************************)
EXTENDS AsyncState, Naturals, Sequences, FiniteSets, Functions

CONSTANTS Nodes,
          Topologies,   \* the sequences of edges <<source, target>> explored
          Findings,     \* security findings: [node, status, action]
          ActionIds     \* slots for requests: the bound on concurrent ones

VARIABLES
    topology,      \* the hub: edges of the map
    mapPage,       \* the useAsyncState record of the page
    selectedNode,
    simulatingPath,
    actionSubmitting,
    actionFeedback,
    actions        \* POST requests of handleResponseAction under way

sideVars == <<selectedNode, simulatingPath, actionFeedback>>
mapVars == <<topology, mapPage, sideVars, actionSubmitting, actions>>

NoNode == "no node"
NoRequest == [id |-> 0]
Maps == [edges : Topologies, findings : SUBSET Findings]

\* The edges of a topology join its nodes.
ASSUME MapAssumption ==
    /\ IsFiniteSet(Nodes) /\ NoNode \notin Nodes
    /\ Topologies \subseteq Seq(Nodes \X Nodes)
    /\ NoData \notin Maps

MapTypeOK ==
    /\ topology \in Topologies
    /\ mapPage \in HookType(Maps)
    /\ selectedNode \in Nodes \cup {NoNode}
    /\ simulatingPath \in BOOLEAN
    /\ actionSubmitting \in BOOLEAN
    /\ actionFeedback \in {"", "queued", "failed"}
    /\ actions \in [ActionIds -> Findings \cup {NoRequest}]
    /\ simulatingPath \/ actionFeedback = "queued" => mapPage.data # NoData

-----------------------------------------------------------------------------
(* reachableNodes.                                                         *)

Visited(acc, n) ==
    IF n \in acc.visited THEN acc
    ELSE [visited |-> acc.visited \cup {n}, queue |-> Append(acc.queue, n)]

\* Mutant: the edges are followed from their source alone.
FollowForward(curr, acc, e) ==
    IF e[1] = curr THEN Visited(acc, e[2]) ELSE acc

\* One edge of the loop over data.edges, looked at from both of its ends.
Follow(curr, acc, e) ==
    LET out == IF e[1] = curr THEN Visited(acc, e[2]) ELSE acc
    IN IF e[2] = curr THEN Visited(out, e[1]) ELSE out

\* One round of the search: the next node of the queue, and all its edges.
Round(acc, edges) ==
    IF acc.queue = <<>> THEN acc
    ELSE LET after[i \in 0..Len(edges)] ==
                 IF i = 0 THEN [acc EXCEPT !.queue = Tail(@)]
                 ELSE Follow(Head(acc.queue), after[i - 1], edges[i])
         IN  after[Len(edges)]

\* The search ends when its queue is empty: a node enters the queue once, so
\* there are no more rounds than nodes.
Search(start, edges) ==
    LET after[n \in 0..Cardinality(Nodes)] ==
            IF n = 0 THEN start ELSE Round(after[n - 1], edges)
    IN  after[Cardinality(Nodes)].visited

ReachableNodes ==
    IF ~simulatingPath \/ selectedNode = NoNode \/ mapPage.data = NoData THEN {}
    ELSE Search([visited |-> {selectedNode}, queue |-> <<selectedNode>>],
                mapPage.data.edges)

NodeLit(n) == ~simulatingPath \/ n \in ReachableNodes

LinkLit(e) == ~simulatingPath \/ (e[1] \in ReachableNodes /\ e[2] \in ReachableNodes)

-----------------------------------------------------------------------------
MapInit ==
    /\ topology \in Topologies
    /\ mapPage = Execute(Mounted)
    /\ selectedNode = NoNode
    /\ simulatingPath = FALSE
    /\ actionSubmitting = FALSE
    /\ actionFeedback = ""
    /\ actions = [a \in ActionIds |-> NoRequest]

\* Both requests of the fetch; a failure of the one for the findings is
\* caught and leaves the map without findings.
HubSendsMap(f) ==
    /\ mapPage.calls[f].st = "sent"
    /\ \E found \in {{}, Findings} :
          mapPage' = Served(mapPage, f, [edges |-> topology, findings |-> found])
    /\ UNCHANGED <<topology, sideVars, actionSubmitting, actions>>

MapFetchEnds(f) ==
    /\ \/ f \in Answered(mapPage) /\ mapPage' = Resolve(mapPage, f)
       \/ f \in InFlight(mapPage) /\ mapPage' = Reject(mapPage, f)
    /\ UNCHANGED <<topology, sideVars, actionSubmitting, actions>>

RetryMap ==
    /\ ~mapPage.loading /\ mapPage.error /\ mapPage.data = NoData
    /\ mapPage' = Execute(mapPage)
    /\ UNCHANGED <<topology, sideVars, actionSubmitting, actions>>

Drawn == ~mapPage.loading /\ mapPage.data # NoData

OnNodeClick(n) ==
    /\ Drawn
    /\ selectedNode' = n
    /\ simulatingPath' = FALSE
    /\ actionFeedback' = ""
    /\ UNCHANGED <<topology, mapPage, actionSubmitting, actions>>

CloseSidebar ==
    /\ Drawn /\ selectedNode # NoNode
    /\ selectedNode' = NoNode
    /\ simulatingPath' = FALSE
    /\ actionFeedback' = ""
    /\ UNCHANGED <<topology, mapPage, actionSubmitting, actions>>

ToggleSimulation ==
    /\ Drawn /\ selectedNode # NoNode
    /\ simulatingPath' = ~simulatingPath
    /\ UNCHANGED <<topology, mapPage, selectedNode, actionFeedback,
                   actionSubmitting, actions>>

\* The findings listed for the selected node that offer their action.
Offered ==
    {x \in mapPage.data.findings :
        x.node = selectedNode /\ x.status = "open" /\ x.action # "none"}

\* One flag disables the buttons of all findings.
ButtonEnabled(x) == ~actionSubmitting

HandleResponseAction(a, x) ==
    /\ Drawn /\ x \in Offered /\ ButtonEnabled(x)
    /\ actions[a] = NoRequest
    /\ actionSubmitting' = TRUE
    /\ actionFeedback' = ""
    /\ actions' = [actions EXCEPT ![a] = x]
    /\ UNCHANGED <<topology, mapPage, selectedNode, simulatingPath>>

\* The answer is reported in the side bar of whichever node is selected.
ActionEnds(a) ==
    /\ actions[a] # NoRequest
    /\ actions' = [actions EXCEPT ![a] = NoRequest]
    /\ actionFeedback' \in {"queued", "failed"}
    /\ actionSubmitting' = FALSE
    /\ UNCHANGED <<topology, mapPage, selectedNode, simulatingPath>>

MapNext ==
    \/ \E f \in FetchIds : HubSendsMap(f) \/ MapFetchEnds(f)
    \/ RetryMap
    \/ \E n \in Nodes : OnNodeClick(n)
    \/ CloseSidebar
    \/ ToggleSimulation
    \/ \E a \in ActionIds : \/ \E x \in Findings : HandleResponseAction(a, x)
                            \/ ActionEnds(a)

MapSpec == MapInit /\ [][MapNext]_mapVars

-----------------------------------------------------------------------------
MapEdges == Range(mapPage.data.edges)

\* The least set that holds n and both ends of every edge it touches.
Component(n) ==
    {m \in Nodes : \A S \in SUBSET Nodes :
        n \in S /\ (\A e \in MapEdges : e[1] \in S <=> e[2] \in S) => m \in S}

\* The simulation lights the connected component of the selected node, no
\* more and no less, with self-loops, double edges and cycles among the edges;
\* and a link is lit as soon as one of its ends is.
BlastRadiusIsComponent ==
    simulatingPath =>
        /\ {n \in Nodes : NodeLit(n)} = Component(selectedNode)
        /\ \A e \in MapEdges : LinkLit(e) <=> NodeLit(e[1]) \/ NodeLit(e[2])
=============================================================================
