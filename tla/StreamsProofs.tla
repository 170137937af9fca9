--------------------------- MODULE StreamsProofs ---------------------------
(***************************************************************************)
(* Proofs about the streaming parts of the console, for any values of the  *)
(* constants: the threat feeds page, the notification bell of the shell,   *)
(* the alert stream of the command center and the investigation graph.     *)
(* Each part is proved from its own initial states and steps, and MCStreams*)
(* runs one part at a time with exactly those.                             *)
(***************************************************************************)
EXTENDS ThreatFeeds, Shell, CommandCenter, InvestigationGraph, TLAPS

\* The provers a leaf is given when it names none, with time for a busy machine.
USE SMTT(30), ZenonT(30)

-----------------------------------------------------------------------------
(* ThreatFeedsPage.                                                          *)

SyncInv ==
    /\ DOMAIN syncs = SyncIds
    /\ SyncingIsUnderWay

LEMMA InitSyncInv == ThreatInit => SyncInv
  BY ZenonT(30) DEF SyncInv, SyncingIsUnderWay, ThreatInit

LEMMA NextSyncInv == SyncInv /\ (ThreatNext \/ UNCHANGED feedPageVars) => SyncInv'
<1> SUFFICES ASSUME SyncInv, ThreatNext \/ UNCHANGED feedPageVars PROVE SyncInv'
  OBVIOUS
<1> USE DEF SyncInv, SyncingIsUnderWay
<1>1. CASE \E x \in Feeds, s \in SyncIds : HandleSync(x, s)
  BY <1>1 DEF HandleSync
<1>2. CASE \E s \in SyncIds : SyncSucceeds(s) \/ SyncFails(s)
  BY <1>2 DEF SyncSucceeds, SyncFails
<1>3. CASE UNCHANGED syncVars
  BY <1>3 DEF syncVars
<1>4. UNCHANGED syncVars \/ \E s \in SyncIds :
          \/ \E x \in Feeds : HandleSync(x, s)
          \/ SyncSucceeds(s) \/ SyncFails(s)
  BY ZenonT(30) DEF ThreatNext, HubListsFeeds, FetchEnds, Retry, OpenForm,
         CancelForm, SetNewFeed, HandleAddFeed, AddSucceeds,
         AddFails, syncVars, feedPageVars, addVars
<1> QED
  BY <1>1, <1>2, <1>3, <1>4

\* A feed shown as syncing has a sync under way, for any feeds and any number
\* of overlapping syncs: handleSync's finally clears syncingId whatever it is.
THEOREM FeedsSyncing == ThreatSpec => []SyncingIsUnderWay
<1>1. SyncInv /\ [ThreatNext]_feedPageVars => SyncInv'
  BY NextSyncInv
<1>2. SyncInv => SyncingIsUnderWay
  BY DEF SyncInv
<1> QED
  BY InitSyncInv, <1>1, <1>2, PTL DEF ThreatSpec

-----------------------------------------------------------------------------
(* NotificationCenter.                                                       *)

\* Before the first answer an open window shows the spinner.
NotifInv == notifications = "initial" => ~showNotifs \/ notifsLoading

LEMMA InitNotifInv == ShellInit => NotifInv
  BY ZenonT(30) DEF NotifInv, ShellInit

LEMMA NextNotifInv == NotifInv /\ (ShellNext \/ UNCHANGED shellVars) => NotifInv'
<1> SUFFICES ASSUME NotifInv, ShellNext \/ UNCHANGED shellVars PROVE NotifInv'
  OBVIOUS
<1> USE DEF NotifInv
<1>1. ASSUME NEW g, OpenNotifications(g) PROVE NotifInv'
  BY <1>1 DEF OpenNotifications
<1>2. ASSUME NEW g, GetEnds(g) PROVE NotifInv'
  BY <1>2 DEF GetEnds, NotificationsArrive
<1>3. CASE CloseNotifications \/ PressEscape
  BY <1>3 DEF CloseNotifications, PressEscape
<1>4. CASE UNCHANGED notifVars
  BY <1>4 DEF notifVars
<1>5. \/ UNCHANGED notifVars
      \/ CloseNotifications \/ PressEscape
      \/ \E g \in GetIds : OpenNotifications(g) \/ GetEnds(g)
  BY ZenonT(30) DEF ShellNext, SetSidebarOpen, ToggleMenu, NavToPath,
         SetQuery, SearchTimerFires, ToggleSearch, ArrowDown,
         ArrowUp, Highlight, PressEnter, RunCommand,
         MouseEnter, ClickCommand, notifVars, shellVars, layoutVars, paletteVars
<1> QED
  BY <1>1, <1>2, <1>3, <1>4, <1>5

\* "All caught up!" is only shown for an empty answer of the hub, however often
\* the window is closed and opened with requests under way: openNotifications
\* shows the spinner in the step that opens the window.
THEOREM CaughtUp == ShellSpec => []CaughtUpIsAnswered
<1>1. NotifInv /\ [ShellNext]_shellVars => NotifInv'
  BY NextNotifInv
<1>2. NotifInv => CaughtUpIsAnswered
  BY DEF NotifInv, CaughtUpIsAnswered, NotificationView
<1> QED
  BY InitNotifInv, <1>1, <1>2, PTL DEF ShellSpec

-----------------------------------------------------------------------------
(* useWebSocketStream, in CommandCenter.                                     *)

ConnInv ==
    /\ alertStream \in [sock : {"connecting", "open", "closing", "none"}, timer : Nat,
                        retry : 0 .. MaxRetry, connected : BOOLEAN]
    /\ ccMounted \in BOOLEAN
    /\ OneConnection

\* The delay after a close is positive: an attempt is always to come.
LEMMA BackoffPositive ==
    ASSUME NEW r \in 0 .. MaxRetry
    PROVE  Backoff(r) \in Nat \ {0}
<1>1. 2^r \in Nat \ {0} /\ MaxDelay \in Nat \ {0}
  BY StreamAssumption
<1> QED
  BY <1>1 DEF Backoff

LEMMA InitConnInv == CenterInit => ConnInv
  BY StreamAssumption
     DEF ConnInv, OneConnection, CenterInit, StreamStart

LEMMA NextConnInv == ConnInv /\ (CenterNext \/ UNCHANGED ccVars) => ConnInv'
<1> SUFFICES ASSUME ConnInv, CenterNext \/ UNCHANGED ccVars PROVE ConnInv'
  OBVIOUS
<1> USE DEF ConnInv, OneConnection
<1>1. CASE StreamOpens
  <2>1. /\ alertStream.sock = "connecting" /\ ccMounted' = ccMounted
        /\ alertStream' = [alertStream EXCEPT !.sock = "open", !.connected = TRUE, !.retry = 0]
    BY <1>1 DEF StreamOpens, StreamStep, OnStreamOpen
  <2>2. alertStream.timer = 0 /\ 0 \in 0 .. MaxRetry
    BY <2>1, StreamAssumption
  <2>3. /\ alertStream'.sock = "open" /\ alertStream'.connected = TRUE
        /\ alertStream'.timer = 0
        /\ alertStream' \in [sock : {"connecting", "open", "closing", "none"}, timer : Nat,
                             retry : 0 .. MaxRetry, connected : BOOLEAN]
    BY <2>1, <2>2, ZenonT(30)
  <2> QED
    BY <2>1, <2>3
<1>2. CASE StreamCloses
  <2>1. /\ alertStream' = OnStreamClose(alertStream) /\ ccMounted' = ccMounted
        /\ alertStream.retry \in 0 .. MaxRetry
    BY <1>2 DEF StreamCloses, StreamStep
  <2>2. Backoff(alertStream.retry) \in Nat \ {0}
    BY <2>1, BackoffPositive
  <2> QED
    BY <2>1, <2>2, StreamAssumption DEF OnStreamClose
<1>3. CASE StreamReconnects
  <2>1. /\ alertStream.timer > 0 /\ ccMounted' = ccMounted
        /\ alertStream' = [alertStream EXCEPT !.sock = "connecting", !.timer = 0]
    BY <1>3 DEF StreamReconnects, StreamStep, Reconnect
  <2>2. /\ alertStream'.sock = "connecting" /\ alertStream'.timer = 0
        /\ alertStream'.connected = alertStream.connected
        /\ alertStream' \in [sock : {"connecting", "open", "closing", "none"}, timer : Nat,
                             retry : 0 .. MaxRetry, connected : BOOLEAN]
    BY <2>1, ZenonT(30)
  <2>3. alertStream.sock = "none"
    BY <2>1
  <2> QED
    BY <2>1, <2>2, <2>3
<1>4. CASE Leave
  BY <1>4, ZenonT(30) DEF Leave, StreamCleanup
<1>5. CASE UNCHANGED <<ccMounted, alertStream>>
  BY <1>5
<1>6. \/ UNCHANGED <<ccMounted, alertStream>> \/ Leave
      \/ StreamOpens \/ StreamCloses \/ StreamReconnects
  BY ZenonT(30) DEF CenterNext, HubServesAlerts, AlertsLoaded, AlertsNotLoaded,
         OnAlert, HandleTriage, Acknowledged, TriageLeavesList,
         PollEnds, PollAgain, PollCancelled, ccVars, alertVars
<1> QED
  BY <1>1, <1>2, <1>3, <1>4, <1>5, <1>6

\* useWebSocketStream never has two connections, or one and a timer for
\* another, and while its page is open it is never left with neither, for any
\* longest delay and any sequence of refusals, breaks and reconnections.
THEOREM StreamConnection == CenterSpec => []OneConnection
<1>1. ConnInv /\ [CenterNext]_ccVars => ConnInv'
  BY NextConnInv
<1>2. ConnInv => OneConnection
  BY DEF ConnInv
<1> QED
  BY InitConnInv, <1>1, <1>2, PTL DEF CenterSpec
-----------------------------------------------------------------------------
(* InvestigationGraph.  Updates wait in two places, on the wire and in       *)
(* pendingUpdates, and the last one of a node is the one that counts.        *)

Updates == [node : GraphNodes, v : Nat]

Waits(s, n) == \E i \in DOMAIN s : s[i].node = n

\* If s has updates of n, the last one brings version v.
LastIs(s, n, v) ==
    \A i \in DOMAIN s :
        s[i].node = n /\ (\A j \in DOMAIN s : s[j].node = n => j <= i) => s[i].v = v

\* Updates of n that wait in s have a last one among them.
HasLast(s, n) ==
    Waits(s, n) => \E i \in DOMAIN s :
        s[i].node = n /\ \A j \in DOMAIN s : s[j].node = n => j <= i

GraphTypes ==
    /\ hubGraph \in [GraphNodes -> Nat] /\ shownNodes \in [GraphNodes -> Nat]
    /\ graphWire \in Seq(Updates) /\ pendingUpdates \in Seq(Updates)
    /\ snapshotGet \in [st : {"sent", "answered", "done"}, nodes : [GraphNodes -> Nat]]
    /\ \A n \in GraphNodes : HasLast(pendingUpdates, n)

\* While the stream is open the last update of a node brings the hub's version,
\* and where none waits the snapshot in hand or the nodes shown have it.
GraphInv ==
    /\ GraphTypes
    /\ graphSocket = "connecting" =>
         graphWire = <<>> /\ pendingUpdates = <<>> /\ ~subscribedFirst
    /\ snapshotGet.st # "done" => ~isSnapshotLoaded /\ ~snapshotShown
    /\ graphSocket = "open" => \A n \in GraphNodes :
         /\ LastIs(graphWire, n, hubGraph[n])
         /\ ~Waits(graphWire, n) => LastIs(pendingUpdates, n, hubGraph[n])
         /\ subscribedFirst /\ ~Waits(graphWire, n) /\ ~Waits(pendingUpdates, n) =>
              /\ snapshotGet.st = "answered" => snapshotGet.nodes[n] = hubGraph[n]
              /\ snapshotShown => shownNodes[n] = hubGraph[n]

LEMMA AppendLast ==
    ASSUME NEW s \in Seq(Updates), NEW u \in Updates, NEW n \in GraphNodes, NEW v \in Nat
    PROVE  /\ Waits(Append(s, u), n) <=> Waits(s, n) \/ u.node = n
           /\ HasLast(s, n) => HasLast(Append(s, u), n)
           /\ u.node = n => LastIs(Append(s, u), n, u.v)
           /\ u.node # n /\ LastIs(s, n, v) => LastIs(Append(s, u), n, v)
<1> DEFINE r == Append(s, u)
<1>1. /\ DOMAIN r = 1 .. (Len(s) + 1) /\ DOMAIN s = 1 .. Len(s) /\ Len(s) \in Nat
      /\ r[Len(s) + 1] = u /\ \A i \in DOMAIN s : r[i] = s[i]
  OBVIOUS
<1> HIDE DEF r
<1>2. Waits(r, n) <=> Waits(s, n) \/ u.node = n
  BY <1>1 DEF Waits
<1>3. ASSUME u.node = n PROVE LastIs(r, n, u.v)
  BY <1>1, <1>3 DEF LastIs
<1>4. ASSUME u.node # n, LastIs(s, n, v) PROVE LastIs(r, n, v)
  <2> SUFFICES ASSUME NEW i \in DOMAIN r, r[i].node = n,
                      \A j \in DOMAIN r : r[j].node = n => j <= i
               PROVE  r[i].v = v
    BY DEF LastIs
  <2>1. i \in DOMAIN s
    BY <1>1, <1>4
  <2>2. s[i].node = n /\ \A j \in DOMAIN s : s[j].node = n => j <= i
    BY <1>1, <2>1
  <2> QED
    BY <1>1, <1>4, <2>1, <2>2 DEF LastIs
<1>5. ASSUME HasLast(s, n) PROVE HasLast(r, n)
  <2>1. CASE u.node = n
    BY <1>1, <2>1 DEF HasLast
  <2>2. CASE u.node # n /\ Waits(r, n)
    <3>1. PICK i \in DOMAIN s : s[i].node = n /\ \A j \in DOMAIN s : s[j].node = n => j <= i
      BY <1>2, <1>5, <2>2 DEF HasLast
    <3>2. i \in DOMAIN r /\ r[i].node = n /\ \A j \in DOMAIN r : r[j].node = n => j <= i
      BY <1>1, <2>2, <3>1
    <3> QED
      BY <3>2 DEF HasLast
  <2> QED
    BY <2>1, <2>2 DEF HasLast
<1> QED
  BY <1>2, <1>3, <1>4, <1>5 DEF r

LEMMA TailLast ==
    ASSUME NEW s \in Seq(Updates), s # <<>>, NEW n \in GraphNodes, NEW v \in Nat
    PROVE  /\ Head(s) \in Updates /\ Tail(s) \in Seq(Updates)
           /\ Waits(s, n) <=> Head(s).node = n \/ Waits(Tail(s), n)
           /\ LastIs(s, n, v) => LastIs(Tail(s), n, v)
           /\ LastIs(s, n, v) /\ Head(s).node = n /\ ~Waits(Tail(s), n) => Head(s).v = v
<1> DEFINE t == Tail(s)
<1>1. /\ DOMAIN s = 1 .. Len(s) /\ Len(s) \in Nat \ {0} /\ DOMAIN t = 1 .. (Len(s) - 1)
      /\ Head(s) = s[1] /\ \A i \in DOMAIN t : t[i] = s[i + 1] /\ i + 1 \in DOMAIN s
      /\ Head(s) \in Updates /\ t \in Seq(Updates)
  OBVIOUS
<1> HIDE DEF t
<1>2. \A i \in DOMAIN s : i = 1 \/ (i - 1 \in DOMAIN t /\ s[i] = t[i - 1])
  BY <1>1
<1>3. Waits(s, n) <=> Head(s).node = n \/ Waits(t, n)
  <2>1. Head(s).node = n => Waits(s, n)
    BY <1>1 DEF Waits
  <2>2. Waits(t, n) => Waits(s, n)
    BY <1>1 DEF Waits
  <2>3. Waits(s, n) => Head(s).node = n \/ Waits(t, n)
    BY <1>1, <1>2 DEF Waits
  <2> QED
    BY <2>1, <2>2, <2>3
<1>4. ASSUME LastIs(s, n, v) PROVE LastIs(t, n, v)
  <2> SUFFICES ASSUME NEW i \in DOMAIN t, t[i].node = n,
                      \A j \in DOMAIN t : t[j].node = n => j <= i
               PROVE  t[i].v = v
    BY DEF LastIs
  <2>1. i + 1 \in DOMAIN s /\ s[i + 1] = t[i]
    BY <1>1
  <2>2. ASSUME NEW j \in DOMAIN s, s[j].node = n PROVE j <= i + 1
    <3>1. CASE j = 1
      BY <1>1, <3>1
    <3>2. CASE j - 1 \in DOMAIN t /\ s[j] = t[j - 1]
      <4>1. j - 1 <= i
        BY <2>2, <3>2
      <4> QED
        BY <1>1, <4>1
    <3> QED
      BY <1>2, <3>1, <3>2
  <2> QED
    BY <1>4, <2>1, <2>2 DEF LastIs
<1>5. ASSUME LastIs(s, n, v), Head(s).node = n, ~Waits(t, n) PROVE Head(s).v = v
  <2>1. ASSUME NEW j \in DOMAIN s, s[j].node = n PROVE j = 1
    BY <1>2, <1>5, <2>1 DEF Waits
  <2> QED
    BY <1>1, <1>5, <2>1 DEF LastIs
<1> QED
  BY <1>1, <1>3, <1>4, <1>5 DEF t

\* Applying a batch leaves the last update of a node, if it has any.
LEMMA AppliedFacts ==
    ASSUME NEW nodes \in [GraphNodes -> Nat], NEW batch \in Seq(Updates),
           \A n \in GraphNodes : HasLast(batch, n)
    PROVE  /\ Applied(nodes, batch) \in [GraphNodes -> Nat]
           /\ \A n \in GraphNodes : ~Waits(batch, n) =>
                Applied(nodes, batch)[n] = nodes[n]
           /\ \A n \in GraphNodes, v \in Nat : Waits(batch, n) /\ LastIs(batch, n, v) =>
                Applied(nodes, batch)[n] = v
<1> DEFINE mine(n) == {i \in DOMAIN batch : batch[i].node = n}
           last(n) == CHOOSE i \in mine(n) : \A j \in mine(n) : j <= i
           a == Applied(nodes, batch)
<1>1. a = [n \in GraphNodes |-> IF mine(n) = {} THEN nodes[n] ELSE batch[last(n)].v]
  BY DEF Applied
<1>2. \A n \in GraphNodes : mine(n) = {} <=> ~Waits(batch, n)
  BY DEF Waits
<1>3. ASSUME NEW n \in GraphNodes, mine(n) # {}
      PROVE  last(n) \in mine(n) /\ \A j \in mine(n) : j <= last(n)
  <2>1. \E i \in mine(n) : \A j \in mine(n) : j <= i
    BY <1>2, <1>3 DEF HasLast
  <2> HIDE DEF mine
  <2> QED
    BY <2>1
<1>4. ASSUME NEW n \in GraphNodes, mine(n) # {} PROVE batch[last(n)].v \in Nat
  <2>1. last(n) \in DOMAIN batch
    BY <1>3, <1>4
  <2>2. \A i \in DOMAIN batch : batch[i] \in Updates
    OBVIOUS
  <2>3. \A u \in Updates : u.v \in Nat
    BY DEF Updates
  <2> HIDE DEF last
  <2> QED
    BY <2>1, <2>2, <2>3
<1>5. ASSUME NEW n \in GraphNodes, NEW v \in Nat, mine(n) # {}, LastIs(batch, n, v)
      PROVE  batch[last(n)].v = v
  <2>1. last(n) \in DOMAIN batch /\ batch[last(n)].node = n
    BY <1>3, <1>5
  <2>2. \A j \in DOMAIN batch : batch[j].node = n => j <= last(n)
    BY <1>3, <1>5, ZenonT(30)
  <2> HIDE DEF last
  <2> QED
    BY <1>5, <2>1, <2>2 DEF LastIs
<1> HIDE DEF mine, last, a
<1>6. a \in [GraphNodes -> Nat]
  BY <1>1, <1>4
<1> QED
  BY <1>1, <1>2, <1>5, <1>6 DEF a
LEMMA InitGraphInv == GraphInit => GraphInv
<1> SUFFICES ASSUME GraphInit PROVE GraphInv
  OBVIOUS
<1>1. /\ hubGraph \in [GraphNodes -> 0 .. MaxVersion] /\ graphSocket = "connecting"
      /\ graphWire = <<>> /\ pendingUpdates = <<>> /\ ~isSnapshotLoaded
      /\ snapshotGet = [st |-> "sent", nodes |-> [n \in GraphNodes |-> 0]]
      /\ shownNodes = [n \in GraphNodes |-> 0] /\ ~subscribedFirst /\ ~snapshotShown
  BY DEF GraphInit, Versions, Nothing
<1>2. GraphTypes
  BY <1>1, GraphAssumption DEF GraphTypes, HasLast, Waits
<1> QED
  BY <1>1, <1>2 DEF GraphInv

LEMMA NodeExecutesInv ==
    ASSUME GraphInv, NEW n \in GraphNodes, NodeExecutes(n)
    PROVE  GraphInv'
<1> USE DEF GraphInv, GraphTypes
<1> DEFINE u == [node |-> n, v |-> hubGraph[n] + 1]
<1>1. u \in Updates /\ u.node = n /\ u.v = hubGraph[n] + 1
  <2>1. hubGraph[n] + 1 \in Nat
    OBVIOUS
  <2> QED
    BY <2>1, ZenonT(30) DEF Updates
<1>2. /\ hubGraph' = [hubGraph EXCEPT ![n] = @ + 1]
      /\ graphWire' = IF graphSocket = "open" THEN Append(graphWire, u) ELSE graphWire
      /\ UNCHANGED <<graphSocket, pendingUpdates, isSnapshotLoaded, snapshotGet,
                     shownNodes, subscribedFirst, snapshotShown>>
  BY DEF NodeExecutes, historyVars
<1> HIDE DEF u
<1>3. GraphTypes'
  BY <1>1, <1>2
<1>4. CASE graphSocket # "open"
  BY <1>2, <1>3, <1>4
<1>5. CASE graphSocket = "open"
  <2>1. graphWire' = Append(graphWire, u) /\ hubGraph'[n] = u.v
    BY <1>1, <1>2, <1>5
  <2>2. ASSUME NEW m \in GraphNodes
        PROVE  /\ LastIs(graphWire', m, hubGraph'[m])
               /\ ~Waits(graphWire', m) => ~Waits(graphWire, m) /\ hubGraph'[m] = hubGraph[m]
    <3>1. CASE m = n
      BY <1>1, <2>1, <3>1, AppendLast
    <3>2. CASE m # n
      <4>1. hubGraph'[m] = hubGraph[m] /\ LastIs(graphWire, m, hubGraph[m])
        BY <1>2, <1>5, <3>2
      <4> QED
        BY <1>1, <2>1, <3>2, <4>1, AppendLast
    <3> QED
      BY <3>1, <3>2
  <2> QED
    BY <1>2, <1>3, <1>5, <2>2
<1> QED
  BY <1>4, <1>5

LEMMA GraphMessageInv ==
    ASSUME GraphInv, GraphOnMessage
    PROVE  GraphInv'
<1> USE DEF GraphInv, GraphTypes
<1> DEFINE h == Head(graphWire)
<1>1. /\ graphSocket = "open" /\ graphWire # <<>>
      /\ pendingUpdates' = Append(pendingUpdates, h) /\ graphWire' = Tail(graphWire)
      /\ UNCHANGED <<hubGraph, graphSocket, isSnapshotLoaded, snapshotGet, shownNodes,
                     subscribedFirst, snapshotShown>>
  BY DEF GraphOnMessage, historyVars
<1>2. h \in Updates /\ graphWire' \in Seq(Updates) /\ pendingUpdates' \in Seq(Updates)
  BY <1>1
<1>3. ASSUME NEW n \in GraphNodes
      PROVE  /\ LastIs(graphWire', n, hubGraph[n])
             /\ HasLast(pendingUpdates', n)
             /\ ~Waits(graphWire', n) => LastIs(pendingUpdates', n, hubGraph[n])
             /\ ~Waits(graphWire', n) /\ ~Waits(pendingUpdates', n) =>
                  ~Waits(graphWire, n) /\ ~Waits(pendingUpdates, n)
  <2>1. hubGraph[n] \in Nat /\ LastIs(graphWire, n, hubGraph[n]) /\ HasLast(pendingUpdates, n)
    BY <1>1
  <2>2. /\ Waits(graphWire, n) <=> h.node = n \/ Waits(graphWire', n)
        /\ LastIs(graphWire', n, hubGraph[n])
        /\ h.node = n /\ ~Waits(graphWire', n) => h.v = hubGraph[n]
    BY <1>1, <2>1, TailLast, ZenonT(30)
  <2>3. /\ Waits(pendingUpdates', n) <=> Waits(pendingUpdates, n) \/ h.node = n
        /\ HasLast(pendingUpdates', n)
        /\ h.node = n => LastIs(pendingUpdates', n, h.v)
        /\ h.node # n /\ LastIs(pendingUpdates, n, hubGraph[n]) =>
             LastIs(pendingUpdates', n, hubGraph[n])
    BY <1>1, <1>2, <2>1, AppendLast, ZenonT(30)
  <2>4. ~Waits(graphWire, n) => LastIs(pendingUpdates, n, hubGraph[n])
    BY <1>1
  <2> HIDE DEF h
  <2> QED
    BY <2>2, <2>3, <2>4
<1>4. GraphTypes'
  BY <1>1, <1>2, <1>3
<1> QED
  BY <1>1, <1>3, <1>4

LEMMA RenderTickerInv ==
    ASSUME GraphInv, RenderTicker
    PROVE  GraphInv'
<1> USE DEF GraphInv, GraphTypes
<1>1. /\ isSnapshotLoaded /\ pendingUpdates' = <<>>
      /\ shownNodes' = Applied(shownNodes, pendingUpdates)
      /\ UNCHANGED <<hubGraph, graphSocket, graphWire, isSnapshotLoaded, snapshotGet,
                     subscribedFirst, snapshotShown>>
  BY DEF RenderTicker, TickerFlushes, historyVars
<1>2. \A n : ~Waits(pendingUpdates', n) /\ HasLast(pendingUpdates', n)
             /\ \A v : LastIs(pendingUpdates', n, v)
  BY <1>1 DEF Waits, HasLast, LastIs
<1>3. /\ shownNodes' \in [GraphNodes -> Nat]
      /\ \A n \in GraphNodes : ~Waits(pendingUpdates, n) => shownNodes'[n] = shownNodes[n]
      /\ \A n \in GraphNodes, v \in Nat :
           Waits(pendingUpdates, n) /\ LastIs(pendingUpdates, n, v) => shownNodes'[n] = v
  BY <1>1, AppliedFacts, ZenonT(30)
<1>4. GraphTypes'
  BY <1>1, <1>2, <1>3
<1>5. ASSUME graphSocket = "open", subscribedFirst, snapshotShown, NEW n \in GraphNodes,
             ~Waits(graphWire, n)
      PROVE  shownNodes'[n] = hubGraph[n]
  BY <1>3, <1>5
<1>6. snapshotGet.st = "done"
  BY <1>1
<1> QED
  BY <1>1, <1>2, <1>4, <1>5, <1>6

LEMMA NextGraphInv == GraphInv /\ (GraphNext \/ UNCHANGED graphVars) => GraphInv'
<1> SUFFICES ASSUME GraphInv, GraphNext \/ UNCHANGED graphVars PROVE GraphInv'
  OBVIOUS
<1> USE DEF historyVars
<1>1. CASE HubAccepts
  BY <1>1 DEF HubAccepts, GraphInv, GraphTypes, LastIs
<1>2. CASE GraphBreaks
  BY <1>2 DEF GraphBreaks, GraphInv, GraphTypes
<1>3. CASE HubReadsSnapshot
  BY <1>3, ZenonT(30) DEF HubReadsSnapshot, GraphInv, GraphTypes
<1>4. CASE SnapshotArrives
  BY <1>4 DEF SnapshotArrives, Nothing, GraphInv, GraphTypes
<1>5. CASE SnapshotFails
  BY <1>5 DEF SnapshotFails, Nothing, GraphInv, GraphTypes
<1>6. CASE UNCHANGED <<hubGraph, graphSocket, graphWire, pendingUpdates, isSnapshotLoaded,
                       snapshotGet, shownNodes, subscribedFirst, snapshotShown>>
  BY <1>6 DEF GraphInv, GraphTypes
<1>7. \/ \E n \in GraphNodes : NodeExecutes(n)
      \/ HubAccepts \/ GraphBreaks \/ HubReadsSnapshot
      \/ GraphOnMessage \/ SnapshotArrives \/ SnapshotFails
      \/ RenderTicker
      \/ UNCHANGED <<hubGraph, graphSocket, graphWire, pendingUpdates, isSnapshotLoaded,
                     snapshotGet, shownNodes, subscribedFirst, snapshotShown>>
  BY DEF GraphNext, SetViewMode, SetSelectedNode, graphVars
<1> QED
  BY <1>1, <1>2, <1>3, <1>4, <1>5, <1>6, <1>7, NodeExecutesInv, GraphMessageInv,
     RenderTickerInv

\* The graph loses nothing between the snapshot and the stream when it was
\* subscribed before the hub read the snapshot, for any nodes, any number of
\* updates and any order of the answer, the messages and the ticker: what comes
\* before the snapshot waits in pendingUpdates and is applied over it.
THEOREM GraphMeets == GraphSpec => []SnapshotAndStreamMeet
<1>1. GraphInv /\ [GraphNext]_graphVars => GraphInv'
  BY NextGraphInv
<1>2. GraphInv => SnapshotAndStreamMeet
  <2> SUFFICES ASSUME GraphInv, subscribedFirst, snapshotShown, graphSocket = "open",
                      graphWire = <<>>, pendingUpdates = <<>>
               PROVE  shownNodes = hubGraph
    BY DEF SnapshotAndStreamMeet
  <2>1. \A n \in GraphNodes : ~Waits(graphWire, n) /\ ~Waits(pendingUpdates, n)
    BY DEF Waits
  <2>2. \A n \in GraphNodes : shownNodes[n] = hubGraph[n]
    BY <2>1 DEF GraphInv
  <2> QED
    BY <2>2 DEF GraphInv, GraphTypes
<1> QED
  BY InitGraphInv, <1>1, <1>2, PTL DEF GraphSpec
=============================================================================
