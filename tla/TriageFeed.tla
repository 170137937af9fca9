----------------------------- MODULE TriageFeed -----------------------------
(***************************************************************************)
(* features/agent-ops/AgentTriageFeed.tsx with agent_stream_websocket and  *)
(* emit_agent_event of the hub.  A client is greeted with the hub's recent *)
(* history and then fed from a queue of its own; the feed collects live    *)
(* events and shows them at every tick unless it is paused.                *)
(*                                                                         *)
(* Pausing and resuming re-run the effect: its clean-up closes the socket, *)
(* whose onclose connects again later, next to the one the new effect has  *)
(* opened.  Connections therefore add up; Connections bounds them.         *)
(***************************************************************************)
EXTENDS Naturals, Sequences, FiniteSets

CONSTANTS Connections, \* slots for sockets: the bound on pauses and resumes
          BufferCap,   \* _event_buffer's maxlen
          QueueCap,    \* maxsize of a client's queue
          FeedCap,     \* the number of events the feed keeps
          MaxEvents    \* bound on the events emitted

VARIABLES
    emitted,       \* number of events so far: their identifiers
    eventBuffer,   \* _event_buffer
    sockets,       \* every connection: state, greeting and client queue
    reconnects,    \* timers that will call connect
    feedRef,       \* wsRef
    isPaused,
    eventsQueue,   \* events received and not shown yet
    feed           \* events

feedHubVars == <<emitted, eventBuffer>>
feedVars == <<feedHubVars, sockets, reconnects, feedRef, isPaused, eventsQueue, feed>>

NoSocket == [st |-> "none", history |-> <<>>, queue |-> <<>>]
NewSocket == [NoSocket EXCEPT !.st = "connecting"]
Used == {c \in Connections : sockets[c] # NoSocket}

\* The last n elements (slice(-n), and a deque with maxlen n).
LastOf(n, s) == IF Len(s) <= n THEN s ELSE SubSeq(s, Len(s) - n + 1, Len(s))

TriageTypeOK ==
    /\ emitted \in 0..MaxEvents
    /\ eventBuffer = LastOf(BufferCap, [i \in 1..emitted |-> i])
    /\ \A c \in Connections :
          /\ sockets[c].st \in {"none", "connecting", "greeted", "open", "closing"}
          /\ Len(sockets[c].queue) <= QueueCap
    /\ reconnects \in 0..Cardinality(Connections)
    /\ feedRef \in Connections
    /\ isPaused \in BOOLEAN
    /\ eventsQueue \in Seq(1..MaxEvents) /\ feed \in Seq(1..MaxEvents)

TriageInit ==
    /\ emitted = 0
    /\ eventBuffer = <<>>
    /\ feedRef = CHOOSE c \in Connections : TRUE
    /\ sockets = [c \in Connections |-> IF c = feedRef THEN NewSocket ELSE NoSocket]
    /\ reconnects = 0
    /\ isPaused = FALSE
    /\ eventsQueue = <<>>
    /\ feed = <<>>

-----------------------------------------------------------------------------
(* The hub.                                                                *)

\* Mutant: a slow client is waited for.
EnqueueAlways(q, e) == Append(q, e)

\* A full queue loses the event.
Enqueue(q, e) == IF Len(q) < QueueCap THEN Append(q, e) ELSE q

EmitAgentEvent ==
    /\ emitted < MaxEvents
    /\ emitted' = emitted + 1
    /\ eventBuffer' = LastOf(BufferCap, Append(eventBuffer, emitted + 1))
    /\ sockets' = [c \in Connections |->
          IF sockets[c].st = "open"
            THEN [sockets[c] EXCEPT !.queue = Enqueue(@, emitted + 1)]
            ELSE sockets[c]]
    /\ UNCHANGED <<reconnects, feedRef, isPaused, eventsQueue, feed>>

\* accept and the history, up to the await of its transmission.
HubGreets(c) ==
    /\ sockets[c].st = "connecting"
    /\ sockets' = [sockets EXCEPT ![c] =
          [st |-> "greeted", history |-> eventBuffer, queue |-> <<>>]]
    /\ UNCHANGED <<feedHubVars, reconnects, feedRef, isPaused, eventsQueue, feed>>

\* Only now are new events queued for the client.
HubSubscribes(c) ==
    /\ sockets[c].st = "greeted"
    /\ sockets' = [sockets EXCEPT ![c].st = "open"]
    /\ UNCHANGED <<feedHubVars, reconnects, feedRef, isPaused, eventsQueue, feed>>

-----------------------------------------------------------------------------
(* The feed.                                                               *)
FeedBreaks(c) ==
    /\ sockets[c].st \in {"connecting", "greeted", "open"}
    /\ sockets' = [sockets EXCEPT ![c] = [NoSocket EXCEPT !.st = "closing"]]
    /\ UNCHANGED <<feedHubVars, reconnects, feedRef, isPaused, eventsQueue, feed>>

\* onclose, whoever closed the socket.
FeedOnClose(c) ==
    /\ sockets[c].st = "closing"
    /\ sockets' = [sockets EXCEPT ![c] = NoSocket]
    /\ reconnects' = reconnects + 1
    /\ UNCHANGED <<feedHubVars, feedRef, isPaused, eventsQueue, feed>>

Connect(c) ==
    /\ reconnects > 0 /\ c \notin Used
    /\ reconnects' = reconnects - 1
    /\ sockets' = [sockets EXCEPT ![c] = NewSocket]
    /\ feedRef' = c
    /\ UNCHANGED <<feedHubVars, isPaused, eventsQueue, feed>>

\* The clean-up closes the socket of wsRef, and the effect runs again.
TogglePause(c) ==
    /\ c \notin Used
    /\ Cardinality(Used) + reconnects < Cardinality(Connections)
    /\ isPaused' = ~isPaused
    /\ sockets' = [sockets EXCEPT
          ![c] = NewSocket,
          ![feedRef] = IF @ = NoSocket THEN @ ELSE [NoSocket EXCEPT !.st = "closing"]]
    /\ feedRef' = c
    /\ UNCHANGED <<feedHubVars, reconnects, eventsQueue, feed>>

\* The history replaces what is shown, also while the feed is paused.
OnHistory(c) ==
    /\ sockets[c].history # <<>>
    /\ feed' = sockets[c].history
    /\ sockets' = [sockets EXCEPT ![c].history = <<>>]
    /\ UNCHANGED <<feedHubVars, reconnects, feedRef, isPaused, eventsQueue>>

OnLive(c) ==
    /\ sockets[c].history = <<>> /\ sockets[c].queue # <<>>
    /\ eventsQueue' = Append(eventsQueue, Head(sockets[c].queue))
    /\ sockets' = [sockets EXCEPT ![c].queue = Tail(@)]
    /\ UNCHANGED <<feedHubVars, reconnects, feedRef, isPaused, feed>>

\* Mutant: one event alone is not flushed.
TickInBatches == ~isPaused /\ Len(eventsQueue) > 1

TickFlushes == ~isPaused /\ eventsQueue # <<>>

Kept(s) == LastOf(FeedCap, s)

FeedTick ==
    /\ TickFlushes
    /\ feed' = Kept(feed \o eventsQueue)
    /\ eventsQueue' = <<>>
    /\ UNCHANGED <<feedHubVars, sockets, reconnects, feedRef, isPaused>>

TriageNext ==
    \/ EmitAgentEvent
    \/ \E c \in Connections : \/ HubGreets(c) \/ HubSubscribes(c)
                              \/ FeedBreaks(c) \/ FeedOnClose(c) \/ Connect(c)
                              \/ TogglePause(c) \/ OnHistory(c) \/ OnLive(c)
    \/ FeedTick

-----------------------------------------------------------------------------
\* Live events that have arrived are shown, unless the feed is paused first.
LiveEventsShown == eventsQueue # <<>> ~> (eventsQueue = <<>> \/ isPaused)
=============================================================================
