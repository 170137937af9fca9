----------------------------- MODULE AgentChat -----------------------------
(***************************************************************************)
(* features/agent-ops/AgentChatWidget.tsx with agent_chat_websocket of the *)
(* hub.  The hub takes the queries of a connection one after the other and *)
(* streams each answer in chunks; the widget appends a chunk to its last   *)
(* message and may send, close or reopen at any time.                      *)
(*                                                                         *)
(* A query stands for its text and a chunk for its place in the answer.    *)
(***************************************************************************)
EXTENDS Naturals, Sequences, FiniteSets

CONSTANTS Chunks,      \* chunks of an answer
          RateLimit,   \* queries a connection may send within the window
          MaxQueries   \* bound on the queries sent

ASSUME ChatAssumption == Chunks \in Nat /\ RateLimit \in Nat /\ MaxQueries \in Nat

VARIABLES
    chatOpen,     \* isOpen
    chatSocket,   \* readyState of wsRef.current, "none" before the first
    bubbles,      \* messages
    chatTyping,   \* isTyping
    queries,      \* number of queries typed so far: their identifiers
    inbox,        \* queries on their way to the hub
    answering,    \* the hub's loop: [query, next] or idle
    recent,       \* queries of this connection within the window
    frames        \* frames on their way to the widget

widgetVars == <<chatOpen, bubbles, chatTyping, queries>>
chatHubVars == <<inbox, answering, recent, frames>>
chatVars == <<widgetVars, chatSocket, chatHubVars>>

ChatIdle == [query |-> 0, next |-> 0]
Frame(type, q, k) == [type |-> type, query |-> q, chunk |-> k]
Bubble(role) == [role |-> role, content |-> <<>>]

ChatTypeOK ==
    /\ chatOpen \in BOOLEAN
    /\ chatSocket \in {"none", "connecting", "open", "closed"}
    /\ \A i \in 1..Len(bubbles) :
          /\ bubbles[i].role \in {"system", "user", "agent"}
          /\ bubbles[i].role # "agent" => bubbles[i].content = <<>>
    /\ chatTyping \in BOOLEAN
    /\ queries \in 0..MaxQueries
    /\ inbox \in Seq(1..MaxQueries)
    /\ answering \in [query : 0..MaxQueries, next : 0..Chunks + 1]
    /\ recent \in 0..RateLimit
    /\ chatSocket # "open" => frames = <<>>

ChatInit ==
    /\ chatOpen = FALSE
    /\ chatSocket = "none"
    /\ bubbles = <<Bubble("system")>>
    /\ chatTyping = FALSE
    /\ queries = 0
    /\ inbox = <<>> /\ answering = ChatIdle /\ recent = 0 /\ frames = <<>>

\* A connection ends: what it carried, and the hub's loop for it, are gone.
Disconnected == inbox' = <<>> /\ answering' = ChatIdle /\ recent' = 0 /\ frames' = <<>>

-----------------------------------------------------------------------------
(* The widget.                                                             *)
OpenPanel ==
    /\ ~chatOpen
    /\ chatOpen' = TRUE
    /\ chatSocket' = "connecting"
    /\ UNCHANGED <<bubbles, chatTyping, queries, chatHubVars>>

\* The clean-up of the effect; the typing indicator stays as it is.
ClosePanel ==
    /\ chatOpen
    /\ chatOpen' = FALSE
    /\ chatSocket' = "closed"
    /\ Disconnected
    /\ UNCHANGED <<bubbles, chatTyping, queries>>

Connected ==
    /\ chatSocket = "connecting"
    /\ chatSocket' = "open"
    /\ UNCHANGED <<widgetVars, chatHubVars>>

\* The widget has no onclose: nothing is reconnected or reported.
ChatBreaks ==
    /\ chatSocket \in {"connecting", "open"}
    /\ chatSocket' = "closed"
    /\ Disconnected
    /\ UNCHANGED widgetVars

\* The message is shown first.  send throws while the socket is connecting and
\* discards the text once it is closed, so only an open one carries it.
HandleSend ==
    /\ chatOpen
    /\ queries < MaxQueries
    /\ queries' = queries + 1
    /\ bubbles' = Append(bubbles, Bubble("user"))
    /\ inbox' = IF chatSocket = "open" THEN Append(inbox, queries + 1) ELSE inbox
    /\ UNCHANGED <<chatOpen, chatSocket, chatTyping, answering, recent, frames>>

\* typing: an empty message for the answer, unless there is one already.
OnTyping ==
    IF bubbles[Len(bubbles)] = Bubble("agent") THEN bubbles
    ELSE Append(bubbles, Bubble("agent"))

AppendChunk(f) ==
    [bubbles EXCEPT ![Len(bubbles)].content = Append(@, <<f.query, f.chunk>>)]

\* Mutant: a chunk that finds no message of the agent opens one.
ChunkOpensBubble(f) ==
    IF bubbles[Len(bubbles)].role = "agent" THEN AppendChunk(f)
    ELSE Append(bubbles, [role |-> "agent", content |-> << <<f.query, f.chunk>> >>])

\* chunk: for the last message, and dropped when that is not the agent's.
OnChunk(f) ==
    IF bubbles[Len(bubbles)].role = "agent" THEN AppendChunk(f) ELSE bubbles

TypingAfter(f) == f.type = "typing"

ChatOnMessage ==
    /\ frames # <<>>
    /\ LET f == Head(frames) IN
          /\ chatTyping' = TypingAfter(f)
          /\ bubbles' = CASE f.type = "error"  -> Append(bubbles, Bubble("system"))
                          [] f.type = "typing" -> OnTyping
                          [] f.type = "chunk"  -> OnChunk(f)
                          [] f.type = "done"   -> bubbles
    /\ frames' = Tail(frames)
    /\ UNCHANGED <<chatOpen, chatSocket, queries, inbox, answering, recent>>

-----------------------------------------------------------------------------
(* The hub's loop for the connection.                                      *)

LimitReached == recent >= RateLimit

HubReceives ==
    /\ inbox # <<>> /\ answering = ChatIdle
    /\ inbox' = Tail(inbox)
    /\ IF LimitReached
         THEN /\ frames' = Append(frames, Frame("error", Head(inbox), 0))
              /\ UNCHANGED <<answering, recent>>
         ELSE /\ recent' = recent + 1
              /\ frames' = Append(frames, Frame("typing", Head(inbox), 0))
              /\ answering' = [query |-> Head(inbox), next |-> 1]
    /\ UNCHANGED <<widgetVars, chatSocket>>

HubStreams ==
    /\ answering # ChatIdle
    /\ IF answering.next <= Chunks
         THEN /\ frames' = Append(frames, Frame("chunk", answering.query, answering.next))
              /\ answering' = [answering EXCEPT !.next = @ + 1]
         ELSE /\ frames' = Append(frames, Frame("done", answering.query, 0))
              /\ answering' = ChatIdle
    /\ UNCHANGED <<widgetVars, chatSocket, inbox, recent>>

\* A minute passes.
WindowPasses ==
    /\ recent > 0
    /\ recent' = 0
    /\ UNCHANGED <<widgetVars, chatSocket, inbox, answering, frames>>

ChatNext ==
    \/ OpenPanel \/ ClosePanel \/ Connected \/ ChatBreaks
    \/ HandleSend \/ ChatOnMessage
    \/ HubReceives \/ HubStreams \/ WindowPasses

ChatSpec == ChatInit /\ [][ChatNext]_chatVars

-----------------------------------------------------------------------------
ChatAnswers == {i \in 1..Len(bubbles) : bubbles[i].role = "agent" /\ bubbles[i].content # <<>>}

\* A message of the agent is the beginning of one answer, and no answer is
\* shown twice: whatever is sent, closed or reopened in between, chunks of two
\* answers are never mixed and none is skipped within a message.
BubbleIsPrefixOfAnswer ==
    /\ \A i \in ChatAnswers : \E q \in 1..queries :
          bubbles[i].content = [k \in 1..Len(bubbles[i].content) |-> <<q, k>>]
    /\ \A i, j \in ChatAnswers :
          bubbles[i].content[1] = bubbles[j].content[1] => i = j
=============================================================================
