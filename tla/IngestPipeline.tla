--------------------------- MODULE IngestPipeline ---------------------------
(***************************************************************************)
(* The telemetry path of core-ingest: handleAgentPush and BatchWriteLogs,  *)
(* the triage channel qualifiedEventCh with the gRPC streams that drain    *)
(* it, the dead-letter channel DLQBuffer with the goroutine that writes it *)
(* to the bbolt log, and the shutdown of main (core-ingest/main.go,        *)
(* core-ingest/database.go).                                               *)
(*                                                                         *)
(* A request is a goroutine of the HTTP server that carries the payloads   *)
(* of one push; requests, streams, the dead-letter goroutine and the       *)
(* shutdown interleave at every channel operation and database call.       *)
(***************************************************************************)
EXTENDS Naturals, Sequences, Functions

CONSTANTS
    Requests,     \* pushes that pass ServeHTTP
    Payloads,     \* request -> sequence of payload ids, all different
    Subscribers,  \* gRPC streams the backends can open
    TriageCap,    \* capacity of qualifiedEventCh (1000 in the code)
    DLQCap,       \* capacity of DLQBuffer (100000 in the code)
    Startups      \* how NewDatabaseManager and bbolt.Open may have ended

ASSUME PipelineAssumption ==
    /\ Startups \subseteq [dbManager : BOOLEAN, dlq : {"absent", "running"}]
    /\ TriageCap \in Nat \ {0} /\ DLQCap \in Nat \ {0}
    /\ \A r \in Requests : /\ Payloads[r] \in Seq(Range(Payloads[r]))
                           /\ IsInjective(Payloads[r]) /\ Payloads[r] # <<>>
    /\ \A r, q \in Requests : r # q => Range(Payloads[r]) \cap Range(Payloads[q]) = {}

VARIABLES
    phase,            \* the process: running, stopping (ctx is done), exited
    stopped,          \* the server goroutines that have returned to wg.Wait
    dbManager,        \* ClickHouse was reachable at start-up
    request,          \* request -> where its handler is
    qualifiedEventCh, \* the triage channel
    stream,           \* subscriber -> its stream
    delivered,        \* subscriber -> payloads received, in order
    logs, cdm_events, \* rows of the two ClickHouse tables
    DLQBuffer,        \* the dead-letter channel
    dlq,              \* the dead-letter goroutine
    wal,              \* payloads in the bbolt file
    qualified,        \* history: payloads offered to the triage channel, in order
    shed              \* history: payloads dropped, and where

vars == <<phase, stopped, dbManager, request, qualifiedEventCh, stream, delivered,
          logs, cdm_events, DLQBuffer, dlq, wal, qualified, shed>>

server == <<phase, stopped, dbManager>>
triage == <<qualifiedEventCh, stream, delivered>>
storage == <<logs, cdm_events>>
deadLetter == <<DLQBuffer, dlq, wal>>
history == <<qualified, shed>>

-----------------------------------------------------------------------------
Events == UNION {Range(Payloads[r]) : r \in Requests}

Off == [at |-> "off"]
On == [at |-> "on"]
Holding(e) == [at |-> "sending", event |-> e]

\* i is the index of the loop the handler is in; rows and cdm_rows are the
\* rows appended to the two batches.
Init ==
    /\ phase = "running" /\ stopped = {}
    /\ \E start \in Startups : dbManager = start.dbManager /\ dlq = start.dlq
    /\ request = [r \in Requests |-> [at |-> "new", i |-> 1, rows |-> {}, cdm_rows |-> {}]]
    /\ qualifiedEventCh = <<>>
    /\ stream = [s \in Subscribers |-> Off]
    /\ delivered = [s \in Subscribers |-> <<>>]
    /\ logs = {} /\ cdm_events = {}
    /\ DLQBuffer = <<>> /\ wal = {}
    /\ qualified = <<>> /\ shed = {}

Alive == phase # "exited"

Goto(r, at) == request' = [request EXCEPT ![r].at = at, ![r].i = 1]

\* The next payload of the loop, or the next statement after it.
Loop(r, after) ==
    request' = [request EXCEPT
        ![r].i = IF @ < Len(Payloads[r]) THEN @ + 1 ELSE 1,
        ![r].at = IF request[r].i < Len(Payloads[r]) THEN @ ELSE after]

Current(r) == Payloads[r][request[r].i]

-----------------------------------------------------------------------------
(* handleAgentPush.                                                          *)

Accept(r) ==
    /\ phase = "running" /\ request[r].at = "new"
    /\ Goto(r, "qualify")
    /\ UNCHANGED <<server, triage, storage, deadLetter, history>>

\* Mutant: the send blocks while the channel is full.
QualifyBlocks(r) ==
    /\ Alive /\ request[r].at = "qualify"
    /\ Len(qualifiedEventCh) < TriageCap
    /\ qualified' = Append(qualified, Current(r))
    /\ qualifiedEventCh' = Append(qualifiedEventCh, Current(r))
    /\ Loop(r, IF dbManager THEN "prepare" ELSE "reply")
    /\ UNCHANGED <<server, stream, delivered, storage, deadLetter, shed>>

\* One payload: normalise, analyse, enrich, and a non-blocking send.
Qualify(r) ==
    /\ Alive /\ request[r].at = "qualify"
    /\ qualified' = Append(qualified, Current(r))
    /\ \/ /\ Len(qualifiedEventCh) < TriageCap
          /\ qualifiedEventCh' = Append(qualifiedEventCh, Current(r))
          /\ UNCHANGED shed
       \/ /\ Len(qualifiedEventCh) = TriageCap
          /\ shed' = shed \cup {[event |-> Current(r), from |-> "triage"]}
          /\ UNCHANGED qualifiedEventCh
    /\ Loop(r, IF dbManager THEN "prepare" ELSE "reply")
    /\ UNCHANGED <<server, stream, delivered, storage, deadLetter>>

\* 202 whatever BatchWriteLogs returned.
Reply(r) ==
    /\ Alive /\ request[r].at = "reply"
    /\ Goto(r, "done")
    /\ UNCHANGED <<server, triage, storage, deadLetter, history>>

-----------------------------------------------------------------------------
(* BatchWriteLogs.                                                           *)

\* Either PrepareBatch may fail, and then BatchWriteLogs just returns.
Prepare(r) ==
    /\ Alive /\ request[r].at = "prepare"
    /\ Goto(r, "append") \/ Goto(r, "reply")
    /\ UNCHANGED <<server, triage, storage, deadLetter, history>>

\* Mutant: the row that failed to append to the logs still goes to cdm_events.
AppendedWithoutContinue(r) ==
    {p \in (SUBSET Range(Payloads[r])) \X (SUBSET Range(Payloads[r])) :
        Range(Payloads[r]) \ p[1] \subseteq p[2]}

\* The rows that append to the log batch, and of those the rows that append
\* to the cdm batch: a failed log row is skipped with continue.
Appended(r) ==
    {p \in (SUBSET Range(Payloads[r])) \X (SUBSET Range(Payloads[r])) : p[2] \subseteq p[1]}

AppendRows(r) ==
    /\ Alive /\ request[r].at = "append"
    /\ \E p \in Appended(r) :
         request' = [request EXCEPT ![r].at = "send_cdm",
                                    ![r].rows = p[1], ![r].cdm_rows = p[2]]
    /\ UNCHANGED <<server, triage, storage, deadLetter, history>>

\* The result of cdmBatch.Send is ignored.
SendCdm(r) ==
    /\ Alive /\ request[r].at = "send_cdm"
    /\ cdm_events' = cdm_events \cup request[r].cdm_rows \/ UNCHANGED cdm_events
    /\ Goto(r, "send_logs")
    /\ UNCHANGED <<server, triage, logs, deadLetter, history>>

\* batch.Send: written and acknowledged; or an error, after which the rows may
\* or may not be in the table.
SendLogs(r) ==
    /\ Alive /\ request[r].at = "send_logs"
    /\ \/ logs' = logs \cup request[r].rows /\ Goto(r, "reply")
       \/ logs' = logs \cup request[r].rows /\ Goto(r, "reroute")
       \/ UNCHANGED logs /\ Goto(r, "reroute")
    /\ UNCHANGED <<server, triage, cdm_events, deadLetter, history>>

\* Mutant: only the first payload is rerouted.
RerouteFirstOnly(r) ==
    /\ Alive /\ request[r].at = "reroute"
    /\ \/ /\ Len(DLQBuffer) < DLQCap
          /\ DLQBuffer' = Append(DLQBuffer, Current(r))
          /\ UNCHANGED shed
       \/ /\ Len(DLQBuffer) = DLQCap
          /\ shed' = shed \cup {[event |-> Current(r), from |-> "dlq"]}
          /\ UNCHANGED DLQBuffer
    /\ Goto(r, "reply")
    /\ UNCHANGED <<server, triage, storage, dlq, wal, qualified>>

\* Every payload of the push is offered to the dead-letter channel, the ones
\* that failed to append included.
Reroute(r) ==
    /\ Alive /\ request[r].at = "reroute"
    /\ \/ /\ Len(DLQBuffer) < DLQCap
          /\ DLQBuffer' = Append(DLQBuffer, Current(r))
          /\ UNCHANGED shed
       \/ /\ Len(DLQBuffer) = DLQCap
          /\ shed' = shed \cup {[event |-> Current(r), from |-> "dlq"]}
          /\ UNCHANGED DLQBuffer
    /\ Loop(r, "reply")
    /\ UNCHANGED <<server, triage, storage, dlq, wal, qualified>>

-----------------------------------------------------------------------------
(* StartBackgroundDLQProcessor.  When the context is done and the channel is *)
(* not empty, select takes either branch.  The error of dlqDB.Update is      *)
(* ignored.                                                                  *)

DLQWrite ==
    /\ Alive /\ dlq = "running" /\ DLQBuffer # <<>>
    /\ DLQBuffer' = Tail(DLQBuffer)
    /\ \/ /\ wal' = wal \cup {Head(DLQBuffer)}
          /\ UNCHANGED shed
       \/ /\ shed' = shed \cup {[event |-> Head(DLQBuffer), from |-> "wal"]}
          /\ UNCHANGED wal
    /\ UNCHANGED <<server, request, triage, storage, dlq, qualified>>

DLQStop ==
    /\ phase = "stopping" /\ dlq = "running"
    /\ dlq' = "stopped"
    /\ UNCHANGED <<server, request, triage, storage, DLQBuffer, wal, history>>

-----------------------------------------------------------------------------
(* SubscribeToQualifiedEvents.                                               *)

Subscribe(s) ==
    /\ phase = "running" /\ stream[s] = Off
    /\ stream' = [stream EXCEPT ![s] = On]
    /\ UNCHANGED <<server, request, qualifiedEventCh, delivered, storage, deadLetter, history>>

Receive(s) ==
    /\ Alive /\ stream[s] = On /\ qualifiedEventCh # <<>>
    /\ stream' = [stream EXCEPT ![s] = Holding(Head(qualifiedEventCh))]
    /\ qualifiedEventCh' = Tail(qualifiedEventCh)
    /\ UNCHANGED <<server, request, delivered, storage, deadLetter, history>>

\* Mutant: an event that could not be sent goes back to the channel.
SendRequeues(s) ==
    /\ Alive /\ stream[s].at = "sending"
    /\ \/ /\ delivered' = [delivered EXCEPT ![s] = Append(@, stream[s].event)]
          /\ stream' = [stream EXCEPT ![s] = On]
          /\ UNCHANGED qualifiedEventCh
       \/ /\ stream' = [stream EXCEPT ![s] = Off]
          /\ Len(qualifiedEventCh) < TriageCap
          /\ qualifiedEventCh' = Append(qualifiedEventCh, stream[s].event)
          /\ UNCHANGED delivered
    /\ UNCHANGED <<server, request, storage, deadLetter, history>>

\* stream.Send: delivered, or an error that ends the stream and the event.
Send(s) ==
    /\ Alive /\ stream[s].at = "sending"
    /\ \/ /\ delivered' = [delivered EXCEPT ![s] = Append(@, stream[s].event)]
          /\ stream' = [stream EXCEPT ![s] = On]
       \/ /\ stream' = [stream EXCEPT ![s] = Off]
          /\ UNCHANGED delivered
    /\ UNCHANGED <<server, request, qualifiedEventCh, storage, deadLetter, history>>

\* Mutant: nothing ends an open stream once the shutdown has begun.
StreamEndsWhileRunning(s) ==
    /\ phase = "running" /\ stream[s] = On
    /\ stream' = [stream EXCEPT ![s] = Off]
    /\ UNCHANGED <<server, request, qualifiedEventCh, delivered, storage, deadLetter, history>>

\* The stream's context ends: the backend leaves, or the connection reaches
\* MaxConnectionAge and its grace period.
StreamEnds(s) ==
    /\ Alive /\ stream[s] = On
    /\ stream' = [stream EXCEPT ![s] = Off]
    /\ UNCHANGED <<server, request, qualifiedEventCh, delivered, storage, deadLetter, history>>

-----------------------------------------------------------------------------
(* The end of main.                                                          *)

Signal ==
    /\ phase = "running"
    /\ phase' = "stopping"
    /\ UNCHANGED <<stopped, dbManager, request, triage, storage, deadLetter, history>>

\* httpServer.Shutdown returns when the connections are idle, or after five
\* seconds whatever they do.
HttpShutdown ==
    /\ phase = "stopping"
    /\ stopped' = stopped \cup {"http"}
    /\ UNCHANGED <<phase, dbManager, request, triage, storage, deadLetter, history>>

\* srv.GracefulStop waits for the open streams.
GracefulStop ==
    /\ phase = "stopping"
    /\ \A s \in Subscribers : stream[s] = Off
    /\ stopped' = stopped \cup {"grpc"}
    /\ UNCHANGED <<phase, dbManager, request, triage, storage, deadLetter, history>>

Exit ==
    /\ phase = "stopping" /\ stopped = {"http", "grpc"}
    /\ phase' = "exited"
    /\ UNCHANGED <<stopped, dbManager, request, triage, storage, deadLetter, history>>

Handle(r) ==
    \/ Qualify(r) \/ Prepare(r) \/ AppendRows(r) \/ SendCdm(r) \/ SendLogs(r)
    \/ Reroute(r) \/ Reply(r)

Next ==
    \/ \E r \in Requests : Accept(r) \/ Handle(r)
    \/ \E s \in Subscribers : Subscribe(s) \/ Receive(s) \/ Send(s) \/ StreamEnds(s)
    \/ DLQWrite \/ DLQStop
    \/ Signal \/ HttpShutdown \/ GracefulStop \/ Exit

Spec == Init /\ [][Next]_vars

\* Goroutines run, database calls return, and the keepalive parameters end
\* every stream at last; clients and backends need do nothing.
Fairness ==
    /\ \A r \in Requests : WF_vars(Handle(r))
    /\ \A s \in Subscribers : WF_vars(Send(s)) /\ WF_vars(StreamEnds(s))
    /\ WF_vars(HttpShutdown) /\ WF_vars(GracefulStop) /\ WF_vars(Exit)

FairSpec == Spec /\ Fairness

-----------------------------------------------------------------------------
(* Properties.                                                               *)

\* Where an event of the triage channel is.
Places(e) ==
    {<<"channel", i>> : i \in {j \in DOMAIN qualifiedEventCh : qualifiedEventCh[j] = e}}
    \cup {<<"sending", s>> : s \in {u \in Subscribers : stream[u] = Holding(e)}}
    \cup UNION {{<<s, i>> : i \in {j \in DOMAIN delivered[s] : delivered[s][j] = e}} :
                  s \in Subscribers}

\* Streams compete for the channel: an event is delivered to at most one of
\* them, at most once, and every stream delivers in the order in which
\* handleAgentPush offered, across requests, drops, failed sends and
\* reconnections.
DeliveredOnceInOrder ==
    /\ \A e \in Events : \A p, q \in Places(e) : p = q
    /\ \A s \in Subscribers : \A i, j \in DOMAIN delivered[s] : i < j =>
          \E k, l \in DOMAIN qualified :
              k < l /\ qualified[k] = delivered[s][i] /\ qualified[l] = delivered[s][j]

\* In the logs table, in the dead-letter path, or dropped there with a message.
Kept(e) ==
    \/ e \in logs \cup Range(DLQBuffer) \cup wal
    \/ \E d \in shed : d.event = e /\ d.from # "triage"

\* A row that was appended to the batch is never lost without a trace: when the
\* handler answers, the row is in the table or was offered to DLQBuffer.
AppendedRowsKept ==
    \A r \in Requests : request[r].at \in {"reply", "done"} =>
        \A e \in request[r].rows : Kept(e)

\* cdm_events never shows an event whose log row was left out of the batch,
\* although the two batches are sent apart and may fail apart.
CdmHasLogRow ==
    \A r \in Requests : cdm_events \cap Range(Payloads[r]) \subseteq request[r].rows

\* A push is answered even when no stream drains the triage channel and the
\* dead-letter goroutine never started: the sends do not block.
PushAnswered ==
    \A r \in Requests :
        request[r].at = "qualify" ~> (request[r].at = "done" \/ phase = "exited")

\* After the signal the process ends, open streams notwithstanding.
ShutdownCompletes == phase = "stopping" ~> phase = "exited"

\* "Failure Mode: Database unreachability routes batch to DLQBuffer": a push that
\* is answered without its batches prepared has its events in the dead-letter
\* path.
UnreachableRoutesToDLQ ==
    [][\A r \in Requests : request[r].at = "prepare" /\ request'[r].at = "reply"
            => \A e \in Range(Payloads[r]) : Kept(e)']_vars
=============================================================================
