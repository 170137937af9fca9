------------------------ MODULE IngestPipelineProofs ------------------------
(***************************************************************************)
(* Proofs about module IngestPipeline, for any pushes, streams and channel *)
(* capacities: rows that were appended are kept, cdm_events never runs     *)
(* ahead of the log batch, and the competing streams deliver every event   *)
(* at most once and in order.  Liveness stays with TLC.                    *)
(***************************************************************************)
EXTENDS IngestPipeline, TLAPS

\* The provers a leaf is given when it names none, with time for a busy machine.
USE SMTT(30), ZenonT(30)

Early == {"new", "qualify", "prepare", "append"}

Steps == Early \cup {"send_cdm", "send_logs", "reroute", "reply", "done"}

Handlers == [at : Steps, i : Nat, rows : SUBSET Events, cdm_rows : SUBSET Events]

Streams == {Off, On} \cup [at : {"sending"}, event : Events]

TypeOK ==
    /\ request \in [Requests -> Handlers]
    /\ \A r \in Requests : request[r].i \in DOMAIN Payloads[r]
    /\ DLQBuffer \in Seq(Events)
    /\ qualifiedEventCh \in Seq(Events) /\ qualified \in Seq(Events)
    /\ stream \in [Subscribers -> Streams]
    /\ delivered \in [Subscribers -> Seq(Events)]

-----------------------------------------------------------------------------
(* What the storage properties rest on, for one push.                        *)

\* The cdm batch is part of the log batch, and both are empty until the rows
\* are appended.
Batches(r) ==
    /\ request[r].rows \subseteq Range(Payloads[r])
    /\ request[r].cdm_rows \subseteq request[r].rows
    /\ request[r].at \in Early =>
          request[r].rows = {} /\ cdm_events \cap Range(Payloads[r]) = {}

\* The loop that reroutes a batch has left every payload before its index in
\* the dead-letter path.
Rerouted(r) ==
    request[r].at = "reroute" =>
        \A j \in DOMAIN Payloads[r] : j < request[r].i => Kept(Payloads[r][j])

StorageInv ==
    /\ TypeOK
    /\ \A r \in Requests : Batches(r) /\ Rerouted(r)
    /\ AppendedRowsKept
    /\ CdmHasLogRow

-----------------------------------------------------------------------------
(* What the delivery property rests on.                                      *)

\* a was offered before b.
Before(offered, a, b) ==
    \E k, l \in DOMAIN offered : k < l /\ offered[k] = a /\ offered[l] = b

\* No payload is offered twice: what a push has still to offer has not been
\* offered.
ToOffer(r) ==
    {j \in DOMAIN Payloads[r] :
        \/ request[r].at = "new"
        \/ request[r].at = "qualify" /\ j >= request[r].i}

OfferedOnce ==
    /\ IsInjective(qualified)
    /\ \A r \in Requests : \A j \in ToOffer(r) : Payloads[r][j] \notin Range(qualified)

\* The events a stream has taken out of the channel and not dropped.
Taken(s) ==
    Range(delivered[s]) \cup
    {e \in Events : stream[s].at = "sending" /\ stream[s].event = e}

\* The channel is in order and behind everything the streams have taken.
ChannelOrder ==
    /\ Range(qualifiedEventCh) \subseteq Range(qualified)
    /\ \A i, j \in DOMAIN qualifiedEventCh :
          i < j => Before(qualified, qualifiedEventCh[i], qualifiedEventCh[j])
    /\ \A s \in Subscribers : \A e \in Taken(s), i \in DOMAIN qualifiedEventCh :
          Before(qualified, e, qualifiedEventCh[i])

\* Each stream is in order, and the event it is sending comes last.
StreamOrder(s) ==
    /\ Taken(s) \subseteq Range(qualified)
    /\ \A i, j \in DOMAIN delivered[s] : i < j => Before(qualified, delivered[s][i], delivered[s][j])
    /\ stream[s].at = "sending" =>
          \A i \in DOMAIN delivered[s] : Before(qualified, delivered[s][i], stream[s].event)

\* No event is taken by two streams.
TakenOnce == \A s, u \in Subscribers : s # u => Taken(s) \cap Taken(u) = {}

TriageInv ==
    /\ TypeOK
    /\ OfferedOnce
    /\ ChannelOrder
    /\ \A s \in Subscribers : StreamOrder(s)
    /\ TakenOnce

-----------------------------------------------------------------------------
(* Sequences.                                                                *)

LEMMA AppendFacts ==
    ASSUME NEW S, NEW s \in Seq(S), NEW e \in S
    PROVE  /\ Append(s, e) \in Seq(S)
           /\ DOMAIN s = 1 .. Len(s) /\ Len(s) \in Nat
           /\ DOMAIN Append(s, e) = 1 .. Len(s) + 1
           /\ \A i \in DOMAIN s : Append(s, e)[i] = s[i]
           /\ Append(s, e)[Len(s) + 1] = e
           /\ Range(Append(s, e)) = Range(s) \cup {e}
<1>1. /\ Append(s, e) \in Seq(S) /\ Len(s) \in Nat
      /\ DOMAIN s = 1 .. Len(s) /\ DOMAIN Append(s, e) = 1 .. Len(s) + 1
      /\ \A i \in 1 .. Len(s) : Append(s, e)[i] = s[i]
      /\ Append(s, e)[Len(s) + 1] = e
  OBVIOUS
<1>2. \A x : (\E i \in 1 .. Len(s) + 1 : x = Append(s, e)[i])
               <=> (\E i \in 1 .. Len(s) : x = s[i]) \/ x = e
  BY <1>1
<1> QED
  BY <1>1, <1>2 DEF Range

LEMMA AppendRange ==
    ASSUME NEW S, NEW s \in Seq(S), NEW e \in S
    PROVE  Range(Append(s, e)) = Range(s) \cup {e}
BY AppendFacts, SMTT(30)

LEMMA TailFacts ==
    ASSUME NEW S, NEW s \in Seq(S), s # <<>>
    PROVE  /\ Tail(s) \in Seq(S) /\ Head(s) \in S
           /\ Head(s) = s[1] /\ 1 \in DOMAIN s
           /\ DOMAIN s \subseteq Nat /\ DOMAIN Tail(s) \subseteq Nat \ {0}
           /\ \A i \in DOMAIN Tail(s) : i + 1 \in DOMAIN s /\ Tail(s)[i] = s[i + 1]
           /\ Range(s) = {Head(s)} \cup Range(Tail(s))
<1>1. /\ Tail(s) \in Seq(S) /\ Head(s) = s[1] /\ Len(s) \in Nat \ {0}
      /\ DOMAIN s = 1 .. Len(s) /\ DOMAIN Tail(s) = 1 .. Len(s) - 1
      /\ \A i \in 1 .. Len(s) - 1 : Tail(s)[i] = s[i + 1]
  OBVIOUS
<1>2. ASSUME NEW x
      PROVE  (\E i \in 1 .. Len(s) : x = s[i])
               <=> (\E i \in 1 .. Len(s) - 1 : x = Tail(s)[i]) \/ x = Head(s)
  <2>1. ASSUME NEW i \in 1 .. Len(s), x = s[i]
        PROVE  (\E j \in 1 .. Len(s) - 1 : x = Tail(s)[j]) \/ x = Head(s)
    <3>1. CASE i = 1
      BY <1>1, <2>1, <3>1
    <3>2. CASE i # 1
      <4>1. i - 1 \in 1 .. Len(s) - 1 /\ Tail(s)[i - 1] = s[i]
        BY <1>1, <3>2
      <4> QED
        BY <2>1, <4>1
    <3> QED
      BY <3>1, <3>2
  <2>2. ASSUME NEW i \in 1 .. Len(s) - 1, x = Tail(s)[i]
        PROVE  \E j \in 1 .. Len(s) : x = s[j]
    BY <1>1, <2>2
  <2> QED
    BY <1>1, <2>1, <2>2
<1>3. \A x : x \in Range(s) <=> x \in Range(Tail(s)) \/ x = Head(s)
  <2>1. \A x : x \in Range(s) <=> \E i \in 1 .. Len(s) : x = s[i]
    BY <1>1 DEF Range
  <2>2. \A x : x \in Range(Tail(s)) <=> \E i \in 1 .. Len(s) - 1 : x = Tail(s)[i]
    BY <1>1, ZenonT(30) DEF Range
  <2> QED
    BY <1>2, <2>1, <2>2, ZenonT(30)
<1> QED
  BY <1>1, <1>3

\* What the assumption says of the payloads of one push.
LEMMA PayloadFacts ==
    ASSUME NEW r \in Requests
    PROVE  /\ DOMAIN Payloads[r] = 1 .. Len(Payloads[r]) /\ Len(Payloads[r]) \in Nat \ {0}
           /\ \A j, k \in DOMAIN Payloads[r] : Payloads[r][j] = Payloads[r][k] => j = k
           /\ Range(Payloads[r]) \subseteq Events
           /\ \A j \in DOMAIN Payloads[r] : Payloads[r][j] \in Range(Payloads[r])
           /\ \A e \in Range(Payloads[r]) : \E j \in DOMAIN Payloads[r] : e = Payloads[r][j]
           /\ \A q \in Requests : q # r => Range(Payloads[r]) \cap Range(Payloads[q]) = {}
<1>1. Payloads[r] \in Seq(Range(Payloads[r])) /\ Payloads[r] # <<>> /\ IsInjective(Payloads[r])
  BY PipelineAssumption
<1>2. DOMAIN Payloads[r] = 1 .. Len(Payloads[r]) /\ Len(Payloads[r]) \in Nat \ {0}
  BY <1>1
<1>3. \A q \in Requests : q # r => Range(Payloads[r]) \cap Range(Payloads[q]) = {}
  BY PipelineAssumption, ZenonT(30)
<1>4. Range(Payloads[r]) \subseteq Events
  BY DEF Events
<1> QED
  BY <1>1, <1>2, <1>3, <1>4, ZenonT(30) DEF IsInjective, Range

-----------------------------------------------------------------------------
(* The handler of a push.                                                    *)

LEMMA CurrentFacts ==
    ASSUME TypeOK, NEW r \in Requests
    PROVE  /\ Current(r) \in Range(Payloads[r]) /\ Current(r) \in Events
           /\ request[r].i \in Nat
BY PayloadFacts DEF TypeOK, Current, Handlers

LEMMA GotoFacts ==
    ASSUME TypeOK, NEW r \in Requests, NEW at \in Steps, Goto(r, at)
    PROVE  /\ request' \in [Requests -> Handlers]
           /\ \A q \in Requests :
                /\ request'[q].i \in DOMAIN Payloads[q]
                /\ request'[q].rows = request[q].rows
                /\ request'[q].cdm_rows = request[q].cdm_rows
                /\ q # r => request'[q] = request[q]
           /\ request'[r].at = at /\ request'[r].i = 1
<1>1. 1 \in DOMAIN Payloads[r]
  BY PayloadFacts
<1>2. request' = [request EXCEPT ![r] = [request[r] EXCEPT !.at = at, !.i = 1]]
  BY ZenonT(30) DEF Goto, TypeOK
<1>3. /\ [request[r] EXCEPT !.at = at, !.i = 1] \in Handlers
      /\ [request[r] EXCEPT !.at = at, !.i = 1].at = at
      /\ [request[r] EXCEPT !.at = at, !.i = 1].i = 1
      /\ [request[r] EXCEPT !.at = at, !.i = 1].rows = request[r].rows
      /\ [request[r] EXCEPT !.at = at, !.i = 1].cdm_rows = request[r].cdm_rows
  BY ZenonT(30) DEF TypeOK, Handlers
<1> QED
  BY <1>1, <1>2, <1>3 DEF TypeOK

LEMMA LoopFacts ==
    ASSUME TypeOK, NEW r \in Requests, NEW after \in Steps, Loop(r, after)
    PROVE  /\ request' \in [Requests -> Handlers]
           /\ \A q \in Requests :
                /\ request'[q].i \in DOMAIN Payloads[q]
                /\ request'[q].rows = request[q].rows
                /\ request'[q].cdm_rows = request[q].cdm_rows
                /\ q # r => request'[q] = request[q]
           /\ \/ /\ request[r].i < Len(Payloads[r])
                 /\ request'[r].at = request[r].at /\ request'[r].i = request[r].i + 1
              \/ /\ request[r].i = Len(Payloads[r])
                 /\ request'[r].at = after /\ request'[r].i = 1
<1> DEFINE more == request[r].i < Len(Payloads[r])
           n == IF more THEN request[r].i + 1 ELSE 1
           a == IF more THEN request[r].at ELSE after
<1>1. /\ request[r] \in Handlers /\ n \in DOMAIN Payloads[r] /\ n \in Nat /\ a \in Steps
      /\ ~more => request[r].i = Len(Payloads[r])
  BY PayloadFacts DEF TypeOK, Handlers
<1>2. request' = [request EXCEPT ![r] = [request[r] EXCEPT !.at = a, !.i = n]]
  BY ZenonT(30) DEF Loop, TypeOK, Handlers
<1> HIDE DEF n, a
<1>3. /\ [request[r] EXCEPT !.at = a, !.i = n] \in Handlers
      /\ [request[r] EXCEPT !.at = a, !.i = n].at = a
      /\ [request[r] EXCEPT !.at = a, !.i = n].i = n
      /\ [request[r] EXCEPT !.at = a, !.i = n].rows = request[r].rows
      /\ [request[r] EXCEPT !.at = a, !.i = n].cdm_rows = request[r].cdm_rows
  BY <1>1, ZenonT(30) DEF TypeOK, Handlers
<1>4. /\ request' \in [Requests -> Handlers]
      /\ \A q \in Requests :
           /\ request'[q].i \in DOMAIN Payloads[q]
           /\ request'[q].rows = request[q].rows
           /\ request'[q].cdm_rows = request[q].cdm_rows
           /\ q # r => request'[q] = request[q]
      /\ request'[r].at = a /\ request'[r].i = n
  BY <1>1, <1>2, <1>3 DEF TypeOK
<1> QED
  BY <1>1, <1>4 DEF n, a

LEMMA AppendRowsFacts ==
    ASSUME TypeOK, NEW r \in Requests, AppendRows(r)
    PROVE  /\ request' \in [Requests -> Handlers]
           /\ \A q \in Requests :
                /\ request'[q].i \in DOMAIN Payloads[q]
                /\ q # r => request'[q] = request[q]
           /\ request'[r].at = "send_cdm"
           /\ request'[r].rows \subseteq Range(Payloads[r])
           /\ request'[r].cdm_rows \subseteq request'[r].rows
<1>1. PICK p \in Appended(r) :
        request' = [request EXCEPT ![r].at = "send_cdm", ![r].rows = p[1], ![r].cdm_rows = p[2]]
  BY ZenonT(30) DEF AppendRows
<1>2. p[1] \subseteq Range(Payloads[r]) /\ p[2] \subseteq p[1]
  BY DEF Appended
<1>3. p[1] \in SUBSET Events /\ p[2] \in SUBSET Events
  BY <1>2, PayloadFacts
<1> DEFINE h == [request[r] EXCEPT !.at = "send_cdm", !.rows = p[1], !.cdm_rows = p[2]]
<1>4. request' = [request EXCEPT ![r] = h]
  BY <1>1, ZenonT(30) DEF TypeOK
<1>5. /\ h \in Handlers /\ h.at = "send_cdm" /\ h.rows = p[1] /\ h.cdm_rows = p[2]
      /\ h.i = request[r].i
  BY <1>3, ZenonT(30) DEF TypeOK, Handlers, Steps
<1> HIDE DEF h
<1> QED
  BY <1>2, <1>4, <1>5 DEF TypeOK

\* Which of the five kinds of change a step makes to the requests.
LEMMA RequestStep ==
    ASSUME TypeOK, Next
    PROVE  /\ request' \in [Requests -> Handlers]
           /\ \A r \in Requests : request'[r].i \in DOMAIN Payloads[r]
<1>1. CASE UNCHANGED request
  BY <1>1 DEF TypeOK
<1>2. ASSUME NEW r \in Requests, NEW at \in Steps, Goto(r, at)
      PROVE  /\ request' \in [Requests -> Handlers]
             /\ \A q \in Requests : request'[q].i \in DOMAIN Payloads[q]
  BY <1>2, GotoFacts
<1>3. ASSUME NEW r \in Requests, NEW after \in Steps, Loop(r, after)
      PROVE  /\ request' \in [Requests -> Handlers]
             /\ \A q \in Requests : request'[q].i \in DOMAIN Payloads[q]
  BY <1>3, LoopFacts
<1>4. ASSUME NEW r \in Requests, AppendRows(r)
      PROVE  /\ request' \in [Requests -> Handlers]
             /\ \A q \in Requests : request'[q].i \in DOMAIN Payloads[q]
  BY <1>4, AppendRowsFacts
<1>5. ASSUME NEW r \in Requests, Accept(r) \/ Handle(r)
      PROVE  \/ \E at \in Steps : Goto(r, at) \/ Loop(r, at)
             \/ AppendRows(r)
  BY <1>5 DEF Accept, Handle, Qualify, Prepare, SendCdm, SendLogs, Reroute, Reply, Steps, Early
<1>6. \/ UNCHANGED request
      \/ \E r \in Requests : Accept(r) \/ Handle(r)
  BY DEF Next, Subscribe, Receive, Send, StreamEnds, DLQWrite, DLQStop, Signal,
         HttpShutdown, GracefulStop, Exit
<1> QED
  BY <1>1, <1>2, <1>3, <1>4, <1>5, <1>6

LEMMA SendingFacts ==
    ASSUME NEW t \in Streams, t.at = "sending"
    PROVE  t.event \in Events /\ t = Holding(t.event)
BY DEF Streams, Off, On, Holding

LEMMA TypeInit == Init => TypeOK
<1> SUFFICES ASSUME Init PROVE TypeOK
  OBVIOUS
<1>1. request \in [Requests -> Handlers]
  BY DEF Init, Handlers, Steps, Early
<1>2. \A r \in Requests : request[r].i \in DOMAIN Payloads[r]
  BY PayloadFacts DEF Init
<1>3. stream \in [Subscribers -> Streams]
  BY DEF Init, Streams
<1> QED
  BY <1>1, <1>2, <1>3 DEF Init, TypeOK

LEMMA TypeStep == TypeOK /\ [Next]_vars => TypeOK'
<1> SUFFICES ASSUME TypeOK, [Next]_vars PROVE TypeOK'
  OBVIOUS
<1>1. CASE UNCHANGED vars
  BY <1>1 DEF vars, TypeOK
<1>2. CASE Next
  <2>1. DLQBuffer' \in Seq(Events)
    <3>1. ASSUME NEW r \in Requests, Reroute(r) PROVE DLQBuffer' \in Seq(Events)
      <4>1. Append(DLQBuffer, Current(r)) \in Seq(Events)
        BY CurrentFacts, AppendFacts DEF TypeOK
      <4>2. DLQBuffer' = Append(DLQBuffer, Current(r)) \/ DLQBuffer' = DLQBuffer
        BY <3>1 DEF Reroute
      <4> QED
        BY <4>1, <4>2, ZenonT(30) DEF TypeOK
    <3>2. CASE DLQWrite
      BY <3>2, TailFacts DEF DLQWrite, TypeOK
    <3>3. CASE UNCHANGED DLQBuffer
      BY <3>3 DEF TypeOK
    <3>4. \/ UNCHANGED DLQBuffer \/ DLQWrite
          \/ \E r \in Requests : Reroute(r)
      BY <1>2, ZenonT(30)
      DEF Next, Handle, deadLetter, Accept, Qualify, Prepare, AppendRows, SendCdm, SendLogs,
          Reply, Subscribe, Receive, Send, StreamEnds, DLQStop, Signal, HttpShutdown,
          GracefulStop, Exit
    <3> QED
      BY <3>1, <3>2, <3>3, <3>4
  <2>2. qualifiedEventCh' \in Seq(Events) /\ qualified' \in Seq(Events)
    <3>1. ASSUME NEW r \in Requests, Qualify(r)
          PROVE  qualifiedEventCh' \in Seq(Events) /\ qualified' \in Seq(Events)
      <4>1. /\ Append(qualified, Current(r)) \in Seq(Events)
            /\ Append(qualifiedEventCh, Current(r)) \in Seq(Events)
        BY CurrentFacts, AppendFacts DEF TypeOK
      <4>2. /\ qualified' = Append(qualified, Current(r))
            /\ \/ qualifiedEventCh' = Append(qualifiedEventCh, Current(r))
               \/ qualifiedEventCh' = qualifiedEventCh
        BY <3>1 DEF Qualify
      <4> QED
        BY <4>1, <4>2, ZenonT(30) DEF TypeOK
    <3>2. ASSUME NEW s \in Subscribers, Receive(s)
          PROVE  qualifiedEventCh' \in Seq(Events) /\ qualified' \in Seq(Events)
      BY <3>2, TailFacts DEF Receive, TypeOK, history
    <3>3. CASE UNCHANGED <<qualifiedEventCh, qualified>>
      BY <3>3 DEF TypeOK
    <3>4. \/ UNCHANGED <<qualifiedEventCh, qualified>>
          \/ \E r \in Requests : Qualify(r)
          \/ \E s \in Subscribers : Receive(s)
      BY <1>2, ZenonT(30)
      DEF Next, Handle, triage, history, Accept, Prepare, AppendRows, SendCdm, SendLogs,
          Reroute, Reply, Subscribe, Send, StreamEnds, DLQWrite, DLQStop, Signal,
          HttpShutdown, GracefulStop, Exit
    <3> QED
      BY <3>1, <3>2, <3>3, <3>4
  <2>3. stream' \in [Subscribers -> Streams] /\ delivered' \in [Subscribers -> Seq(Events)]
    <3>1. ASSUME NEW s \in Subscribers, Receive(s)
          PROVE  stream' \in [Subscribers -> Streams] /\ delivered' = delivered
      BY <3>1, TailFacts DEF Receive, TypeOK, Streams, Holding
    <3>2. ASSUME NEW s \in Subscribers, Send(s)
          PROVE  stream' \in [Subscribers -> Streams] /\ delivered' \in [Subscribers -> Seq(Events)]
      <4>1. stream[s].event \in Events
        BY <3>2, SendingFacts DEF Send, TypeOK
      <4>2. Append(delivered[s], stream[s].event) \in Seq(Events)
        BY <4>1, AppendFacts DEF TypeOK
      <4>3. On \in Streams /\ Off \in Streams
        BY DEF Streams
      <4>4. CASE /\ delivered' = [delivered EXCEPT ![s] = Append(@, stream[s].event)]
                 /\ stream' = [stream EXCEPT ![s] = On]
        BY <4>2, <4>3, <4>4 DEF TypeOK
      <4>5. CASE stream' = [stream EXCEPT ![s] = Off] /\ UNCHANGED delivered
        BY <4>3, <4>5 DEF TypeOK
      <4> QED
        BY <3>2, <4>4, <4>5 DEF Send
    <3>3. ASSUME NEW s \in Subscribers, Subscribe(s) \/ StreamEnds(s)
          PROVE  stream' \in [Subscribers -> Streams] /\ delivered' = delivered
      BY <3>3 DEF Subscribe, StreamEnds, TypeOK, Streams
    <3>4. CASE UNCHANGED <<stream, delivered>>
      BY <3>4 DEF TypeOK
    <3>5. \/ UNCHANGED <<stream, delivered>>
          \/ \E s \in Subscribers : Subscribe(s) \/ Receive(s) \/ Send(s) \/ StreamEnds(s)
      BY <1>2, ZenonT(30)
      DEF Next, Handle, triage, Accept, Qualify, Prepare, AppendRows, SendCdm, SendLogs,
          Reroute, Reply, DLQWrite, DLQStop, Signal, HttpShutdown, GracefulStop, Exit
    <3> QED
      BY <3>1, <3>2, <3>3, <3>4, <3>5 DEF TypeOK
  <2> QED
    BY <1>2, <2>1, <2>2, <2>3, RequestStep DEF TypeOK
<1> QED
  BY <1>1, <1>2

-----------------------------------------------------------------------------
(* Storage.                                                                  *)

\* What is kept stays kept: DLQBuffer is emptied only into the bbolt file or
\* into the drops that are logged.
LEMMA KeptStays ==
    ASSUME TypeOK, Next, NEW e, Kept(e)
    PROVE  Kept(e)'
<1>1. ASSUME NEW r \in Requests, SendLogs(r) PROVE Kept(e)'
  BY <1>1 DEF SendLogs, Kept, deadLetter, history
<1>2. ASSUME NEW r \in Requests, Reroute(r) PROVE Kept(e)'
  <2>1. Range(DLQBuffer) \subseteq Range(DLQBuffer') /\ shed \subseteq shed'
    <3>1. Range(Append(DLQBuffer, Current(r))) = Range(DLQBuffer) \cup {Current(r)}
      BY CurrentFacts, AppendFacts DEF TypeOK
    <3> QED
      BY <1>2, <3>1, ZenonT(30) DEF Reroute
  <2>2. UNCHANGED <<logs, wal>>
    BY <1>2 DEF Reroute, storage
  <2> QED
    BY <2>1, <2>2 DEF Kept
<1>3. CASE DLQWrite
  <2>1. Range(DLQBuffer) = {Head(DLQBuffer)} \cup Range(DLQBuffer')
    BY <1>3, TailFacts DEF DLQWrite, TypeOK
  <2>2. /\ wal \subseteq wal' /\ shed \subseteq shed' /\ UNCHANGED logs
        /\ \/ Head(DLQBuffer) \in wal'
           \/ [event |-> Head(DLQBuffer), from |-> "wal"] \in shed'
    BY <1>3 DEF DLQWrite, storage
  <2>3. CASE e = Head(DLQBuffer)
    BY <2>2, <2>3 DEF Kept
  <2>4. CASE e # Head(DLQBuffer)
    BY <2>1, <2>2, <2>4 DEF Kept
  <2> QED
    BY <2>3, <2>4
<1>4. CASE UNCHANGED <<logs, DLQBuffer, wal>> /\ shed \subseteq shed'
  BY <1>4 DEF Kept
<1>5. \/ UNCHANGED <<logs, DLQBuffer, wal>> /\ shed \subseteq shed'
      \/ DLQWrite
      \/ \E r \in Requests : SendLogs(r) \/ Reroute(r)
  BY ZenonT(30) DEF Next, Handle, storage, deadLetter, history, Accept, Qualify, Prepare, AppendRows,
         SendCdm, Reply, Subscribe, Receive, Send, StreamEnds, DLQStop, Signal,
         HttpShutdown, GracefulStop, Exit
<1> QED
  BY <1>1, <1>2, <1>3, <1>4, <1>5

\* A step of one push leaves the storage facts of the others alone.
LEMMA OtherPush ==
    ASSUME StorageInv, Next, NEW q \in Requests, request'[q] = request[q],
           cdm_events' \cap Range(Payloads[q]) \subseteq cdm_events
    PROVE  /\ Batches(q)' /\ Rerouted(q)'
           /\ request'[q].at \in {"reply", "done"} => \A e \in request'[q].rows : Kept(e)'
           /\ cdm_events' \cap Range(Payloads[q]) \subseteq request'[q].rows
<1>1. Batches(q)'
  BY DEF StorageInv, Batches
<1>2. Rerouted(q)'
  BY KeptStays DEF StorageInv, Rerouted
<1>3. request'[q].at \in {"reply", "done"} => \A e \in request'[q].rows : Kept(e)'
  BY KeptStays DEF StorageInv, AppendedRowsKept
<1>4. cdm_events' \cap Range(Payloads[q]) \subseteq request'[q].rows
  BY DEF StorageInv, CdmHasLogRow
<1> QED
  BY <1>1, <1>2, <1>3, <1>4

LEMMA StorageStep ==
    ASSUME StorageInv, Next, NEW r \in Requests, Accept(r) \/ Handle(r)
    PROVE  /\ Batches(r)' /\ Rerouted(r)'
           /\ request'[r].at \in {"reply", "done"} => \A e \in request'[r].rows : Kept(e)'
           /\ cdm_events' \cap Range(Payloads[r]) \subseteq request'[r].rows
           /\ \A q \in Requests \ {r} :
                /\ request'[q] = request[q]
                /\ cdm_events' \cap Range(Payloads[q]) \subseteq cdm_events
<1>0. /\ TypeOK /\ Batches(r) /\ Rerouted(r)
      /\ request[r].at \in {"reply", "done"} => \A e \in request[r].rows : Kept(e)
      /\ cdm_events \cap Range(Payloads[r]) \subseteq request[r].rows
  BY DEF StorageInv, AppendedRowsKept, CdmHasLogRow
<1>1. CASE Accept(r)
  <2>1. Goto(r, "qualify") /\ request[r].at = "new" /\ UNCHANGED cdm_events
    BY <1>1 DEF Accept, storage
  <2>2. /\ request'[r].at = "qualify" /\ request'[r].rows = request[r].rows
        /\ request'[r].cdm_rows = request[r].cdm_rows
        /\ \A q \in Requests \ {r} : request'[q] = request[q]
    BY <1>0, <2>1, GotoFacts DEF Steps, Early
  <2> QED
    BY <1>0, <2>1, <2>2 DEF Batches, Rerouted, Early
<1>2. CASE Qualify(r)
  <2> DEFINE after == IF dbManager THEN "prepare" ELSE "reply"
  <2>1. Loop(r, after) /\ request[r].at = "qualify" /\ UNCHANGED cdm_events
    BY <1>2 DEF Qualify, storage
  <2>2. after \in {"prepare", "reply"} /\ after \in Steps
    BY DEF Steps, Early
  <2> HIDE DEF after
  <2>3. /\ request'[r].at \in {"qualify", "prepare", "reply"}
        /\ request'[r].rows = request[r].rows /\ request'[r].cdm_rows = request[r].cdm_rows
        /\ \A q \in Requests \ {r} : request'[q] = request[q]
    BY <1>0, <2>1, <2>2, LoopFacts
  <2> QED
    BY <1>0, <2>1, <2>3 DEF Batches, Rerouted, Early
<1>3. CASE Prepare(r)
  <2>1. /\ Goto(r, "append") \/ Goto(r, "reply")
        /\ request[r].at = "prepare" /\ UNCHANGED cdm_events
    BY <1>3 DEF Prepare, storage
  <2>2. /\ request'[r].at \in {"append", "reply"} /\ request'[r].rows = request[r].rows
        /\ request'[r].cdm_rows = request[r].cdm_rows
        /\ \A q \in Requests \ {r} : request'[q] = request[q]
    BY <1>0, <2>1, GotoFacts DEF Steps, Early
  <2> QED
    BY <1>0, <2>1, <2>2 DEF Batches, Rerouted, Early
<1>4. CASE AppendRows(r)
  <2>1. request[r].at = "append" /\ UNCHANGED cdm_events
    BY <1>4 DEF AppendRows, storage
  <2>2. /\ request'[r].at = "send_cdm"
        /\ request'[r].rows \subseteq Range(Payloads[r])
        /\ request'[r].cdm_rows \subseteq request'[r].rows
        /\ \A q \in Requests \ {r} : request'[q] = request[q]
    BY <1>0, <1>4, AppendRowsFacts
  <2> QED
    BY <1>0, <2>1, <2>2 DEF Batches, Rerouted, Early
<1>5. CASE SendCdm(r)
  <2>1. /\ Goto(r, "send_logs") /\ request[r].at = "send_cdm"
        /\ cdm_events' \subseteq cdm_events \cup request[r].cdm_rows
    BY <1>5 DEF SendCdm
  <2>2. /\ request'[r].at = "send_logs" /\ request'[r].rows = request[r].rows
        /\ request'[r].cdm_rows = request[r].cdm_rows
        /\ \A q \in Requests \ {r} : request'[q] = request[q]
    BY <1>0, <2>1, GotoFacts DEF Steps
  <2>3. \A q \in Requests \ {r} : request[r].cdm_rows \cap Range(Payloads[q]) = {}
    BY <1>0, PayloadFacts, ZenonT(30) DEF Batches
  <2> QED
    BY <1>0, <2>1, <2>2, <2>3 DEF Batches, Rerouted, Early
<1>6. CASE SendLogs(r)
  <2>1. /\ \/ Goto(r, "reply") /\ request[r].rows \subseteq logs'
           \/ Goto(r, "reroute")
        /\ request[r].at = "send_logs" /\ UNCHANGED cdm_events
    BY <1>6 DEF SendLogs
  <2>2. /\ \/ request'[r].at = "reply" /\ request[r].rows \subseteq logs'
           \/ request'[r].at = "reroute" /\ request'[r].i = 1
        /\ request'[r].rows = request[r].rows /\ request'[r].cdm_rows = request[r].cdm_rows
        /\ \A q \in Requests \ {r} : request'[q] = request[q]
    BY <1>0, <2>1, GotoFacts DEF Steps
  <2>3. Rerouted(r)'
    <3>1. \A j \in DOMAIN Payloads[r] : ~(j < 1)
      BY PayloadFacts
    <3> QED
      BY <2>2, <3>1 DEF Rerouted
  <2>4. request'[r].at \in {"reply", "done"} => \A e \in request'[r].rows : Kept(e)'
    BY <2>2 DEF Kept
  <2> QED
    BY <1>0, <2>1, <2>2, <2>3, <2>4 DEF Batches, Early
<1>7. CASE Reroute(r)
  <2>1. Loop(r, "reply") /\ request[r].at = "reroute" /\ UNCHANGED cdm_events
    BY <1>7 DEF Reroute, storage
  <2>2. /\ request'[r].rows = request[r].rows /\ request'[r].cdm_rows = request[r].cdm_rows
        /\ \A q \in Requests \ {r} : request'[q] = request[q]
        /\ \/ request'[r].at = "reroute" /\ request'[r].i = request[r].i + 1
           \/ request'[r].at = "reply" /\ request[r].i = Len(Payloads[r])
    BY <1>0, <2>1, LoopFacts DEF Steps
  <2>3. ASSUME NEW c, c = Current(r) PROVE Kept(c)'
    <3>1. Range(Append(DLQBuffer, Current(r))) = Range(DLQBuffer) \cup {Current(r)}
      <4>1. DLQBuffer \in Seq(Events)
        BY <1>0 DEF TypeOK
      <4>2. Current(r) \in Events
        BY <1>0, CurrentFacts
      <4> QED
        BY <4>1, <4>2, AppendRange
    <3>2. \/ Current(r) \in Range(DLQBuffer')
          \/ [event |-> Current(r), from |-> "dlq"] \in shed'
      BY <1>7, <3>1, ZenonT(30) DEF Reroute
    <3>3. \/ c \in Range(DLQBuffer')
          \/ \E d \in shed' : d.event = c /\ d.from # "triage"
      BY <2>3, <3>2
    <3> QED
      BY <3>3 DEF Kept
  <2>4. ASSUME NEW j \in DOMAIN Payloads[r], j <= request[r].i PROVE Kept(Payloads[r][j])'
    <3>1. CASE j = request[r].i
      BY <2>3, <3>1 DEF Current
    <3>2. CASE j # request[r].i
      <4>1. j < request[r].i
        BY <1>0, <2>4, <3>2, PayloadFacts, CurrentFacts
      <4>2. Kept(Payloads[r][j])
        BY <1>0, <2>1, <4>1 DEF Rerouted
      <4> QED
        BY <1>0, <4>2, KeptStays
    <3> QED
      BY <3>1, <3>2
  <2>5. Rerouted(r)'
    <3> SUFFICES ASSUME request'[r].at = "reroute",
                        NEW j \in DOMAIN Payloads[r], j < request'[r].i
                 PROVE  Kept(Payloads[r][j])'
      BY DEF Rerouted
    <3>1. j \in Nat /\ request[r].i \in Nat /\ request'[r].i = request[r].i + 1
      BY <1>0, <2>2, PayloadFacts, CurrentFacts
    <3> QED
      BY <2>4, <3>1
  <2>6. request'[r].at \in {"reply", "done"} => \A e \in request'[r].rows : Kept(e)'
    <3> SUFFICES ASSUME request'[r].at = "reply", NEW e \in request[r].rows PROVE Kept(e)'
      BY <2>2
    <3>1. PICK j \in DOMAIN Payloads[r] : e = Payloads[r][j]
      BY <1>0, PayloadFacts DEF Batches
    <3>2. j <= request[r].i
      BY <2>2, PayloadFacts
    <3> QED
      BY <2>4, <3>1, <3>2
  <2> QED
    BY <1>0, <2>1, <2>2, <2>5, <2>6 DEF Batches, Early
<1>8. CASE Reply(r)
  <2>1. Goto(r, "done") /\ request[r].at = "reply" /\ UNCHANGED cdm_events
    BY <1>8 DEF Reply, storage
  <2>2. /\ request'[r].at = "done" /\ request'[r].rows = request[r].rows
        /\ request'[r].cdm_rows = request[r].cdm_rows
        /\ \A q \in Requests \ {r} : request'[q] = request[q]
    BY <1>0, <2>1, GotoFacts DEF Steps
  <2>3. \A e \in request'[r].rows : Kept(e)'
    BY <1>0, <2>1, <2>2, KeptStays
  <2> QED
    BY <1>0, <2>1, <2>2, <2>3 DEF Batches, Rerouted, Early
<1> QED
  BY <1>1, <1>2, <1>3, <1>4, <1>5, <1>6, <1>7, <1>8, ZenonT(30) DEF Handle

LEMMA StorageInit == Init => StorageInv
<1> SUFFICES ASSUME Init PROVE StorageInv
  OBVIOUS
<1>1. \A r \in Requests : /\ request[r].at = "new" /\ request[r].rows = {}
                          /\ request[r].cdm_rows = {}
  BY DEF Init
<1>2. cdm_events = {}
  BY DEF Init
<1>3. TypeOK
  BY TypeInit
<1> QED
  BY <1>1, <1>2, <1>3 DEF StorageInv, Batches, Rerouted, AppendedRowsKept, CdmHasLogRow

LEMMA StorageNext == StorageInv /\ [Next]_vars => StorageInv'
<1> SUFFICES ASSUME StorageInv, [Next]_vars PROVE StorageInv'
  OBVIOUS
<1>1. CASE UNCHANGED vars
  <2>1. ASSUME NEW e PROVE Kept(e)' <=> Kept(e)
    BY <1>1 DEF vars, Kept
  <2>2. TypeOK'
    BY <1>1, TypeStep DEF StorageInv
  <2>3. UNCHANGED <<request, cdm_events>>
    BY <1>1 DEF vars
  <2> QED
    BY <2>1, <2>2, <2>3 DEF StorageInv, Batches, Rerouted, AppendedRowsKept, CdmHasLogRow
<1>2. CASE Next
  <2>1. TypeOK'
    BY <1>2, TypeStep DEF StorageInv
  <2>2. ASSUME NEW q \in Requests
        PROVE  /\ Batches(q)' /\ Rerouted(q)'
               /\ request'[q].at \in {"reply", "done"} => \A e \in request'[q].rows : Kept(e)'
               /\ cdm_events' \cap Range(Payloads[q]) \subseteq request'[q].rows
    <3>1. CASE \E r \in Requests : Accept(r) \/ Handle(r)
      <4>1. PICK r \in Requests : Accept(r) \/ Handle(r)
        BY <3>1
      <4>2. CASE q = r
        BY <1>2, <4>1, <4>2, StorageStep
      <4>3. CASE q # r
        <5>1. /\ request'[q] = request[q]
              /\ cdm_events' \cap Range(Payloads[q]) \subseteq cdm_events
          BY <1>2, <4>1, <4>3, StorageStep
        <5> QED
          BY <1>2, <5>1, OtherPush
      <4> QED
        BY <4>2, <4>3
    <3>2. CASE UNCHANGED <<request, cdm_events>>
      BY <1>2, <3>2, OtherPush
    <3>3. \/ UNCHANGED <<request, cdm_events>>
          \/ \E r \in Requests : Accept(r) \/ Handle(r)
      BY <1>2, ZenonT(30)
      DEF Next, storage, Subscribe, Receive, Send, StreamEnds, DLQWrite, DLQStop, Signal,
          HttpShutdown, GracefulStop, Exit
    <3> QED
      BY <3>1, <3>2, <3>3
  <2> QED
    BY <2>1, <2>2 DEF StorageInv, AppendedRowsKept, CdmHasLogRow
<1> QED
  BY <1>1, <1>2

\* The inductive invariant of the storage path: where BatchWriteLogs can have put
\* a row by now, and what the handler still owes.
THEOREM StorageInvariant == Spec => []StorageInv
BY StorageInit, StorageNext, PTL DEF Spec

\* For any number of pushes, at any capacity of DLQBuffer: when handleAgentPush
\* answers, every row BatchWriteLogs appended is in the table, in the dead-letter
\* path, or was dropped there with a message.
THEOREM PipelineKeepsRows == Spec => []AppendedRowsKept
<1>1. StorageInv => AppendedRowsKept
  BY DEF StorageInv
<1> QED
  BY <1>1, StorageInvariant, PTL

\* The two batches of BatchWriteLogs are sent apart and fail apart, but an event
\* in cdm_events always belongs to the log batch of its push.
THEOREM PipelineCdmHasLogRow == Spec => []CdmHasLogRow
<1>1. StorageInv => CdmHasLogRow
  BY DEF StorageInv
<1> QED
  BY <1>1, StorageInvariant, PTL

-----------------------------------------------------------------------------
(* The triage channel.                                                       *)

LEMMA BeforeIrreflexive == ASSUME TypeOK, OfferedOnce, NEW a PROVE ~Before(qualified, a, a)
<1>1. DOMAIN qualified \subseteq Nat
  BY DEF TypeOK
<1> QED
  BY <1>1 DEF OfferedOnce, IsInjective, Before

LEMMA BeforeStays ==
    ASSUME TypeOK, NEW c \in Events, qualified' = Append(qualified, c)
    PROVE  /\ \A a, b : Before(qualified, a, b) => Before(qualified', a, b)
           /\ \A a \in Range(qualified) : Before(qualified', a, c)
           /\ Range(qualified') = Range(qualified) \cup {c}
<1>1. /\ DOMAIN qualified = 1 .. Len(qualified) /\ Len(qualified) \in Nat
      /\ DOMAIN qualified' = 1 .. Len(qualified) + 1
      /\ \A i \in DOMAIN qualified : qualified'[i] = qualified[i]
      /\ qualified'[Len(qualified) + 1] = c
      /\ Range(qualified') = Range(qualified) \cup {c}
  BY AppendFacts DEF TypeOK
<1>2. DOMAIN qualified \subseteq DOMAIN qualified'
  BY <1>1
<1>3. ASSUME NEW a, NEW b, Before(qualified, a, b) PROVE Before(qualified', a, b)
  <2>1. PICK k, l \in DOMAIN qualified : k < l /\ qualified[k] = a /\ qualified[l] = b
    BY <1>3 DEF Before
  <2>2. k \in DOMAIN qualified' /\ l \in DOMAIN qualified' /\ qualified'[k] = a /\ qualified'[l] = b
    BY <1>1, <1>2, <2>1
  <2> QED
    BY <2>1, <2>2 DEF Before
<1>4. ASSUME NEW a \in Range(qualified) PROVE Before(qualified', a, c)
  <2>1. PICK k \in DOMAIN qualified : a = qualified[k]
    BY DEF Range
  <2>2. /\ k \in DOMAIN qualified' /\ Len(qualified) + 1 \in DOMAIN qualified'
        /\ k < Len(qualified) + 1
        /\ qualified'[k] = a /\ qualified'[Len(qualified) + 1] = c
    BY <1>1, <1>2, <2>1
  <2> QED
    BY <2>2 DEF Before
<1> QED
  BY <1>1, <1>3, <1>4

LEMMA QualifyOffers ==
    ASSUME TypeOK, OfferedOnce, NEW r \in Requests, Qualify(r) PROVE OfferedOnce'
<1> DEFINE after == IF dbManager THEN "prepare" ELSE "reply"
<1>1. /\ request[r].at = "qualify" /\ Loop(r, after)
      /\ qualified' = Append(qualified, Current(r))
  BY DEF Qualify
<1>2. after \in Steps /\ after \notin {"new", "qualify"}
  BY DEF Steps, Early
<1> HIDE DEF after
<1>3. /\ \A q \in Requests : q # r => request'[q] = request[q]
      /\ \/ request'[r].at = "qualify" /\ request'[r].i = request[r].i + 1
         \/ request'[r].at \notin {"new", "qualify"}
  BY <1>1, <1>2, LoopFacts
<1>4. /\ request[r].i \in DOMAIN Payloads[r] /\ request[r].i \in Nat
      /\ Current(r) = Payloads[r][request[r].i] /\ Current(r) \in Events
  BY CurrentFacts DEF TypeOK, Current
<1>5. Current(r) \notin Range(qualified)
  BY <1>1, <1>4 DEF OfferedOnce, ToOffer
<1>6. IsInjective(qualified')
  <2>1. /\ DOMAIN qualified = 1 .. Len(qualified) /\ Len(qualified) \in Nat
        /\ DOMAIN qualified' = 1 .. Len(qualified) + 1
        /\ \A i \in DOMAIN qualified : qualified'[i] = qualified[i]
        /\ qualified'[Len(qualified) + 1] = Current(r)
    BY <1>1, <1>4, AppendFacts DEF TypeOK
  <2>2. \A i \in DOMAIN qualified : qualified[i] # Current(r)
    BY <1>5 DEF Range
  <2>3. \A i, j \in DOMAIN qualified : qualified[i] = qualified[j] => i = j
    BY DEF OfferedOnce, IsInjective
  <2>4. ASSUME NEW i \in DOMAIN qualified', NEW j \in DOMAIN qualified',
               qualified'[i] = qualified'[j]
        PROVE  i = j
    <3>1. \A m \in DOMAIN qualified' : m \in DOMAIN qualified \/ m = Len(qualified) + 1
      BY <2>1
    <3> QED
      BY <2>1, <2>2, <2>3, <2>4, <3>1
  <2> QED
    BY <2>4 DEF IsInjective
<1>7. ASSUME NEW q \in Requests, NEW j \in ToOffer(q)'
      PROVE  Payloads[q][j] \notin Range(qualified')
  <2>1. Range(qualified') = Range(qualified) \cup {Current(r)}
    BY <1>1, <1>4, BeforeStays
  <2>2. CASE q = r
    <3>1. j \in DOMAIN Payloads[r] /\ j \in Nat /\ j >= request[r].i + 1
      BY <1>3, <1>7, <2>2, PayloadFacts DEF ToOffer
    <3>2. j \in ToOffer(r) /\ j # request[r].i
      BY <1>1, <1>4, <3>1 DEF ToOffer
    <3>3. Payloads[r][j] # Current(r)
      BY <1>4, <3>1, <3>2, PayloadFacts
    <3> QED
      BY <2>1, <2>2, <3>2, <3>3 DEF OfferedOnce
  <2>3. CASE q # r
    <3>1. j \in ToOffer(q) /\ j \in DOMAIN Payloads[q]
      BY <1>3, <1>7, <2>3 DEF ToOffer
    <3>2. Payloads[q][j] # Current(r)
      <4>1. Payloads[q][j] \in Range(Payloads[q])
        BY <3>1, PayloadFacts
      <4>2. Current(r) \in Range(Payloads[r])
        BY CurrentFacts
      <4>3. Range(Payloads[r]) \cap Range(Payloads[q]) = {}
        BY <2>3, PayloadFacts, ZenonT(30)
      <4> QED
        BY <4>1, <4>2, <4>3
    <3> QED
      BY <2>1, <3>1, <3>2 DEF OfferedOnce
  <2> QED
    BY <2>2, <2>3
<1> QED
  BY <1>6, <1>7 DEF OfferedOnce

\* The other steps of a push offer nothing.
LEMMA OthersOfferNothing ==
    ASSUME TypeOK, OfferedOnce, NEW r \in Requests, Accept(r) \/ Handle(r), ~Qualify(r)
    PROVE  OfferedOnce'
<1>1. UNCHANGED qualified
  BY ZenonT(30) DEF Accept, Handle, Prepare, AppendRows, SendCdm, SendLogs, Reroute, Reply, history
<1>2. CASE Accept(r)
  <2>1. request[r].at = "new" /\ \A q \in Requests : q # r => request'[q] = request[q]
    BY <1>2, GotoFacts DEF Accept, Steps, Early
  <2>2. \A q \in Requests : ToOffer(q)' \subseteq ToOffer(q)
    BY <2>1 DEF ToOffer
  <2> QED
    BY <1>1, <2>2 DEF OfferedOnce
<1>3. CASE ~Accept(r)
  <2>1. \/ \E at \in Steps \ {"new", "qualify"} : Goto(r, at)
        \/ request[r].at = "reroute" /\ Loop(r, "reply")
        \/ AppendRows(r)
    BY <1>3, ZenonT(30) DEF Handle, Prepare, SendCdm, SendLogs, Reroute, Reply, Steps, Early
  <2>2. /\ request'[r].at \notin {"new", "qualify"}
        /\ \A q \in Requests : q # r => request'[q] = request[q]
    <3>1. ASSUME NEW at \in Steps \ {"new", "qualify"}, Goto(r, at)
          PROVE  /\ request'[r].at \notin {"new", "qualify"}
                 /\ \A q \in Requests : q # r => request'[q] = request[q]
      BY <3>1, GotoFacts
    <3>2. CASE request[r].at = "reroute" /\ Loop(r, "reply")
      BY <3>2, LoopFacts DEF Steps
    <3>3. CASE AppendRows(r)
      BY <3>3, AppendRowsFacts
    <3> QED
      BY <2>1, <3>1, <3>2, <3>3
  <2>3. \A q \in Requests : ToOffer(q)' \subseteq ToOffer(q)
    BY <2>2 DEF ToOffer
  <2> QED
    BY <1>1, <2>3 DEF OfferedOnce
<1> QED
  BY <1>2, <1>3

\* What the streams have taken moves only with the streams.
LEMMA QualifyOrder ==
    ASSUME TriageInv, NEW r \in Requests, Qualify(r), TypeOK'
    PROVE  TriageInv'
<1> DEFINE c == Current(r)
           ch == qualifiedEventCh
<1>0. TypeOK /\ c \in Events /\ qualified' = Append(qualified, c)
  BY CurrentFacts DEF TriageInv, Qualify
<1>1. /\ \A a, b : Before(qualified, a, b) => Before(qualified', a, b)
      /\ \A a \in Range(qualified) : Before(qualified', a, c)
      /\ Range(qualified') = Range(qualified) \cup {c}
  BY <1>0, BeforeStays
<1>2. \A s \in Subscribers : Taken(s)' = Taken(s) /\ delivered'[s] = delivered[s]
                             /\ stream'[s] = stream[s]
  BY DEF Qualify, Taken
<1>3. \A s \in Subscribers : StreamOrder(s)'
  BY <1>1, <1>2 DEF TriageInv, StreamOrder
<1>4. ChannelOrder'
  <2>1. /\ Range(ch) \subseteq Range(qualified)
        /\ \A s \in Subscribers : Taken(s) \subseteq Range(qualified)
    BY DEF TriageInv, ChannelOrder, StreamOrder
  <2>2. CASE ch' = Append(ch, c)
    <3>1. /\ DOMAIN ch = 1 .. Len(ch) /\ Len(ch) \in Nat
          /\ DOMAIN ch' = 1 .. Len(ch) + 1
          /\ \A i \in DOMAIN ch : ch'[i] = ch[i]
          /\ ch'[Len(ch) + 1] = c
          /\ Range(ch') = Range(ch) \cup {c}
      BY <1>0, <2>2, AppendFacts DEF TypeOK
    <3>2. \A i \in DOMAIN ch' : i \in DOMAIN ch \/ i = Len(ch) + 1
      BY <3>1
    <3>3. \A e \in Range(ch) : Before(qualified', e, c)
      BY <1>1, <2>1
    <3>4. ASSUME NEW i \in DOMAIN ch', NEW j \in DOMAIN ch', i < j
          PROVE  Before(qualified', ch'[i], ch'[j])
      <4>1. i \in DOMAIN ch /\ ch'[i] = ch[i] /\ ch[i] \in Range(ch)
        BY <3>1, <3>2, <3>4 DEF Range
      <4>2. CASE j \in DOMAIN ch
        BY <1>1, <3>1, <3>4, <4>1, <4>2 DEF TriageInv, ChannelOrder
      <4>3. CASE j = Len(ch) + 1
        BY <3>1, <3>3, <4>1, <4>3
      <4> QED
        BY <3>2, <4>2, <4>3
    <3>5. ASSUME NEW s \in Subscribers, NEW e \in Taken(s), NEW i \in DOMAIN ch'
          PROVE  Before(qualified', e, ch'[i])
      <4>1. CASE i \in DOMAIN ch
        BY <1>1, <3>1, <4>1 DEF TriageInv, ChannelOrder
      <4>2. CASE i = Len(ch) + 1
        BY <1>1, <2>1, <3>1, <4>2
      <4> QED
        BY <3>2, <4>1, <4>2
    <3> QED
      BY <1>1, <1>2, <2>1, <3>1, <3>4, <3>5 DEF ChannelOrder
  <2>3. CASE ch' = ch
    BY <1>1, <1>2, <2>1, <2>3 DEF TriageInv, ChannelOrder
  <2> QED
    BY <2>2, <2>3 DEF Qualify
<1>5. OfferedOnce' /\ TakenOnce'
  BY <1>2, QualifyOffers DEF TriageInv, TakenOnce
<1> QED
  BY <1>3, <1>4, <1>5 DEF TriageInv

\* A step that offers nothing and leaves the channel alone: it is enough that
\* no stream takes anything new and that each is still in order.
LEMMA ChannelUntouched ==
    ASSUME TriageInv, TypeOK', OfferedOnce', UNCHANGED <<qualifiedEventCh, qualified>>,
           \A s \in Subscribers : Taken(s)' \subseteq Taken(s) /\ StreamOrder(s)'
    PROVE  TriageInv'
<1>1. ChannelOrder'
  BY DEF TriageInv, ChannelOrder
<1>2. TakenOnce'
  <2> SUFFICES ASSUME NEW s \in Subscribers, NEW u \in Subscribers, s # u
               PROVE  (Taken(s) \cap Taken(u) = {})'
    BY DEF TakenOnce
  <2>1. Taken(s) \cap Taken(u) = {}
    BY DEF TriageInv, TakenOnce
  <2> QED
    BY <2>1
<1> QED
  BY <1>1, <1>2 DEF TriageInv

\* A step that leaves the streams alone as well.
LEMMA StreamsUntouched ==
    ASSUME TriageInv, TypeOK', OfferedOnce',
           UNCHANGED <<qualifiedEventCh, qualified, stream, delivered>>
    PROVE  TriageInv'
<1>1. \A s \in Subscribers : Taken(s)' = Taken(s) /\ StreamOrder(s)'
  BY DEF TriageInv, StreamOrder, Taken
<1> QED
  BY <1>1, ChannelUntouched

LEMMA ReceiveOrder ==
    ASSUME TriageInv, NEW s \in Subscribers, Receive(s), TypeOK'
    PROVE  TriageInv'
<1> DEFINE ch == qualifiedEventCh
           e == Head(ch)
<1>0. /\ TypeOK /\ ch # <<>> /\ stream[s] = On
      /\ stream' = [stream EXCEPT ![s] = Holding(e)]
      /\ ch' = Tail(ch) /\ UNCHANGED <<request, delivered, qualified>>
  BY DEF TriageInv, Receive, history
<1>1. /\ e \in Events /\ e = ch[1] /\ 1 \in DOMAIN ch /\ DOMAIN ch' \subseteq Nat \ {0}
      /\ \A i \in DOMAIN ch' : i + 1 \in DOMAIN ch /\ ch'[i] = ch[i + 1]
      /\ Range(ch) = {e} \cup Range(ch')
  BY <1>0, TailFacts DEF TypeOK
<1>2. /\ Taken(s) = Range(delivered[s]) /\ Taken(s)' = Range(delivered[s]) \cup {e}
      /\ stream'[s].at = "sending" /\ stream'[s].event = e
  <2>1. stream'[s] = Holding(e)
    BY <1>0 DEF TypeOK
  <2> QED
    BY <1>0, <1>1, <2>1 DEF Taken, On, Holding
<1>3. \A u \in Subscribers \ {s} : stream'[u] = stream[u] /\ Taken(u)' = Taken(u)
  BY <1>0 DEF TypeOK, Taken
<1>4. \A u \in Subscribers : \A a \in Taken(u) : Before(qualified, a, e)
  BY <1>1 DEF TriageInv, ChannelOrder
<1>5. OfferedOnce'
  BY <1>0 DEF TriageInv, OfferedOnce, ToOffer
<1>6. ChannelOrder'
  <2>1. Range(ch') \subseteq Range(qualified')
    BY <1>0, <1>1 DEF TriageInv, ChannelOrder
  <2>2. ASSUME NEW i \in DOMAIN ch', NEW j \in DOMAIN ch', i < j
        PROVE  Before(qualified', ch'[i], ch'[j])
    <3>1. i + 1 < j + 1 /\ ch'[i] = ch[i + 1] /\ ch'[j] = ch[j + 1]
      BY <1>1, <2>2
    <3> QED
      BY <1>0, <1>1, <3>1 DEF TriageInv, ChannelOrder
  <2>3. ASSUME NEW u \in Subscribers, NEW a \in Taken(u)', NEW i \in DOMAIN ch'
        PROVE  Before(qualified', a, ch'[i])
    <3>1. i + 1 \in DOMAIN ch /\ ch'[i] = ch[i + 1] /\ 1 < i + 1
      BY <1>1
    <3>2. CASE a = e
      BY <1>0, <1>1, <3>1, <3>2 DEF TriageInv, ChannelOrder
    <3>3. CASE a # e
      <4>1. a \in Taken(u)
        BY <1>2, <1>3, <2>3, <3>3
      <4> QED
        BY <1>0, <3>1, <4>1 DEF TriageInv, ChannelOrder
    <3> QED
      BY <3>2, <3>3
  <2> QED
    BY <2>1, <2>2, <2>3 DEF ChannelOrder
<1>7. ASSUME NEW u \in Subscribers PROVE StreamOrder(u)'
  <2>1. StreamOrder(u) /\ delivered'[u] = delivered[u] /\ qualified' = qualified
    BY <1>0 DEF TriageInv
  <2>2. CASE u = s
    <3>1. e \in Range(qualified)
      BY <1>1 DEF TriageInv, ChannelOrder
    <3>2. \A i \in DOMAIN delivered[s] : delivered[s][i] \in Taken(s)
      BY <1>2 DEF Range
    <3>3. Taken(s)' \subseteq Range(qualified')
      BY <1>2, <2>1, <2>2, <3>1 DEF StreamOrder
    <3>4. \A i \in DOMAIN delivered'[s] : Before(qualified', delivered'[s][i], stream'[s].event)
      BY <1>2, <1>4, <2>1, <2>2, <3>2
    <3> QED
      BY <2>1, <2>2, <3>3, <3>4 DEF StreamOrder
  <2>3. CASE u # s
    BY <1>3, <2>1, <2>3 DEF StreamOrder
  <2> QED
    BY <2>2, <2>3
<1>8. TakenOnce'
  <2>1. \A u \in Subscribers : e \notin Taken(u)
    BY <1>0, <1>4, BeforeIrreflexive DEF TriageInv
  <2>2. ASSUME NEW u \in Subscribers, u # s
        PROVE  Taken(s)' \cap Taken(u)' = {}
    <3>1. Taken(s) \cap Taken(u) = {}
      BY <2>2 DEF TriageInv, TakenOnce
    <3> QED
      BY <1>2, <1>3, <2>1, <2>2, <3>1
  <2>3. ASSUME NEW u \in Subscribers, NEW w \in Subscribers, u # w, u # s, w # s
        PROVE  Taken(u)' \cap Taken(w)' = {}
    BY <1>3, <2>3 DEF TriageInv, TakenOnce
  <2>4. ASSUME NEW u \in Subscribers, NEW w \in Subscribers, u # w
        PROVE  Taken(u)' \cap Taken(w)' = {}
    <3>1. CASE u = s
      BY <2>2, <2>4, <3>1
    <3>2. CASE w = s
      BY <2>2, <2>4, <3>2
    <3>3. CASE u # s /\ w # s
      BY <2>3, <2>4, <3>3
    <3> QED
      BY <3>1, <3>2, <3>3
  <2> QED
    BY <2>4 DEF TakenOnce
<1> QED
  BY <1>5, <1>6, <1>7, <1>8 DEF TriageInv

LEMMA SendOrder ==
    ASSUME TriageInv, NEW s \in Subscribers, Send(s), TypeOK'
    PROVE  TriageInv'
<1> DEFINE e == stream[s].event
<1>0. /\ TypeOK /\ stream[s].at = "sending" /\ e \in Events
      /\ UNCHANGED <<request, qualifiedEventCh, qualified>>
      /\ \/ /\ delivered' = [delivered EXCEPT ![s] = Append(@, e)]
            /\ stream' = [stream EXCEPT ![s] = On]
         \/ stream' = [stream EXCEPT ![s] = Off] /\ UNCHANGED delivered
  BY SendingFacts DEF TriageInv, TypeOK, Send, history
<1>1. stream'[s].at # "sending"
  BY <1>0 DEF TypeOK, On, Off
<1>2. \A u \in Subscribers \ {s} :
        stream'[u] = stream[u] /\ delivered'[u] = delivered[u] /\ Taken(u)' = Taken(u)
  BY <1>0 DEF TypeOK, Taken
<1>3. Taken(s)' = Range(delivered'[s]) /\ Taken(s) = Range(delivered[s]) \cup {e}
  BY <1>0, <1>1 DEF Taken
<1>4. Taken(s)' \subseteq Taken(s) /\ StreamOrder(s)'
  <2>1. StreamOrder(s) /\ qualified' = qualified
    BY <1>0 DEF TriageInv
  <2>2. CASE delivered' = [delivered EXCEPT ![s] = Append(@, e)]
    <3>1. delivered[s] \in Seq(Events) /\ delivered'[s] = Append(delivered[s], e)
      BY <1>0, <2>2 DEF TypeOK
    <3>2. /\ DOMAIN delivered[s] = 1 .. Len(delivered[s]) /\ Len(delivered[s]) \in Nat
          /\ DOMAIN delivered'[s] = 1 .. Len(delivered[s]) + 1
          /\ \A i \in DOMAIN delivered[s] : delivered'[s][i] = delivered[s][i]
          /\ delivered'[s][Len(delivered[s]) + 1] = e
          /\ Range(delivered'[s]) = Range(delivered[s]) \cup {e}
      <4>1. e \in Events
        BY <1>0
      <4> QED
        BY <3>1, <4>1, AppendFacts
    <3>3. ASSUME NEW i \in DOMAIN delivered'[s], NEW j \in DOMAIN delivered'[s], i < j
          PROVE  Before(qualified', delivered'[s][i], delivered'[s][j])
      <4>1. i \in DOMAIN delivered[s] /\ (j \in DOMAIN delivered[s] \/ j = Len(delivered[s]) + 1)
        BY <3>2, <3>3
      <4> QED
        BY <1>0, <2>1, <3>2, <3>3, <4>1 DEF StreamOrder
    <3> QED
      BY <1>1, <1>3, <2>1, <3>2, <3>3 DEF StreamOrder
  <2>3. CASE UNCHANGED delivered
    BY <1>1, <1>3, <2>1, <2>3 DEF StreamOrder
  <2> QED
    BY <1>0, <2>2, <2>3
<1>5. \A u \in Subscribers : Taken(u)' \subseteq Taken(u) /\ StreamOrder(u)'
  BY <1>0, <1>2, <1>4, ZenonT(30) DEF TriageInv, StreamOrder
<1>6. OfferedOnce'
  BY <1>0, ZenonT(30) DEF TriageInv, OfferedOnce, ToOffer
<1> QED
  BY <1>0, <1>5, <1>6, ChannelUntouched

LEMMA OpenCloseOrder ==
    ASSUME TriageInv, NEW s \in Subscribers, Subscribe(s) \/ StreamEnds(s), TypeOK'
    PROVE  TriageInv'
<1>1. /\ TypeOK /\ stream[s].at # "sending"
      /\ stream' = [stream EXCEPT ![s] = On] \/ stream' = [stream EXCEPT ![s] = Off]
      /\ UNCHANGED <<request, delivered, qualifiedEventCh, qualified>>
  BY DEF TriageInv, Subscribe, StreamEnds, history, On, Off
<1>2. stream'[s].at # "sending" /\ \A u \in Subscribers \ {s} : stream'[u] = stream[u]
  BY <1>1 DEF TypeOK, On, Off
<1>3. ASSUME NEW u \in Subscribers PROVE Taken(u)' = Taken(u) /\ StreamOrder(u)'
  <2>1. \/ stream'[u] = stream[u]
        \/ stream[u].at # "sending" /\ stream'[u].at # "sending"
    <3>1. CASE u = s
      BY <1>1, <1>2, <3>1
    <3>2. CASE u # s
      BY <1>2, <3>2
    <3> QED
      BY <3>1, <3>2
  <2>2. Taken(u)' = Taken(u)
    BY <1>1, <2>1 DEF Taken
  <2> QED
    BY <1>1, <2>1, <2>2 DEF TriageInv, StreamOrder
<1>4. OfferedOnce'
  BY <1>1 DEF TriageInv, OfferedOnce, ToOffer
<1> QED
  BY <1>1, <1>3, <1>4, ChannelUntouched

LEMMA TriageInit == Init => TriageInv
<1> SUFFICES ASSUME Init PROVE TriageInv
  OBVIOUS
<1>1. TypeOK /\ qualified = <<>> /\ qualifiedEventCh = <<>>
  BY TypeInit DEF Init
<1>2. \A s \in Subscribers : Taken(s) = {} /\ delivered[s] = <<>> /\ stream[s].at # "sending"
  BY DEF Init, Taken, Off, Range
<1>3. OfferedOnce
  BY <1>1 DEF OfferedOnce, IsInjective, Range
<1>4. ChannelOrder /\ TakenOnce
  BY <1>1, <1>2 DEF ChannelOrder, TakenOnce, Range
<1>5. \A s \in Subscribers : StreamOrder(s)
  BY <1>2 DEF StreamOrder
<1> QED
  BY <1>1, <1>3, <1>4, <1>5 DEF TriageInv

LEMMA TriageNext == TriageInv /\ [Next]_vars => TriageInv'
<1> SUFFICES ASSUME TriageInv, [Next]_vars PROVE TriageInv'
  OBVIOUS
<1>0. TypeOK /\ TypeOK'
  BY TypeStep DEF TriageInv
<1>1. CASE UNCHANGED <<request, qualifiedEventCh, qualified, stream, delivered>>
  <2>1. OfferedOnce'
    BY <1>1 DEF TriageInv, OfferedOnce, ToOffer
  <2> QED
    BY <1>0, <1>1, <2>1, StreamsUntouched
<1>2. ASSUME NEW r \in Requests, Qualify(r) PROVE TriageInv'
  BY <1>0, <1>2, QualifyOrder
<1>3. ASSUME NEW r \in Requests, Accept(r) \/ Handle(r), ~Qualify(r) PROVE TriageInv'
  <2>1. OfferedOnce'
    BY <1>0, <1>3, OthersOfferNothing DEF TriageInv
  <2>2. UNCHANGED <<qualifiedEventCh, qualified, stream, delivered>>
    BY <1>3, ZenonT(30)
    DEF Accept, Handle, Prepare, AppendRows, SendCdm, SendLogs, Reroute, Reply, triage, history
  <2> QED
    BY <1>0, <2>1, <2>2, StreamsUntouched
<1>4. ASSUME NEW s \in Subscribers, Subscribe(s) \/ Receive(s) \/ Send(s) \/ StreamEnds(s)
      PROVE  TriageInv'
  BY <1>0, <1>4, ReceiveOrder, SendOrder, OpenCloseOrder
<1>5. CASE DLQWrite \/ DLQStop \/ Signal \/ HttpShutdown \/ GracefulStop \/ Exit
  <2>1. UNCHANGED <<request, qualifiedEventCh, qualified, stream, delivered>>
    BY <1>5, ZenonT(30)
    DEF DLQWrite, DLQStop, Signal, HttpShutdown, GracefulStop, Exit, triage, history
  <2> QED
    BY <1>1, <2>1
<1>6. CASE UNCHANGED vars
  BY <1>1, <1>6 DEF vars
<1> QED
  BY <1>2, <1>3, <1>4, <1>5, <1>6 DEF Next

\* The inductive invariant of the delivery path: every event that was offered is in
\* one place, and every place holds events in the order of their offers.
THEOREM TriageInvariant == Spec => []TriageInv
BY TriageInit, TriageNext, PTL DEF Spec

-----------------------------------------------------------------------------
LEMMA OnePlace == ASSUME TriageInv, NEW e \in Events PROVE \A p, q \in Places(e) : p = q
<1>0. DOMAIN qualifiedEventCh \subseteq Nat /\ \A s \in Subscribers : DOMAIN delivered[s] \subseteq Nat
  BY DEF TriageInv, TypeOK
<1>1. ~Before(qualified, e, e)
  BY BeforeIrreflexive DEF TriageInv
<1>2. ASSUME NEW s \in Subscribers, stream[s] = Holding(e)
      PROVE  e \in Taken(s) /\ stream[s].at = "sending" /\ stream[s].event = e
  BY <1>2 DEF Taken, Holding
<1>3. \A s \in Subscribers : \A i \in DOMAIN delivered[s] :
        delivered[s][i] = e => e \in Taken(s)
  BY DEF Taken, Range
\* One entry of the channel, and then no stream has it.
<1>4. \A i, j \in DOMAIN qualifiedEventCh :
        qualifiedEventCh[i] = e /\ qualifiedEventCh[j] = e => i = j
  BY <1>0, <1>1 DEF TriageInv, ChannelOrder
<1>5. \A i \in DOMAIN qualifiedEventCh : qualifiedEventCh[i] = e =>
        \A s \in Subscribers : e \notin Taken(s)
  BY <1>1 DEF TriageInv, ChannelOrder
\* One stream, and there one place.
<1>6. \A s, u \in Subscribers : e \in Taken(s) /\ e \in Taken(u) => s = u
  BY DEF TriageInv, TakenOnce
<1>7. \A s \in Subscribers : \A i, j \in DOMAIN delivered[s] :
        delivered[s][i] = e /\ delivered[s][j] = e => i = j
  BY <1>0, <1>1 DEF TriageInv, StreamOrder
<1>8. \A s \in Subscribers : stream[s] = Holding(e) =>
        \A i \in DOMAIN delivered[s] : delivered[s][i] # e
  BY <1>1, <1>2 DEF TriageInv, StreamOrder
<1> DEFINE inChannel(p) == \E i \in DOMAIN qualifiedEventCh :
                              qualifiedEventCh[i] = e /\ p = <<"channel", i>>
           sending(p) == \E s \in Subscribers : stream[s] = Holding(e) /\ p = <<"sending", s>>
           done(p) == \E s \in Subscribers : \E i \in DOMAIN delivered[s] :
                         delivered[s][i] = e /\ p = <<s, i>>
<1>9. \A p \in Places(e) : inChannel(p) \/ sending(p) \/ done(p)
  BY DEF Places
<1>10. ASSUME NEW p \in Places(e), NEW q \in Places(e) PROVE p = q
  <2>1. CASE inChannel(p) /\ inChannel(q)
    BY <1>4, <2>1
  <2>2. CASE sending(p) /\ sending(q)
    BY <1>2, <1>6, <2>2
  <2>3. CASE done(p) /\ done(q)
    BY <1>3, <1>6, <1>7, <2>3
  <2>4. ASSUME NEW a, NEW b, inChannel(a), sending(b) \/ done(b) PROVE FALSE
    BY <1>2, <1>3, <1>5, <2>4
  <2>5. ASSUME NEW a, NEW b, sending(a), done(b) PROVE FALSE
    BY <1>2, <1>3, <1>6, <1>8, <2>5
  <2> HIDE DEF inChannel, sending, done
  <2> QED
    BY <1>9, <2>1, <2>2, <2>3, <2>4, <2>5
<1> QED
  BY <1>10

\* For any number of pushes and streams, at any capacity: an event of the triage
\* channel is in one place, so SubscribeToQualifiedEvents delivers it to at most
\* one stream and at most once; and every stream delivers in the order in which
\* handleAgentPush offered.
THEOREM PipelineDelivery == Spec => []DeliveredOnceInOrder
<1>1. TriageInv => DeliveredOnceInOrder
  BY OnePlace DEF TriageInv, StreamOrder, Before, DeliveredOnceInOrder
<1> QED
  BY <1>1, TriageInvariant, PTL
=============================================================================
