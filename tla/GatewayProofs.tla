---------------------------- MODULE GatewayProofs ----------------------------
(***************************************************************************)
(* Theorems about Gateway, for every number of connections, keys, values   *)
(* and signals, and every backlog.                                         *)
(***************************************************************************)
EXTENDS Gateway, TLAPS, SequenceTheorems, FiniteSetTheorems

-----------------------------------------------------------------------------
(* The shape of a state: who is queued, who is served, what was read. *)

Serving == {"header", "key", "value", "dispatch", "send", "metric", "log", "close"}

\* A connection is waiting, being served, or neither; never in two places.
QueueInv ==
  /\ pc \in Serving <=> current # Nobody
  /\ current # Nobody => request[current] # NotYet
  /\ \A i \in 1..Len(backlog) : request[backlog[i]] # NotYet /\ backlog[i] # current
  /\ \A i, j \in 1..Len(backlog) : backlog[i] = backlog[j] => i = j
  /\ \A c \in Connections :
       /\ peer[c] = "new" => request[c] = NotYet
       /\ peer[c] \in {"open", "answered", "dead"} => request[c] # NotYet

\* What was read of the current request, and what a request given to the
\* backend looks like.
RequestInv ==
  /\ \A c \in Connections :
       sent[c] <= (IF request[c] = NotYet THEN 0 ELSE Chunks(request[c]))
  /\ pc \in {"key", "value", "dispatch"} => request[current].op # "MALFORMED"
  /\ pc \in {"send", "metric", "log"} /\ parsed => request[current].op # "MALFORMED"
  /\ pc = "value" => Chunks(request[current]) = 3
  /\ pc = "dispatch" => sent[current] = Chunks(request[current])
  /\ \A c \in Connections :
       executed[c] # NotYet =>
         /\ request[c] # NotYet
         /\ request[c].op # "MALFORMED"
         /\ sent[c] = Chunks(request[c])

ShapeInv == TypeOK /\ QueueInv /\ RequestInv

\* The result of a request on a store (gateway.c dispatch).
LEMMA AnswerType ==
  ASSUME NEW st \in [Keys -> Values \union {NoValue}],
         NEW r \in Requests, r.op # "MALFORMED"
  PROVE  /\ KV!AnswerTo(st, r) \in Responses
         /\ KV!StoreAfter(st, r) \in [Keys -> Values \union {NoValue}]
<1>1. CASE r.op = "PUT"
  <2>1. r.key \in Keys /\ r.value \in Values
    BY <1>1 DEF Requests, KV!Request
  <2> QED
    BY <1>1, <2>1 DEF KV!AnswerTo, KV!StoreAfter, KV!Answer, Responses, Statuses
<1>2. CASE r.op = "GET"
  <2>1. r.key \in Keys
    BY <1>2 DEF Requests, KV!Request
  <2> QED
    BY <1>2, <2>1 DEF KV!AnswerTo, KV!StoreAfter, KV!Answer, KV!Found, Responses, Statuses
<1>3. CASE r.op = "DELETE"
  <2>1. r.key \in Keys
    BY <1>3 DEF Requests, KV!Request
  <2> QED
    BY <1>3, <2>1 DEF KV!AnswerTo, KV!StoreAfter, KV!Answer, KV!Found, Responses, Statuses
<1> QED
  BY <1>1, <1>2, <1>3 DEF Requests, KV!Request

\* A request has two or three chunks (protocol.c c3m_send_request).
LEMMA ChunksType == \A r \in Requests : Chunks(r) \in {2, 3}
BY DEF Chunks

\* The response serve starts with is a response.
LEMMA BlankType == BlankResponse \in Responses
BY DEF BlankResponse, KV!Answer, Responses, Statuses

\* A gateway that has not started has the shape.
LEMMA ShapeInit == Init => ShapeInv
<1> SUFFICES ASSUME Init PROVE ShapeInv
  OBVIOUS
<1>1. TypeOK
  <2>1. /\ backlog \in Seq(Connections)
        /\ telemetry \in Seq(Event)
    BY EmptySeq DEF Init
  <2>2. /\ response \in Responses
        /\ signals \in 0..MaxSignals
        /\ metrics \in [count : Nat, capacity : Nat, errors : Nat, allocation_failed : BOOLEAN]
        /\ current \in Connections \union {Nobody}
    BY BlankType, MaxSignalsAssumption DEF Init
  <2>3. /\ store \in [Keys -> Values \union {NoValue}]
        /\ summary \in [requests : Nat, errors : Nat] \union {NoSummary}
        /\ hungup \subseteq Connections
        /\ peer \in [Connections -> {"new", "open", "answered", "failed", "dead"}]
        /\ request \in [Connections -> Requests \union {NotYet}]
        /\ sent \in [Connections -> 0..3]
        /\ received \in [Connections -> Responses \union {NotYet}]
        /\ executed \in [Connections -> Responses \union {NotYet}]
    BY DEF Init
  <2>4. /\ pc = "boot" /\ stopping = FALSE /\ handler = FALSE
        /\ unseen = FALSE /\ parsed = FALSE
    BY DEF Init
  <2> QED
    BY <2>1, <2>2, <2>3, <2>4 DEF TypeOK
<1>2. QueueInv
  BY EmptySeq DEF Init, QueueInv, Serving
<1>3. RequestInv
  BY DEF Init, RequestInv
<1> QED
  BY <1>1, <1>2, <1>3 DEF ShapeInv
\* The answer dispatch builds is a response (gateway.c dispatch).
LEMMA DispatchType ==
  ASSUME store \in [Keys -> Values \union {NoValue}], response \in Responses,
         request[current] \in Requests, request[current].op # "MALFORMED", Dispatch
  PROVE  response' \in Responses /\ store' \in [Keys -> Values \union {NoValue}]
<1>1. KV!Answer("BACKEND_ERROR", NoValue) \in Responses
  BY DEF KV!Answer, Responses, Statuses
<1>2. \A a \in Responses : Answered(a) \in Responses
  BY DEF Answered, Responses
<1> QED
  BY <1>1, <1>2, AnswerType DEF Dispatch

\* struct request_metrics.
Metrics == [count : Nat, capacity : Nat, errors : Nat, allocation_failed : BOOLEAN]

\* Counting a request counts it once, and once more as an error unless it
\* succeeded (gateway.c record_metric).
LEMMA CountedType ==
  ASSUME NEW m \in Metrics, NEW status
  PROVE  /\ Counted(m, status) \in Metrics
         /\ Counted(m, status).count = m.count + 1
         /\ Counted(m, status).errors = m.errors + (IF status = "OK" THEN 0 ELSE 1)
         /\ Counted(m, status).allocation_failed = m.allocation_failed
         /\ [WithError(m, status) EXCEPT !.allocation_failed = TRUE] \in Metrics
         /\ [WithError(m, status) EXCEPT !.allocation_failed = TRUE].allocation_failed = TRUE
<1>1. ASSUME NEW n \in Metrics, NEW v \in Nat
      PROVE  /\ [n EXCEPT !.count = v] \in Metrics
             /\ [n EXCEPT !.capacity = v] \in Metrics
             /\ [n EXCEPT !.errors = v] \in Metrics
  BY <1>1 DEF Metrics
<1>2. ASSUME NEW n \in Metrics, NEW v \in Nat
      PROVE  /\ [n EXCEPT !.count = v].count = v
             /\ [n EXCEPT !.count = v].errors = n.errors
             /\ [n EXCEPT !.capacity = v].count = n.count
             /\ [n EXCEPT !.capacity = v].errors = n.errors
             /\ [n EXCEPT !.errors = v].count = n.count
             /\ [n EXCEPT !.errors = v].errors = v
  BY <1>2 DEF Metrics
<1>3. ASSUME NEW n \in Metrics, NEW v \in Nat
      PROVE  /\ [n EXCEPT !.count = v].allocation_failed = n.allocation_failed
             /\ [n EXCEPT !.capacity = v].allocation_failed = n.allocation_failed
             /\ [n EXCEPT !.errors = v].allocation_failed = n.allocation_failed
  BY <1>3 DEF Metrics
<1>4. ASSUME NEW n \in Metrics
      PROVE  /\ [n EXCEPT !.allocation_failed = TRUE] \in Metrics
             /\ [n EXCEPT !.allocation_failed = TRUE].allocation_failed = TRUE
  BY <1>4, Zenon DEF Metrics
<1>5. m.count \in Nat /\ m.errors \in Nat /\ m.capacity \in Nat
  BY DEF Metrics
<1>6. /\ WithError(m, status) \in Metrics
      /\ WithError(m, status).count = m.count
      /\ WithError(m, status).errors = m.errors + (IF status = "OK" THEN 0 ELSE 1)
      /\ WithError(m, status).allocation_failed = m.allocation_failed
  <2> DEFINE v == IF status = "OK" THEN m.errors ELSE m.errors + 1
  <2>1. WithError(m, status) = [m EXCEPT !.errors = v]
    BY Zenon DEF WithError
  <2>2. v \in Nat /\ v = m.errors + (IF status = "OK" THEN 0 ELSE 1)
    BY <1>5
  <2> HIDE DEF v
  <2>3. WithError(m, status) \in Metrics
    BY <2>1, <2>2, <1>1, ZenonT(60)
  <2>4. WithError(m, status).count = m.count /\ WithError(m, status).errors = v
    BY <2>1, <2>2, <1>2
  <2>5. WithError(m, status).allocation_failed = m.allocation_failed
    BY <2>1, <2>2, <1>3, ZenonT(60)
  <2> QED
    BY <2>2, <2>3, <2>4, <2>5, Zenon
<1>7. ASSUME NEW n \in Metrics
      PROVE  /\ Grown(n) \in Metrics
             /\ Grown(n).count = n.count
             /\ Grown(n).errors = n.errors
             /\ Grown(n).allocation_failed = n.allocation_failed
  <2>1. n.capacity \in Nat
    BY <1>7 DEF Metrics
  <2>2. (IF n.capacity = 0 THEN FirstCapacity ELSE 2 * n.capacity) \in Nat
    BY <2>1, FirstCapacityAssumption
  <2> QED
    BY <2>2, <1>1, <1>2, <1>3, <1>7 DEF Grown
<1>8. /\ Counted(m, status) \in Metrics
      /\ Counted(m, status).count = m.count + 1
      /\ Counted(m, status).errors = m.errors + (IF status = "OK" THEN 0 ELSE 1)
      /\ Counted(m, status).allocation_failed = m.allocation_failed
  <2> DEFINE n == Grown(WithError(m, status))
             v == n.count + 1
  <2>1. Counted(m, status) = [n EXCEPT !.count = v]
    BY Zenon DEF Counted
  <2>2. n \in Metrics /\ n.count = m.count /\ v \in Nat
    BY <1>5, <1>6, <1>7
  <2>3. /\ n.errors = m.errors + (IF status = "OK" THEN 0 ELSE 1)
        /\ n.allocation_failed = m.allocation_failed
        /\ v = m.count + 1
    BY <1>6, <1>7
  <2> HIDE DEF n, v
  <2>4. Counted(m, status) \in Metrics
    BY <2>1, <2>2, <1>1
  <2>5. Counted(m, status).count = v /\ Counted(m, status).errors = n.errors
    BY <2>1, <2>2, <1>2
  <2>6. Counted(m, status).allocation_failed = n.allocation_failed
    BY <2>1, <2>2, <1>3, Zenon
  <2> QED
    BY <2>3, <2>4, <2>5, <2>6, Zenon
<1> QED
  BY <1>4, <1>6, <1>8

\* The line of a request is an event (gateway.c log_event).
LEMMA LoggedType ==
  ASSUME ShapeInv, pc = "log" PROVE Logged \in Seq(Event)
<1>1. current \in Connections /\ request[current] \in Requests
  BY DEF ShapeInv, TypeOK, QueueInv, Serving
<1>2. parsed => request[current].op \in {"PUT", "GET", "DELETE"}
  BY <1>1 DEF ShapeInv, RequestInv, Requests, KV!Request
<1>3. response.status \in Statuses
  BY DEF ShapeInv, TypeOK, Responses
<1>4. \A e \in Event : << e >> \in Seq(Event)
  OBVIOUS
<1>5. CASE TelemetryOn /\ parsed
  <2>1. [id |-> current, operation |-> request[current].op, result |-> response.status]
          \in Event
    BY <1>1, <1>2, <1>3, <1>5 DEF Event
  <2> QED
    BY <2>1, <1>4, <1>5 DEF Logged
<1>6. CASE TelemetryOn /\ ~ parsed
  <2>1. [id |-> Nobody, operation |-> "REJECT", result |-> response.status] \in Event
    BY <1>3 DEF Event
  <2> QED
    BY <2>1, <1>4, <1>6 DEF Logged
<1>7. CASE ~ TelemetryOn
  BY <1>7, EmptySeq DEF Logged
<1> QED
  BY <1>5, <1>6, <1>7

\* A new connection is put at the end of the queue, where it was not yet.
LEMMA ConnectShape ==
  ASSUME ShapeInv, NEW c \in Connections, Connect(c)
  PROVE  ShapeInv'
<1>1. TypeOK'
  BY DEF ShapeInv, TypeOK, Connect
<1>2. QueueInv'
  <2>1. request[c] = NotYet /\ pc \in {"test", "accept", "blocked", "cleanup"} \union Serving
    BY DEF ShapeInv, TypeOK, QueueInv, Connect, Listening, Serving
  <2>2. request'[c] # NotYet /\ \A d \in Connections : d # c => request'[d] = request[d]
    BY NotYetAssumption DEF ShapeInv, TypeOK, Connect
  <2>3. \A i \in 1..Len(backlog) : backlog[i] \in Connections /\ backlog[i] # c
    BY <2>1, ElementOfSeq DEF ShapeInv, TypeOK, QueueInv
  <2>4. /\ Len(backlog') = Len(backlog) + 1 /\ Len(backlog) \in Nat
        /\ \A i \in 1..Len(backlog) : backlog'[i] = backlog[i]
        /\ backlog'[Len(backlog) + 1] = c
    BY AppendProperties, LenProperties DEF ShapeInv, TypeOK, Connect
  <2>5. current # c /\ UNCHANGED <<pc, current>>
    BY <2>1, NobodyAssumption DEF ShapeInv, QueueInv, Connect
  <2>6. current # Nobody => current \in Connections /\ request'[current] # NotYet
    BY <2>2, <2>5 DEF ShapeInv, TypeOK, QueueInv
  <2>7. \A i \in 1..Len(backlog') : request'[backlog'[i]] # NotYet /\ backlog'[i] # current'
    <3> TAKE i \in 1..Len(backlog')
    <3>1. i \in 1..Len(backlog) \/ i = Len(backlog) + 1
      BY <2>4
    <3> QED
      BY <3>1, <2>2, <2>3, <2>4, <2>5 DEF ShapeInv, QueueInv
  <2>8. \A i, j \in 1..Len(backlog') : backlog'[i] = backlog'[j] => i = j
    BY <2>3, <2>4 DEF ShapeInv, QueueInv
  <2>9. \A d \in Connections :
          /\ peer'[d] = "new" => request'[d] = NotYet
          /\ peer'[d] \in {"open", "answered", "dead"} => request'[d] # NotYet
    BY <2>2 DEF ShapeInv, TypeOK, QueueInv, Connect
  <2>10. pc' \in Serving <=> current' # Nobody
    BY <2>5 DEF ShapeInv, QueueInv
  <2> QED
    BY <2>5, <2>6, <2>7, <2>8, <2>9, <2>10 DEF QueueInv
<1>3. RequestInv'
  <2>1. request[c] = NotYet /\ executed[c] = NotYet /\ current # c
    BY NobodyAssumption DEF ShapeInv, QueueInv, RequestInv, Connect
  <2>11. sent[c] \in 0..3 /\ sent[c] <= 0
    BY <2>1 DEF ShapeInv, TypeOK, RequestInv
  <2>2. /\ request'[c] \in Requests
        /\ \A d \in Connections : d # c => request'[d] = request[d]
    BY DEF ShapeInv, TypeOK, Connect
  <2>3. Chunks(request'[c]) \in {2, 3} /\ request'[c] # NotYet
    BY <2>2, ChunksType, NotYetAssumption
  <2>4. pc \in Serving => current \in Connections
    BY DEF ShapeInv, TypeOK, QueueInv
  <2>5. pc' = pc /\ current' = current /\ sent' = sent /\ executed' = executed
    BY DEF Connect
  <2>6. \A d \in Connections :
          sent'[d] <= (IF request'[d] = NotYet THEN 0 ELSE Chunks(request'[d]))
    BY <2>1, <2>2, <2>3, <2>5, <2>11 DEF ShapeInv, RequestInv
  <2>7. pc \in Serving => current # c /\ request'[current] = request[current]
    BY <2>1, <2>2, <2>4
  <2>8. \A d \in Connections : executed'[d] # NotYet =>
           /\ request'[d] # NotYet
           /\ request'[d].op # "MALFORMED"
           /\ sent'[d] = Chunks(request'[d])
    BY <2>1, <2>2, <2>5 DEF ShapeInv, RequestInv
  <2>9. UNCHANGED parsed
    BY DEF Connect
  <2>10. /\ pc' \in {"key", "value", "dispatch"} => request'[current'].op # "MALFORMED"
         /\ pc' \in {"send", "metric", "log"} /\ parsed' => request'[current'].op # "MALFORMED"
         /\ pc' = "value" => Chunks(request'[current']) = 3
         /\ pc' = "dispatch" => sent'[current'] = Chunks(request'[current'])
    BY <2>5, <2>7, <2>9 DEF ShapeInv, RequestInv, Serving
  <2> QED
    BY <2>6, <2>8, <2>10 DEF RequestInv
<1> QED
  BY <1>1, <1>2, <1>3 DEF ShapeInv

\* A refused client has asked for nothing.
LEMMA RefusedShape ==
  ASSUME ShapeInv, NEW c \in Connections, Refused(c)
  PROVE  ShapeInv'
<1>1. TypeOK'
  BY DEF ShapeInv, TypeOK, Refused, gatewayVars
<1>2. QueueInv'
  BY DEF ShapeInv, QueueInv, Refused, gatewayVars
<1>3. RequestInv'
  BY DEF ShapeInv, RequestInv, Refused, gatewayVars
<1> QED
  BY <1>1, <1>2, <1>3 DEF ShapeInv

\* A client writes no chunk of a request that was read completely.
LEMMA SendShape ==
  ASSUME ShapeInv, NEW c \in Connections, Send(c)
  PROVE  ShapeInv'
<1>1. TypeOK'
  <2>1. request[c] \in Requests
    BY DEF ShapeInv, TypeOK, QueueInv, Send
  <2>2. Chunks(request[c]) \in {2, 3} /\ sent[c] \in 0..3
    BY <2>1, ChunksType DEF ShapeInv, TypeOK
  <2>3. sent[c] < Chunks(request[c]) => sent[c] + 1 \in 0..3
    BY <2>2
  <2>4. sent' \in [Connections -> 0..3]
    BY <2>3 DEF ShapeInv, TypeOK, Send
  <2> QED
    BY <2>4 DEF ShapeInv, TypeOK, Send, gatewayVars
<1>2. QueueInv'
  BY DEF ShapeInv, TypeOK, QueueInv, Send, gatewayVars
<1>3. RequestInv'
  <2>1. request[c] \in Requests /\ request[c] # NotYet
    BY DEF ShapeInv, TypeOK, QueueInv, Send
  <2>2. Chunks(request[c]) \in {2, 3} /\ sent[c] \in 0..3
    BY <2>1, ChunksType DEF ShapeInv, TypeOK
  <2>3. c \in DOMAIN sent /\ \A d \in Connections : sent[d] \in Int
    BY DEF ShapeInv, TypeOK
  <2>4. /\ sent'[c] <= Chunks(request[c])
        /\ sent[c] < Chunks(request[c])
        /\ \A d \in Connections : d # c => sent'[d] = sent[d]
    BY <2>1, <2>2, <2>3 DEF ShapeInv, TypeOK, Send
  <2>5. pc = "dispatch" => current # c /\ current \in Connections
    BY <2>4, SMTT(60) DEF ShapeInv, TypeOK, QueueInv, Serving, RequestInv
  <2>6. executed[c] = NotYet
    BY <2>2, <2>4 DEF ShapeInv, RequestInv
  <2> QED
    BY <2>1, <2>4, <2>5, <2>6 DEF ShapeInv, RequestInv, Send, gatewayVars
<1> QED
  BY <1>1, <1>2, <1>3 DEF ShapeInv

\* Reading an answer ends a client.
LEMMA ReceiveShape ==
  ASSUME ShapeInv, NEW c \in Connections, Receive(c)
  PROVE  ShapeInv'
<1>1. TypeOK'
  BY DEF ShapeInv, TypeOK, Receive, gatewayVars, Responses
<1>2. QueueInv'
  BY DEF ShapeInv, TypeOK, QueueInv, Receive, gatewayVars
<1>3. RequestInv'
  BY DEF ShapeInv, RequestInv, Receive, gatewayVars
<1> QED
  BY <1>1, <1>2, <1>3 DEF ShapeInv

\* A client that dies leaves its request and its place in the queue.
LEMMA DieShape ==
  ASSUME ShapeInv, NEW c \in Connections, Die(c)
  PROVE  ShapeInv'
<1>1. TypeOK'
  BY DEF ShapeInv, TypeOK, Die, gatewayVars
<1>2. QueueInv'
  BY DEF ShapeInv, QueueInv, Die, gatewayVars
<1>3. RequestInv'
  BY DEF ShapeInv, RequestInv, Die, gatewayVars
<1> QED
  BY <1>1, <1>2, <1>3 DEF ShapeInv

\* A signal moves or kills the gateway; nobody is served twice because of it.
LEMMA TerminateShape ==
  ASSUME ShapeInv, Terminate
  PROVE  ShapeInv'
<1>1. TypeOK'
  <2>1. signals' \in 0..MaxSignals
    BY MaxSignalsAssumption DEF ShapeInv, TypeOK, Terminate
  <2>2. CASE handler
    <3>1. /\ stopping' = TRUE /\ handler' = FALSE
          /\ unseen' = (pc = "accept")
          /\ pc' = IF pc = "blocked" THEN "test" ELSE pc
          /\ UNCHANGED <<backlog, current, hungup>>
      BY <2>2 DEF Terminate, Interrupted
    <3>2. unseen' \in BOOLEAN
      BY <3>1
    <3> QED
      BY <2>1, <3>1, <3>2 DEF ShapeInv, TypeOK, Terminate, clientVars
  <2>3. CASE ~ handler
    <3>1. backlog' \in Seq(Connections)
      BY <2>3, EmptySeq DEF Terminate, Killed
    <3> QED
      BY <2>1, <2>3, <3>1 DEF ShapeInv, TypeOK, Terminate, Killed, clientVars
  <2> QED
    BY <2>2, <2>3
<1>2. QueueInv'
  BY DEF ShapeInv, QueueInv, Serving, Terminate, Killed, Interrupted, clientVars
<1>3. RequestInv'
  BY DEF ShapeInv, RequestInv, Terminate, Killed, Interrupted, clientVars
<1> QED
  BY <1>1, <1>2, <1>3 DEF ShapeInv

\* main, up to the handlers.
LEMMA BootShape ==
  ASSUME ShapeInv, Boot
  PROVE  ShapeInv'
<1>1. TypeOK'
  <2>1. handler' \in BOOLEAN /\ pc' \in {"bind", "exited"}
    BY Zenon DEF ShapeInv, TypeOK, Boot
  <2> QED
    BY <2>1 DEF ShapeInv, TypeOK, Boot, clientVars
<1>2. QueueInv'
  BY DEF ShapeInv, QueueInv, Serving, Boot, clientVars
<1>3. RequestInv'
  BY DEF ShapeInv, RequestInv, Boot, clientVars
<1> QED
  BY <1>1, <1>2, <1>3 DEF ShapeInv

\* serve binds its socket or goes on to the summary.
LEMMA BindShape ==
  ASSUME ShapeInv, Bind
  PROVE  ShapeInv'
<1>1. TypeOK'
  BY DEF ShapeInv, TypeOK, Bind, clientVars
<1>2. QueueInv'
  BY DEF ShapeInv, QueueInv, Serving, Bind, clientVars
<1>3. RequestInv'
  BY DEF ShapeInv, RequestInv, Bind, clientVars
<1> QED
  BY <1>1, <1>2, <1>3 DEF ShapeInv

\* The loop condition of serve.
LEMMA TestStoppingShape ==
  ASSUME ShapeInv, TestStopping
  PROVE  ShapeInv'
<1>1. TypeOK'
  BY DEF ShapeInv, TypeOK, TestStopping, clientVars
<1>2. QueueInv'
  BY DEF ShapeInv, QueueInv, Serving, TestStopping, clientVars
<1>3. RequestInv'
  BY DEF ShapeInv, RequestInv, TestStopping, clientVars
<1> QED
  BY <1>1, <1>2, <1>3 DEF ShapeInv

\* The oldest connection leaves the queue for service.
LEMMA AcceptShape ==
  ASSUME ShapeInv, Accept
  PROVE  ShapeInv'
<1>1. TypeOK'
  <2>1. backlog' \in Seq(Connections) /\ current' \in Connections
    BY HeadTailProperties DEF ShapeInv, TypeOK, Accept
  <2>2. response' \in Responses
    BY BlankType DEF Accept, FirstResponse
  <2> QED
    BY <2>1, <2>2 DEF ShapeInv, TypeOK, Accept, clientVars
<1>2. QueueInv'
  BY DEF ShapeInv, QueueInv, Serving, Accept, clientVars
<1>3. RequestInv'
  BY DEF ShapeInv, RequestInv, Accept, clientVars
<1> QED
  BY <1>1, <1>2, <1>3 DEF ShapeInv

\* accept() sleeps.
LEMMA BlockShape ==
  ASSUME ShapeInv, Block
  PROVE  ShapeInv'
<1>1. TypeOK'
  BY DEF ShapeInv, TypeOK, Block, clientVars
<1>2. QueueInv'
  BY DEF ShapeInv, QueueInv, Serving, Block, clientVars
<1>3. RequestInv'
  BY DEF ShapeInv, RequestInv, Block, clientVars
<1> QED
  BY <1>1, <1>2, <1>3 DEF ShapeInv

\* accept() fails.
LEMMA AcceptFailsShape ==
  ASSUME ShapeInv, AcceptFails
  PROVE  ShapeInv'
<1>1. TypeOK'
  BY DEF ShapeInv, TypeOK, AcceptFails, clientVars
<1>2. QueueInv'
  BY DEF ShapeInv, QueueInv, Serving, AcceptFails, clientVars
<1>3. RequestInv'
  BY DEF ShapeInv, RequestInv, AcceptFails, clientVars
<1> QED
  BY <1>1, <1>2, <1>3 DEF ShapeInv

\* A header that passes the checks is well formed.
LEMMA RecvHeaderShape ==
  ASSUME ShapeInv, RecvHeader
  PROVE  ShapeInv'
<1>1. TypeOK'
  BY ZenonT(60) DEF ShapeInv, TypeOK, RecvHeader, Reject, Continue, clientVars, Responses, Statuses
<1>2. QueueInv'
  BY DEF ShapeInv, QueueInv, Serving, RecvHeader, Reject, Continue, clientVars
<1>3. RequestInv'
  BY DEF ShapeInv, RequestInv, RecvHeader, Reject, Continue, clientVars
<1> QED
  BY <1>1, <1>2, <1>3 DEF ShapeInv

\* With the key the request is complete, or has a value to come.
LEMMA RecvKeyShape ==
  ASSUME ShapeInv, RecvKey
  PROVE  ShapeInv'
<1>1. TypeOK'
  BY ZenonT(60)
  DEF ShapeInv, TypeOK, RecvKey, Reject, Continue, Parsed, clientVars, Responses, Statuses
<1>2. QueueInv'
  BY DEF ShapeInv, QueueInv, Serving, RecvKey, Reject, Continue, Parsed, clientVars
<1>3. RequestInv'
  BY ChunksType
  DEF ShapeInv, TypeOK, QueueInv, Serving, RequestInv, RecvKey, Arrived, Reject, Continue,
      Parsed, LastChunk, clientVars
<1> QED
  BY <1>1, <1>2, <1>3 DEF ShapeInv

\* With the value the request is complete.
LEMMA RecvValueShape ==
  ASSUME ShapeInv, RecvValue
  PROVE  ShapeInv'
<1>1. TypeOK'
  BY DEF ShapeInv, TypeOK, RecvValue, Reject, Parsed, clientVars, Responses, Statuses
<1>2. QueueInv'
  BY DEF ShapeInv, QueueInv, Serving, RecvValue, Reject, Parsed, clientVars
<1>3. RequestInv'
  <2>1. current \in Connections /\ request[current] \in Requests
    BY DEF ShapeInv, TypeOK, QueueInv, Serving, RecvValue
  <2>2. pc = "value" /\ sent[current] \in Nat
        /\ sent[current] <= Chunks(request[current]) /\ Chunks(request[current]) = 3
        /\ request[current].op # "MALFORMED"
    BY <2>1 DEF ShapeInv, TypeOK, RequestInv, RecvValue
  <2>3. pc' = "dispatch" => sent[current] = Chunks(request[current])
    BY <2>2 DEF RecvValue, Arrived, Reject
  <2> QED
    BY <2>2, <2>3 DEF ShapeInv, RequestInv, RecvValue, clientVars
<1> QED
  BY <1>1, <1>2, <1>3 DEF ShapeInv

\* The backend is given a request that is complete and well formed.
LEMMA DispatchShape ==
  ASSUME ShapeInv, Dispatch
  PROVE  ShapeInv'
<1>1. TypeOK'
  <2>1. current \in Connections /\ request[current] \in Requests
        /\ request[current].op # "MALFORMED"
    BY DEF ShapeInv, TypeOK, QueueInv, RequestInv, Serving, Dispatch
  <2>2. response' \in Responses /\ store' \in [Keys -> Values \union {NoValue}]
    BY <2>1, DispatchType DEF ShapeInv, TypeOK, Dispatch
  <2> QED
    BY <2>1, <2>2 DEF ShapeInv, TypeOK, Dispatch, clientVars
<1>2. QueueInv'
  BY DEF ShapeInv, QueueInv, Serving, Dispatch, clientVars
<1>3. RequestInv'
  BY DEF ShapeInv, QueueInv, Serving, RequestInv, Dispatch, clientVars
<1> QED
  BY <1>1, <1>2, <1>3 DEF ShapeInv

\* The response is written, or the gateway is killed by SIGPIPE.
LEMMA SendResponseShape ==
  ASSUME ShapeInv, SendResponse
  PROVE  ShapeInv'
<1>1. TypeOK'
  <2>1. backlog' \in Seq(Connections) /\ hungup' \subseteq Connections
    <3>1. << >> \in Seq(Connections)
      BY EmptySeq
    <3> QED
      BY <3>1 DEF ShapeInv, TypeOK, SendResponse, Killed
  <2>2. received' \in [Connections -> Responses \union {NotYet}]
    BY DEF ShapeInv, TypeOK, SendResponse
  <2>3. current' \in Connections \union {Nobody} /\ pc' \in {"metric", "killed"}
    BY DEF ShapeInv, TypeOK, SendResponse, Killed
  <2> QED
    BY <2>1, <2>2, <2>3 DEF ShapeInv, TypeOK, SendResponse, clientVars
<1>2. QueueInv'
  BY DEF ShapeInv, QueueInv, Serving, SendResponse, Killed, clientVars
<1>3. RequestInv'
  BY DEF ShapeInv, RequestInv, SendResponse, Killed, clientVars
<1> QED
  BY <1>1, <1>2, <1>3 DEF ShapeInv

\* record_metric counts or fails to.
LEMMA RecordMetricShape ==
  ASSUME ShapeInv, RecordMetric
  PROVE  ShapeInv'
<1>1. TypeOK'
  <2>1. metrics' \in Metrics
    <3>1. metrics \in Metrics
      BY DEF ShapeInv, TypeOK, Metrics
    <3> QED
      BY <3>1, CountedType DEF RecordMetric
  <2> QED
    BY <2>1 DEF ShapeInv, TypeOK, RecordMetric, clientVars, Metrics
<1>2. QueueInv'
  BY DEF ShapeInv, QueueInv, Serving, RecordMetric, clientVars
<1>3. RequestInv'
  BY DEF ShapeInv, RequestInv, RecordMetric, clientVars
<1> QED
  BY <1>1, <1>2, <1>3 DEF ShapeInv

\* log_event writes one line or, without telemetry, none.
LEMMA LogEventShape ==
  ASSUME ShapeInv, LogEvent
  PROVE  ShapeInv'
<1>1. TypeOK'
  <2>1. Logged \in Seq(Event)
    BY LoggedType DEF LogEvent
  <2>2. telemetry' \in Seq(Event)
    BY <2>1, ConcatProperties DEF ShapeInv, TypeOK, LogEvent
  <2> QED
    BY <2>2 DEF ShapeInv, TypeOK, LogEvent, clientVars
<1>2. QueueInv'
  BY DEF ShapeInv, QueueInv, Serving, LogEvent, clientVars
<1>3. RequestInv'
  BY DEF ShapeInv, RequestInv, LogEvent, clientVars
<1> QED
  BY <1>1, <1>2, <1>3 DEF ShapeInv

\* The connection served is closed.
LEMMA CloseConnectionShape ==
  ASSUME ShapeInv, CloseConnection
  PROVE  ShapeInv'
<1>1. TypeOK'
  <2>1. hungup' \subseteq Connections
    BY DEF ShapeInv, TypeOK, QueueInv, Serving, CloseConnection, Closed
  <2> QED
    BY <2>1 DEF ShapeInv, TypeOK, CloseConnection, clientVars
<1>2. QueueInv'
  <2>1. \A i \in 1..Len(backlog) : backlog[i] \in Connections
    BY ElementOfSeq DEF ShapeInv, TypeOK
  <2> QED
    BY <2>1, NobodyAssumption
    DEF ShapeInv, TypeOK, QueueInv, Serving, CloseConnection, clientVars
<1>3. RequestInv'
  BY DEF ShapeInv, RequestInv, CloseConnection, clientVars
<1> QED
  BY <1>1, <1>2, <1>3 DEF ShapeInv

\* The connections never accepted are reset.
LEMMA CleanupShape ==
  ASSUME ShapeInv, Cleanup
  PROVE  ShapeInv'
<1>1. TypeOK'
  BY DEF ShapeInv, TypeOK, Cleanup, clientVars
<1>2. QueueInv'
  BY DEF ShapeInv, QueueInv, Serving, Cleanup, clientVars
<1>3. RequestInv'
  BY DEF ShapeInv, RequestInv, Cleanup, clientVars
<1> QED
  BY <1>1, <1>2, <1>3 DEF ShapeInv

\* The summary is written or not.
LEMMA WriteSummaryShape ==
  ASSUME ShapeInv, WriteSummary
  PROVE  ShapeInv'
<1>1. TypeOK'
  BY DEF ShapeInv, TypeOK, WriteSummary, clientVars
<1>2. QueueInv'
  BY DEF ShapeInv, QueueInv, Serving, WriteSummary, clientVars
<1>3. RequestInv'
  BY DEF ShapeInv, RequestInv, WriteSummary, clientVars
<1> QED
  BY <1>1, <1>2, <1>3 DEF ShapeInv

\* Every step keeps the shape: one step of the proof per action.
LEMMA ShapeNext == ShapeInv /\ [Next]_vars => ShapeInv'
<1> SUFFICES ASSUME ShapeInv, [Next]_vars PROVE ShapeInv'
  OBVIOUS
<1>1. CASE UNCHANGED vars
  BY <1>1 DEF vars, gatewayVars, clientVars, ShapeInv, TypeOK, QueueInv, RequestInv
<1>2. ASSUME NEW c \in Connections, Connect(c) PROVE ShapeInv'
  BY <1>2, ConnectShape
<1>3. ASSUME NEW c \in Connections, Refused(c) PROVE ShapeInv'
  BY <1>3, RefusedShape
<1>4. ASSUME NEW c \in Connections, Send(c) PROVE ShapeInv'
  BY <1>4, SendShape
<1>5. ASSUME NEW c \in Connections, Receive(c) PROVE ShapeInv'
  BY <1>5, ReceiveShape
<1>6. ASSUME NEW c \in Connections, Die(c) PROVE ShapeInv'
  BY <1>6, DieShape
<1>7. CASE Terminate
  BY <1>7, TerminateShape
<1>8. CASE Boot
  BY <1>8, BootShape
<1>9. CASE Bind
  BY <1>9, BindShape
<1>10. CASE TestStopping
  BY <1>10, TestStoppingShape
<1>11. CASE Accept
  BY <1>11, AcceptShape
<1>12. CASE Block
  BY <1>12, BlockShape
<1>13. CASE AcceptFails
  BY <1>13, AcceptFailsShape
<1>14. CASE RecvHeader
  BY <1>14, RecvHeaderShape
<1>15. CASE RecvKey
  BY <1>15, RecvKeyShape
<1>16. CASE RecvValue
  BY <1>16, RecvValueShape
<1>17. CASE Dispatch
  BY <1>17, DispatchShape
<1>18. CASE SendResponse
  BY <1>18, SendResponseShape
<1>19. CASE RecordMetric
  BY <1>19, RecordMetricShape
<1>20. CASE LogEvent
  BY <1>20, LogEventShape
<1>21. CASE CloseConnection
  BY <1>21, CloseConnectionShape
<1>22. CASE Cleanup
  BY <1>22, CleanupShape
<1>23. CASE WriteSummary
  BY <1>23, WriteSummaryShape
<1> QED
  BY <1>1, <1>2, <1>3, <1>4, <1>5, <1>6, <1>7, <1>8, <1>9, <1>10, <1>11, <1>12, <1>13,
      <1>14, <1>15, <1>16, <1>17, <1>18, <1>19, <1>20, <1>21, <1>22, <1>23
  DEF Next, GatewayProgress, ClientProgress

\* Every reachable state has the shape.
LEMMA ShapeInvariant == Spec => []ShapeInv
BY ShapeInit, ShapeNext, PTL DEF Spec

\* Type correctness of the gateway and its clients (gateway.c serve, client.c).
THEOREM TypeCorrect == Spec => []TypeOK
<1>1. ShapeInv => TypeOK
  BY DEF ShapeInv
<1> QED
  BY <1>1, ShapeInvariant, PTL

\* No malformed or partly received request reaches the backend (gateway.c
\* serve and protocol.c c3m_recv_request), whatever clients and signals do.
THEOREM OnlyCompleteRequests == Spec => []OnlyCompleteRequestsExecute
<1>1. ShapeInv => OnlyCompleteRequestsExecute
  BY DEF ShapeInv, RequestInv, OnlyCompleteRequestsExecute
<1> QED
  BY <1>1, ShapeInvariant, PTL

-----------------------------------------------------------------------------
(* Counting: metrics and telemetry differ by the request between the two.  *)

\* The metrics count what the file says and the request between
\* record_metric and log_event; the summary says what the metrics count.
CountInv ==
  /\ summary # NoSummary =>
       /\ pc = "exited"
       /\ metrics.allocation_failed = FALSE
       /\ summary = [requests |-> metrics.count, errors |-> metrics.errors]
  /\ TelemetryOn /\ metrics.allocation_failed = FALSE /\ pc # "killed" =>
       /\ metrics.count = Len(telemetry) + (IF pc = "log" THEN 1 ELSE 0)
       /\ metrics.errors = Errors(telemetry)
                            + (IF pc = "log" /\ response.status # "OK" THEN 1 ELSE 0)

\* A file has a number of error lines.
LEMMA ErrorsType == ASSUME NEW t \in Seq(Event) PROVE Errors(t) \in Nat
<1>1. IsFiniteSet(1..Len(t))
  BY FS_Interval, LenProperties
<1>2. IsFiniteSet({i \in 1..Len(t) : t[i].result # "OK"})
  BY <1>1, FS_Subset
<1> QED
  BY <1>2, FS_CardinalityType DEF Errors

\* One more line is one more error exactly if it is not OK.
LEMMA ErrorsAppend ==
  ASSUME NEW t \in Seq(Event), NEW e \in Event
  PROVE  /\ Len(t \o << e >>) = Len(t) + 1
         /\ Errors(t \o << e >>) = Errors(t) + (IF e.result # "OK" THEN 1 ELSE 0)
<1> DEFINE u == t \o << e >>
           D == {i \in 1..Len(t) : t[i].result # "OK"}
           E == {i \in 1..Len(u) : u[i].result # "OK"}
<1>1. << e >> \in Seq(Event) /\ Len(<< e >>) = 1 /\ << e >>[1] = e
  OBVIOUS
<1>2. /\ Len(t) \in Nat /\ Len(u) = Len(t) + 1
      /\ \A i \in 1..Len(t) : u[i] = t[i]
      /\ u[Len(t) + 1] = e
  <2>1. Len(t) \in Nat
    BY LenProperties
  <2>2. /\ Len(u) = Len(t) + Len(<< e >>)
        /\ \A i \in 1..(Len(t) + Len(<< e >>)) :
              u[i] = IF i <= Len(t) THEN t[i] ELSE << e >>[i - Len(t)]
    BY <1>1, ConcatProperties
  <2> HIDE DEF u
  <2>3. Len(u) = Len(t) + 1
    BY <1>1, <2>2
  <2>4. \A i \in 1..Len(t) : u[i] = t[i]
    BY <1>1, <2>1, <2>2
  <2>5. u[Len(t) + 1] = << e >>[(Len(t) + 1) - Len(t)]
    BY <1>1, <2>1, <2>2
  <2>6. (Len(t) + 1) - Len(t) = 1
    BY <2>1
  <2> QED
    BY <1>1, <2>1, <2>3, <2>4, <2>5, <2>6
<1> HIDE DEF u
<1>3. IsFiniteSet(D)
  <2>1. IsFiniteSet(1..Len(t)) /\ D \subseteq 1..Len(t)
    BY <1>2, FS_Interval
  <2> QED
    BY <2>1, FS_Subset
<1>4. Len(t) + 1 \notin D
  BY <1>2
<1>5. E = IF e.result # "OK" THEN D \union {Len(t) + 1} ELSE D
  BY <1>2
<1>6. Cardinality(D \union {Len(t) + 1}) = Cardinality(D) + 1
  BY <1>3, <1>4, FS_AddElement
<1>7. Cardinality(D) \in Nat
  BY <1>3, FS_CardinalityType
<1>8. Errors(t) = Cardinality(D) /\ Errors(u) = Cardinality(E)
  BY DEF Errors
<1>9. Errors(u) = Errors(t) + (IF e.result # "OK" THEN 1 ELSE 0)
  <2> HIDE DEF D, E
  <2> QED
    BY <1>5, <1>6, <1>7, <1>8
<1> QED
  BY <1>2, <1>9 DEF u

\* A step that neither counts nor logs keeps the balance.
LEMMA CountFrame ==
  ASSUME CountInv,
         UNCHANGED <<metrics, telemetry, summary>>,
         \/ pc' = pc /\ response' = response
         \/ pc \notin {"log", "exited"} /\ pc' # "log" /\ pc # "killed"
         \/ pc \notin {"exited"} /\ pc' = "killed"
  PROVE  CountInv'
<1>1. Errors(telemetry)' = Errors(telemetry)
  BY DEF Errors
<1> QED
  BY <1>1 DEF CountInv

\* record_metric puts the metrics one request ahead of the file.
LEMMA RecordMetricCount ==
  ASSUME ShapeInv, CountInv, RecordMetric
  PROVE  CountInv'
<1>1. metrics \in Metrics /\ metrics.count \in Nat /\ metrics.errors \in Nat
  BY DEF ShapeInv, TypeOK, Metrics
<1>2. Len(telemetry) \in Nat /\ Errors(telemetry) \in Nat
  BY ErrorsType, LenProperties DEF ShapeInv, TypeOK
<1>3. /\ pc = "metric" /\ pc' = "log"
      /\ UNCHANGED <<response, telemetry, summary>>
      /\ Errors(telemetry)' = Errors(telemetry)
  BY DEF RecordMetric, Errors
<1>4. summary = NoSummary
  BY <1>3 DEF CountInv
<1>5. CASE metrics' = Counted(metrics, response.status)
  <2>1. /\ metrics'.count = metrics.count + 1
        /\ metrics'.errors = metrics.errors + (IF response.status = "OK" THEN 0 ELSE 1)
    BY <1>1, <1>5, CountedType
  <2>2. metrics'.allocation_failed = FALSE => metrics.allocation_failed = FALSE
    BY <1>1, <1>5, CountedType, Zenon
  <2> QED
    BY <1>1, <1>2, <1>3, <1>4, <2>1, <2>2 DEF CountInv
<1>6. CASE metrics' = [WithError(metrics, response.status) EXCEPT !.allocation_failed = TRUE]
  <2>1. metrics'.allocation_failed = TRUE
    BY <1>1, <1>6, CountedType, Zenon
  <2> QED
    BY <1>3, <1>4, <2>1 DEF CountInv
<1> QED
  BY <1>5, <1>6 DEF RecordMetric

\* log_event catches up with it.
LEMMA LogEventCount ==
  ASSUME ShapeInv, CountInv, LogEvent
  PROVE  CountInv'
<1>1. /\ pc = "log" /\ pc' = "close"
      /\ UNCHANGED <<response, metrics, summary>>
      /\ telemetry' = telemetry \o Logged
  BY DEF LogEvent
<1>2. summary = NoSummary
  BY <1>1 DEF CountInv
<1>3. CASE TelemetryOn
  <2>1. PICK e : Logged = << e >> /\ e.result = response.status
    BY <1>3 DEF Logged
  <2>2. e \in Event
    <3>1. Logged \in Seq(Event)
      BY <1>1, LoggedType
    <3> QED
      BY <2>1, <3>1
  <2>3. /\ Len(telemetry') = Len(telemetry) + 1
        /\ Errors(telemetry') = Errors(telemetry) + (IF e.result # "OK" THEN 1 ELSE 0)
    BY <1>1, <2>1, <2>2, ErrorsAppend DEF ShapeInv, TypeOK
  <2>4. Errors(telemetry)' = Errors(telemetry')
    BY DEF Errors
  <2>5. /\ Len(telemetry) \in Nat /\ Errors(telemetry) \in Nat
    BY ErrorsType, LenProperties DEF ShapeInv, TypeOK
  <2> QED
    BY <1>1, <1>2, <2>1, <2>3, <2>4, <2>5 DEF CountInv
<1>4. CASE ~ TelemetryOn
  BY <1>1, <1>2, <1>4 DEF CountInv
<1> QED
  BY <1>3, <1>4

\* write_summary copies metrics that are complete.
LEMMA WriteSummaryCount ==
  ASSUME ShapeInv, CountInv, WriteSummary
  PROVE  CountInv'
<1>1. /\ pc = "summary" /\ pc' = "exited"
      /\ UNCHANGED <<response, metrics, telemetry>>
      /\ Errors(telemetry)' = Errors(telemetry)
  BY DEF WriteSummary, Errors
<1>2. summary = NoSummary
  BY <1>1 DEF CountInv
<1>3. summary' # NoSummary =>
        /\ metrics.allocation_failed = FALSE
        /\ summary' = [requests |-> metrics.count, errors |-> metrics.errors]
  <2>1. metrics \in Metrics
    BY DEF ShapeInv, TypeOK, Metrics
  <2>2. \A m \in Metrics : m.allocation_failed \in BOOLEAN
    BY Zenon DEF Metrics
  <2>3. summary' # NoSummary =>
          /\ MaySummarise(metrics)
          /\ summary' = [requests |-> metrics.count, errors |-> metrics.errors]
    BY <1>2 DEF WriteSummary
  <2>4. MaySummarise(metrics) => metrics.allocation_failed = FALSE
    BY <2>1, <2>2, Zenon DEF MaySummarise
  <2> QED
    BY <2>3, <2>4
<1> QED
  BY <1>1, <1>3 DEF CountInv

\* Nothing is counted or logged at first.
LEMMA CountInit == Init => CountInv
<1> SUFFICES ASSUME Init PROVE CountInv
  OBVIOUS
<1>1. {i \in 1..Len(<< >>) : << >>[i].result # "OK"} = {} /\ Len(<< >>) = 0
  OBVIOUS
<1>2. Errors(telemetry) = 0 /\ Len(telemetry) = 0
  BY <1>1, FS_EmptySet DEF Init, Errors
<1> QED
  BY <1>2 DEF Init, CountInv

\* Every step keeps the balance of metrics and telemetry.
LEMMA CountNext == ShapeInv /\ CountInv /\ [Next]_vars => CountInv'
<1> SUFFICES ASSUME ShapeInv, CountInv, [Next]_vars PROVE CountInv'
  OBVIOUS
<1>1. CASE UNCHANGED vars
  BY <1>1, CountFrame DEF vars, gatewayVars
<1>2. CASE RecordMetric
  BY <1>2, RecordMetricCount
<1>3. CASE LogEvent
  BY <1>3, LogEventCount
<1>4. CASE WriteSummary
  BY <1>4, WriteSummaryCount
<1>5. CASE Terminate
  BY <1>5, CountFrame DEF Terminate, Killed, Interrupted
<1>6. CASE Boot \/ Bind \/ TestStopping \/ Accept \/ Block \/ AcceptFails \/ Cleanup
  BY <1>6, CountFrame
  DEF Boot, Bind, TestStopping, Accept, Block, AcceptFails, Cleanup
<1>7. CASE RecvHeader \/ RecvKey \/ RecvValue
  BY <1>7, CountFrame
  DEF RecvHeader, RecvKey, RecvValue, Reject, Parsed, Continue
<1>8. CASE Dispatch \/ SendResponse \/ CloseConnection
  BY <1>8, CountFrame DEF Dispatch, SendResponse, Killed, CloseConnection
<1>9. ASSUME NEW c \in Connections,
             Connect(c) \/ Refused(c) \/ ClientProgress(c) \/ Die(c)
      PROVE  CountInv'
  BY <1>9, CountFrame
  DEF Connect, Refused, ClientProgress, Send, Receive, Die, gatewayVars
<1> QED
  BY <1>1, <1>2, <1>3, <1>4, <1>5, <1>6, <1>7, <1>8, <1>9 DEF Next, GatewayProgress

\* The summary agrees with the telemetry file whenever it exists (gateway.c
\* record_metric, log_event, write_summary): however the signals, failed
\* accept() and realloc() calls, and rejected requests interleave.
THEOREM SummaryIsExact == Spec => []SummaryMatchesTelemetry
<1>1. ShapeInv /\ CountInv => SummaryMatchesTelemetry
  <2> SUFFICES ASSUME ShapeInv, CountInv, TelemetryOn, summary # NoSummary
               PROVE  /\ summary.requests = Len(telemetry)
                      /\ summary.errors = Errors(telemetry)
    BY DEF SummaryMatchesTelemetry
  <2>1. /\ Len(telemetry) \in Nat /\ Errors(telemetry) \in Nat
    BY ErrorsType, LenProperties DEF ShapeInv, TypeOK
  <2> QED
    BY <2>1 DEF CountInv
<1> QED
  BY <1>1, ShapeInvariant, ShapeInit, CountInit, ShapeNext, CountNext, PTL DEF Spec

-----------------------------------------------------------------------------
(* Accounting: what became of every request given to the backend.          *)

\* The one line about c, and whether c is accounted for.
Line(c, i) ==
  /\ LinesOf(c) = {i}
  /\ telemetry[i].operation = request[c].op
  /\ telemetry[i].result = executed[c].status

Accounted(c) ==
  /\ received[c] = executed[c]
  /\ TelemetryOn => \E i \in LinesOf(c) : Line(c, i)

\* Who has executed: nobody in the queue, the connection being served only
\* from dispatch on, and everybody else who has is accounted for.
AccountInv == pc # "killed" =>
  /\ \A c \in Connections : executed[c] = NotYet => LinesOf(c) = {}
  /\ \A i \in 1..Len(backlog) : executed[backlog[i]] = NotYet
  /\ pc \in {"header", "key", "value", "dispatch"} => executed[current] = NotYet
  /\ pc \in {"send", "metric", "log"} => LinesOf(current) = {}
  /\ pc \in {"dispatch", "send"} => parsed
  /\ pc = "send" => executed[current] = response
  /\ pc \in {"metric", "log"} =>
       IF parsed THEN executed[current] = response /\ received[current] = response
                 ELSE executed[current] = NotYet
  /\ \A c \in Connections :
       executed[c] # NotYet /\ (c # current \/ pc = "close") => Accounted(c)

\* Nothing about a connection changes unless its request, response, result or
\* lines do.
LEMMA AccountedFrame ==
  ASSUME NEW c, UNCHANGED <<telemetry, received, executed>>, request'[c] = request[c]
  PROVE  /\ LinesOf(c)' = LinesOf(c)
         /\ Accounted(c) => Accounted(c)'
BY DEF LinesOf, Accounted, Line

\* A step that serves nobody and takes nobody from the queue, or that kills
\* the gateway, leaves the account as it is.
LEMMA AccountFrame ==
  ASSUME ShapeInv, AccountInv,
         UNCHANGED <<telemetry, received, executed, request>>,
         \/ UNCHANGED <<pc, backlog, current, parsed, response>>
         \/ /\ pc \notin Serving \union {"killed"} /\ pc' \notin Serving
            /\ current' = current /\ (backlog' = backlog \/ backlog' = << >>)
         \/ pc' = "killed"
  PROVE  AccountInv'
BY AccountedFrame DEF ShapeInv, QueueInv, Serving, AccountInv

\* A connection is queued before its request is executed.
LEMMA ConnectAccount ==
  ASSUME ShapeInv, AccountInv, NEW c \in Connections, Connect(c)
  PROVE  AccountInv'
<1>1. /\ executed[c] = NotYet /\ current # c /\ pc # "killed"
      /\ UNCHANGED <<pc, telemetry, received, executed, current, parsed, response>>
      /\ \A d \in Connections : d # c => request'[d] = request[d]
  BY NobodyAssumption
  DEF ShapeInv, TypeOK, QueueInv, RequestInv, Connect, Listening
<1>2. \A i \in 1..Len(backlog') : executed'[backlog'[i]] = NotYet
  <2> TAKE i \in 1..Len(backlog')
  <2>1. /\ Len(backlog') = Len(backlog) + 1 /\ Len(backlog) \in Nat
        /\ \A j \in 1..Len(backlog) : backlog'[j] = backlog[j]
        /\ backlog'[Len(backlog) + 1] = c
    BY AppendProperties, LenProperties DEF ShapeInv, TypeOK, Connect
  <2>2. i \in 1..Len(backlog) \/ i = Len(backlog) + 1
    BY <2>1
  <2> QED
    BY <1>1, <2>1, <2>2 DEF AccountInv
<1>3. \A d \in Connections : LinesOf(d)' = LinesOf(d)
  BY <1>1 DEF LinesOf
<1>4. \A d \in Connections :
        executed'[d] # NotYet /\ (d # current' \/ pc' = "close") => Accounted(d)'
  BY <1>1, AccountedFrame DEF AccountInv
<1>5. pc \in Serving => current \in Connections
  BY DEF ShapeInv, TypeOK, QueueInv
<1> QED
  BY <1>1, <1>2, <1>3, <1>4, <1>5 DEF AccountInv, Serving

\* A connection is accepted before its request is executed.
LEMMA AcceptAccount ==
  ASSUME ShapeInv, AccountInv, Accept
  PROVE  AccountInv'
BY AccountedFrame, NobodyAssumption
DEF ShapeInv, QueueInv, RequestInv, Serving, AccountInv, Accept, clientVars

\* Reading a request: it goes on, to the backend or not at all.
LEMMA ReadAccount ==
  ASSUME ShapeInv, AccountInv, pc \in {"header", "key", "value"},
         UNCHANGED <<telemetry, received, executed, request, backlog, current>>,
         \/ pc' \in {"key", "value"}
         \/ pc' = "dispatch" /\ parsed' = TRUE
         \/ pc' = "metric" /\ parsed' = FALSE
  PROVE  AccountInv'
<1>1. current \in Connections /\ executed[current] = NotYet
  BY DEF ShapeInv, TypeOK, QueueInv, Serving, AccountInv
<1>2. LinesOf(current) = {}
  BY <1>1 DEF AccountInv
<1>3. LinesOf(current)' = {}
  BY <1>2 DEF LinesOf
<1> QED
  BY <1>1, <1>2, <1>3, AccountedFrame DEF AccountInv

\* From dispatch on, the response is the result.
LEMMA DispatchAccount ==
  ASSUME ShapeInv, AccountInv, Dispatch
  PROVE  AccountInv'
<1>1. /\ pc = "dispatch" /\ pc' = "send"
      /\ executed' = [executed EXCEPT ![current] = response']
      /\ UNCHANGED <<telemetry, received, request, backlog, current, parsed>>
  BY DEF Dispatch, clientVars
<1>2. /\ current \in Connections /\ executed[current] = NotYet
      /\ \A i \in 1..Len(backlog) : backlog[i] # current
      /\ executed \in [Connections -> Responses \union {NotYet}]
  BY <1>1 DEF ShapeInv, TypeOK, QueueInv, Serving, AccountInv
<1>3. parsed
  BY <1>1 DEF AccountInv
<1>4. /\ executed'[current] = response'
      /\ \A c \in Connections : c # current => executed'[c] = executed[c]
  BY <1>1, <1>2
<1>5. response' # NotYet
  <2>1. response' \in Responses
    BY <1>1, <1>2, DispatchType, NotYetAssumption
    DEF ShapeInv, TypeOK, QueueInv, RequestInv, Serving
  <2> QED
    BY <2>1, NoResponseAssumption
<1>6. \A c \in Connections : LinesOf(c)' = LinesOf(c)
  BY <1>1 DEF LinesOf
<1>7. \A c \in Connections : c # current /\ Accounted(c) => Accounted(c)'
  BY <1>1, <1>4 DEF Accounted, Line, LinesOf
<1> QED
  BY <1>1, <1>2, <1>3, <1>4, <1>5, <1>6, <1>7, ElementOfSeq DEF AccountInv

\* What is sent is the result.
LEMMA SendResponseAccount ==
  ASSUME ShapeInv, AccountInv, SendResponse
  PROVE  AccountInv'
<1>1. CASE pc' = "killed"
  BY <1>1 DEF AccountInv
<1>2. CASE pc' # "killed"
  <2>1. /\ pc = "send" /\ pc' = "metric"
        /\ received' = [received EXCEPT ![current] = response]
        /\ UNCHANGED <<telemetry, executed, request, backlog, current, parsed, response>>
    BY <1>2 DEF SendResponse, Killed, clientVars
  <2>2. current \in Connections /\ parsed
    BY <2>1 DEF ShapeInv, TypeOK, QueueInv, Serving, AccountInv
  <2>3. /\ received'[current] = response
        /\ \A c \in Connections : c # current => received'[c] = received[c]
    BY <2>1, <2>2 DEF ShapeInv, TypeOK
  <2>4. /\ \A c \in Connections : LinesOf(c)' = LinesOf(c)
    BY <2>1 DEF LinesOf
  <2>5. \A c \in Connections : c # current /\ Accounted(c) => Accounted(c)'
    BY <2>1, <2>3 DEF Accounted, Line, LinesOf
  <2> QED
    BY <2>1, <2>2, <2>3, <2>4, <2>5 DEF AccountInv
<1> QED
  BY <1>1, <1>2

\* What one more line, or none, does to the lines of each connection.
LEMMA LinesAppend ==
  ASSUME ShapeInv, LogEvent, NEW c \in Connections
  PROVE  /\ \A i \in 1..Len(telemetry) : telemetry'[i] = telemetry[i]
         /\ ~ (TelemetryOn /\ parsed /\ c = current) => LinesOf(c)' = LinesOf(c)
         /\ TelemetryOn /\ parsed /\ c = current =>
              /\ LinesOf(c)' = LinesOf(c) \union {Len(telemetry) + 1}
              /\ telemetry'[Len(telemetry) + 1] =
                   [id |-> current, operation |-> request[current].op,
                    result |-> response.status]
<1>1. telemetry' = telemetry \o Logged /\ telemetry \in Seq(Event) /\ Len(telemetry) \in Nat
  BY LenProperties DEF ShapeInv, TypeOK, LogEvent
<1>2. CASE TelemetryOn
  <2> DEFINE e == IF parsed
                  THEN [id |-> current, operation |-> request[current].op,
                        result |-> response.status]
                  ELSE [id |-> Nobody, operation |-> "REJECT", result |-> response.status]
             n == Len(telemetry) + 1
  <2>1. Logged = << e >> /\ Logged \in Seq(Event)
    BY <1>2, LoggedType DEF Logged, LogEvent
  <2>2. /\ e.id = (IF parsed THEN current ELSE Nobody)
        /\ parsed => e = [id |-> current, operation |-> request[current].op,
                           result |-> response.status]
    OBVIOUS
  <2> HIDE DEF e
  <2>3. /\ Len(telemetry') = n
        /\ \A i \in 1..Len(telemetry) : telemetry'[i] = telemetry[i]
        /\ telemetry'[n] = e
    <3>1. Len(<< e >>) = 1 /\ << e >>[1] = e
      OBVIOUS
    <3>2. /\ Len(telemetry') = Len(telemetry) + Len(<< e >>)
          /\ \A i \in 1..(Len(telemetry) + Len(<< e >>)) :
               telemetry'[i] = IF i <= Len(telemetry) THEN telemetry[i]
                                                      ELSE << e >>[i - Len(telemetry)]
      BY <1>1, <2>1, ConcatProperties
    <3>3. n - Len(telemetry) = 1 /\ n \in 1..n /\ ~ n <= Len(telemetry)
      BY <1>1
    <3>4. telemetry'[n] = << e >>[1]
      BY <3>1, <3>2, <3>3
    <3>5. \A i \in 1..Len(telemetry) : telemetry'[i] = telemetry[i]
      BY <1>1, <3>1, <3>2
    <3> QED
      BY <3>1, <3>2, <3>4, <3>5
  <2>4. LinesOf(c)' = LinesOf(c) \union (IF e.id = c THEN {n} ELSE {})
    BY <1>1, <2>3 DEF LinesOf
  <2>5. e.id = c <=> parsed /\ c = current
    BY <2>2, NobodyAssumption
  <2> QED
    BY <1>2, <2>2, <2>3, <2>4, <2>5
<1>3. CASE ~ TelemetryOn
  <2>1. telemetry' = telemetry
    BY <1>1, <1>3, ConcatEmptySeq DEF Logged
  <2> QED
    BY <1>3, <2>1 DEF LinesOf
<1> QED
  BY <1>2, <1>3

\* The line says what was executed, and is the only one.
LEMMA LogEventAccount ==
  ASSUME ShapeInv, AccountInv, LogEvent
  PROVE  AccountInv'
<1>1. /\ pc = "log" /\ pc' = "close"
      /\ UNCHANGED <<received, executed, request, backlog, current, parsed, response>>
  BY DEF LogEvent, clientVars
<1>2. current \in Connections /\ LinesOf(current) = {} /\ Len(telemetry) \in Nat
  BY <1>1, LenProperties DEF ShapeInv, TypeOK, QueueInv, Serving, AccountInv
<1>3. \A c \in Connections : executed[c] = NotYet => LinesOf(c)' = {}
  <2> TAKE c \in Connections
  <2> HAVE executed[c] = NotYet
  <2>1. LinesOf(c) = {}
    BY <1>1 DEF AccountInv
  <2>2. ~ (parsed /\ c = current)
    BY <1>1, NoResponseAssumption DEF ShapeInv, TypeOK, AccountInv
  <2> QED
    BY <2>1, <2>2, LinesAppend
<1>4. ASSUME NEW c \in Connections, executed[c] # NotYet, c # current
      PROVE  Accounted(c)'
  <2>1. Accounted(c)
    BY <1>1, <1>4 DEF AccountInv
  <2>2. LinesOf(c)' = LinesOf(c) /\ \A i \in LinesOf(c) : telemetry'[i] = telemetry[i]
    BY <1>4, LinesAppend DEF LinesOf
  <2> QED
    BY <1>1, <2>1, <2>2 DEF Accounted, Line
<1>5. ASSUME NEW c \in Connections, executed[c] # NotYet, c = current
      PROVE  Accounted(c)'
  <2>1. parsed /\ executed[c] = response /\ received[c] = response /\ LinesOf(c) = {}
    BY <1>1, <1>5, <1>2 DEF AccountInv
  <2>2. TelemetryOn =>
          /\ LinesOf(c)' = {Len(telemetry) + 1}
          /\ telemetry'[Len(telemetry) + 1] =
               [id |-> current, operation |-> request[current].op,
                result |-> response.status]
    BY <1>5, <2>1, LinesAppend
  <2> QED
    BY <1>1, <1>5, <2>1, <2>2 DEF Accounted, Line
<1> QED
  BY <1>1, <1>3, <1>4, <1>5 DEF AccountInv

\* When the connection is closed, its request is accounted for.
LEMMA CloseConnectionAccount ==
  ASSUME ShapeInv, AccountInv, CloseConnection
  PROVE  AccountInv'
BY AccountedFrame DEF AccountInv, CloseConnection, clientVars

\* Counting changes no account.
LEMMA RecordMetricAccount ==
  ASSUME ShapeInv, AccountInv, RecordMetric
  PROVE  AccountInv'
BY AccountedFrame DEF ShapeInv, QueueInv, Serving, AccountInv, RecordMetric, clientVars

\* Nothing was executed at first.
LEMMA AccountInit == Init => AccountInv
BY DEF Init, AccountInv, LinesOf

\* Every step keeps the account.
LEMMA AccountNext == ShapeInv /\ AccountInv /\ [Next]_vars => AccountInv'
<1> SUFFICES ASSUME ShapeInv, AccountInv, [Next]_vars PROVE AccountInv'
  OBVIOUS
<1>1. CASE UNCHANGED vars
  BY <1>1, AccountFrame DEF vars, gatewayVars, clientVars
<1>2. CASE Terminate
  BY <1>2, AccountFrame DEF Terminate, Killed, Interrupted, Serving, clientVars
<1>3. CASE Boot \/ Bind \/ TestStopping \/ Block \/ AcceptFails \/ Cleanup \/ WriteSummary
  BY <1>3, AccountFrame
  DEF Boot, Bind, TestStopping, Block, AcceptFails, Cleanup, WriteSummary, Serving,
      clientVars
<1>4. CASE Accept
  BY <1>4, AcceptAccount
<1>5. CASE RecvHeader \/ RecvKey \/ RecvValue
  BY <1>5, ReadAccount
  DEF RecvHeader, RecvKey, RecvValue, Reject, Parsed, Continue, clientVars
<1>6. CASE Dispatch
  BY <1>6, DispatchAccount
<1>7. CASE SendResponse
  BY <1>7, SendResponseAccount
<1>8. CASE RecordMetric
  BY <1>8, RecordMetricAccount
<1>9. CASE LogEvent
  BY <1>9, LogEventAccount
<1>10. CASE CloseConnection
  BY <1>10, CloseConnectionAccount
<1>11. ASSUME NEW c \in Connections, Connect(c)
       PROVE  AccountInv'
  BY <1>11, ConnectAccount
<1>12. ASSUME NEW c \in Connections, Refused(c) \/ ClientProgress(c) \/ Die(c)
       PROVE  AccountInv'
  BY <1>12, AccountFrame
  DEF Refused, ClientProgress, Send, Receive, Die, gatewayVars
<1> QED
  BY <1>1, <1>2, <1>3, <1>4, <1>5, <1>6, <1>7, <1>8, <1>9, <1>10, <1>11, <1>12
  DEF Next, GatewayProgress

\* Whoever's request reached the backend is answered with what the backend
\* did, and logged once, in every run in which the gateway is not killed
\* (gateway.c serve).
THEOREM EveryEffectIsAccounted == Spec => []ExecutedIsAccounted
<1>1. AccountInv => ExecutedIsAccounted
  BY DEF AccountInv, ExecutedIsAccounted, Accounted, Line
<1> QED
  BY <1>1, ShapeInvariant, ShapeInit, AccountInit, ShapeNext, AccountNext, PTL DEF Spec

-----------------------------------------------------------------------------
(* Refinement: the gateway and its clients implement KVStore.              *)

\* The response is blank until the backend answers, and what a client was
\* sent is what the backend did.
RelayInv ==
  /\ pc \in {"header", "key", "value", "dispatch"} => response = BlankResponse
  /\ \A c \in Connections : received[c] # NotYet => received[c] = executed[c]

\* Nobody was sent anything at first.
LEMMA RelayInit == Init => RelayInv
BY DEF Init, RelayInv

\* A step that sends nothing keeps the response blank until dispatch.
LEMMA RelayFrame ==
  ASSUME RelayInv,
         UNCHANGED <<received, executed>>,
         \/ response' = response /\ (pc' \in {"header", "key", "value", "dispatch"} =>
                                      pc \in {"header", "key", "value", "dispatch"})
         \/ pc' \in {"header", "metric"} /\ (pc' = "header" => response' = BlankResponse)
  PROVE  RelayInv'
BY DEF RelayInv, BlankResponse

\* dispatch gives the response its content.
LEMMA DispatchRelay ==
  ASSUME ShapeInv, AccountInv, RelayInv, Dispatch
  PROVE  RelayInv'
<1>1. /\ current \in Connections /\ executed[current] = NotYet /\ pc' = "send"
      /\ received' = received /\ executed' = [executed EXCEPT ![current] = response']
  BY DEF ShapeInv, TypeOK, QueueInv, Serving, AccountInv, Dispatch
<1> QED
  BY <1>1 DEF ShapeInv, TypeOK, RelayInv

\* The response sent is the one dispatch made.
LEMMA SendResponseRelay ==
  ASSUME ShapeInv, AccountInv, RelayInv, SendResponse
  PROVE  RelayInv'
<1>1. /\ current \in Connections /\ executed[current] = response
      /\ executed' = executed /\ pc' \in {"metric", "killed"}
      /\ received' = received \/ received' = [received EXCEPT ![current] = response]
  BY DEF ShapeInv, TypeOK, QueueInv, Serving, AccountInv, SendResponse, Killed
<1> QED
  BY <1>1 DEF ShapeInv, TypeOK, RelayInv

\* Every step relays the result unchanged.
LEMMA RelayNext == ShapeInv /\ AccountInv /\ RelayInv /\ [Next]_vars => RelayInv'
<1> SUFFICES ASSUME ShapeInv, AccountInv, RelayInv, [Next]_vars PROVE RelayInv'
  OBVIOUS
<1>1. CASE UNCHANGED vars
  BY <1>1, RelayFrame DEF vars, gatewayVars
<1>2. CASE Terminate
  BY <1>2, RelayFrame DEF Terminate, Killed, Interrupted
<1>3. CASE Boot \/ Bind \/ TestStopping \/ Block \/ AcceptFails \/ Cleanup \/ WriteSummary
  BY <1>3, RelayFrame
  DEF Boot, Bind, TestStopping, Block, AcceptFails, Cleanup, WriteSummary
<1>4. CASE Accept
  BY <1>4, RelayFrame DEF Accept, FirstResponse
<1>5. CASE RecvHeader \/ RecvKey \/ RecvValue
  BY <1>5, RelayFrame DEF RecvHeader, RecvKey, RecvValue, Reject, Parsed, Continue
<1>6. CASE Dispatch
  BY <1>6, DispatchRelay
<1>7. CASE SendResponse
  BY <1>7, SendResponseRelay
<1>8. CASE RecordMetric \/ LogEvent \/ CloseConnection
  BY <1>8, RelayFrame DEF RecordMetric, LogEvent, CloseConnection
<1>9. ASSUME NEW c \in Connections,
             Connect(c) \/ Refused(c) \/ ClientProgress(c) \/ Die(c)
      PROVE  RelayInv'
  BY <1>9, RelayFrame
  DEF Connect, Refused, ClientProgress, Send, Receive, Die, gatewayVars
<1> QED
  BY <1>1, <1>2, <1>3, <1>4, <1>5, <1>6, <1>7, <1>8, <1>9 DEF Next, GatewayProgress

\* What the client of each connection has been told.
Told == [c \in Connections |-> IF peer[c] = "answered" THEN received[c] ELSE NotYet]

\* The gateway starts as the map does.
LEMMA KVInit == Init => KV!Init
BY DEF Init, KV!Init

\* A step that neither connects, dispatches nor receives is invisible.
LEMMA KVStutter ==
  ASSUME ShapeInv, UNCHANGED <<store, request, executed>>,
         \A c \in Connections :
           /\ peer'[c] = "answered" <=> peer[c] = "answered"
           /\ peer[c] = "answered" => received'[c] = received[c]
  PROVE  UNCHANGED KV!kvVars
<1>1. Told' = Told
  BY DEF Told
<1> QED
  BY <1>1 DEF KV!kvVars, Told

\* A connection makes a call.
LEMMA KVConnect ==
  ASSUME ShapeInv, NEW c \in Connections, Connect(c)
  PROVE  KV!Next
<1>1. PICK r \in Requests : request' = [request EXCEPT ![c] = r]
  BY DEF Connect
<1>2. Told' = Told
  BY DEF ShapeInv, TypeOK, Connect, Told
<1>3. KV!Make(c, r)
  BY <1>1, <1>2 DEF ShapeInv, QueueInv, Connect, Told, KV!Make
<1> QED
  BY <1>3 DEF KV!Next, Requests

\* dispatch is where a request takes effect.
LEMMA KVDispatch ==
  ASSUME ShapeInv, AccountInv, RelayInv, Dispatch
  PROVE  KV!Next
<1>1. /\ current \in Connections /\ executed[current] = NotYet
      /\ request[current] # NotYet /\ request[current].op # "MALFORMED"
      /\ response = BlankResponse
      /\ executed' = [executed EXCEPT ![current] = response']
      /\ UNCHANGED <<request, peer, received>>
  BY DEF ShapeInv, TypeOK, QueueInv, RequestInv, Serving, AccountInv, RelayInv, Dispatch,
         clientVars
<1>2. \A s, v : Answered(KV!Answer(s, v)) = KV!Answer(s, v)
  BY <1>1 DEF Answered, KV!Answer, BlankResponse
<1>3. Told' = Told
  BY <1>1 DEF Told
<1>4. Answered(KV!AnswerTo(store, request[current])) = KV!AnswerTo(store, request[current])
  <2>1. request[current] \in Requests
    BY <1>1 DEF ShapeInv, TypeOK
  <2>2. request[current].op \in {"PUT", "GET", "DELETE"}
    BY <1>1, <2>1 DEF Requests, KV!Request
  <2> QED
    BY <1>2, <2>2 DEF KV!AnswerTo
<1>5. CASE /\ response' = Answered(KV!AnswerTo(store, request[current]))
           /\ store' = KV!StoreAfter(store, request[current])
  <2>1. KV!TakeEffect(current)
    BY <1>1, <1>3, <1>4, <1>5 DEF KV!TakeEffect, Told
  <2> QED
    BY <1>1, <2>1 DEF KV!Next
<1>6. CASE /\ response' = Answered(KV!Answer("BACKEND_ERROR", NoValue))
           /\ UNCHANGED store
  <2>1. KV!Refuse(current)
    BY <1>1, <1>2, <1>3, <1>6 DEF KV!Refuse, Told
  <2> QED
    BY <1>1, <2>1 DEF KV!Next
<1> QED
  BY <1>5, <1>6 DEF Dispatch

\* A client is told what its request resulted in.
LEMMA KVReceive ==
  ASSUME ShapeInv, RelayInv, NEW c \in Connections, Receive(c)
  PROVE  KV!Next \/ UNCHANGED KV!kvVars
<1>1. UNCHANGED <<store, request, executed, received>>
  BY DEF Receive, gatewayVars
<1>2. CASE received[c] # NotYet /\ peer' = [peer EXCEPT ![c] = "answered"]
  <2>1. Told[c] = NotYet /\ executed[c] # NotYet /\ received[c] = executed[c]
    BY <1>2 DEF Receive, RelayInv, Told
  <2>2. Told' = [Told EXCEPT ![c] = executed[c]]
    BY <1>1, <1>2, <2>1 DEF ShapeInv, TypeOK, Told
  <2>3. KV!Tell(c)
    BY <1>1, <2>1, <2>2 DEF KV!Tell, Told
  <2> QED
    BY <2>3 DEF KV!Next
<1>3. CASE peer' = [peer EXCEPT ![c] = "failed"]
  BY <1>1, <1>3, KVStutter DEF Receive, ShapeInv, TypeOK
<1> QED
  BY <1>2, <1>3 DEF Receive

\* Every step is a step of the map or invisible in it.
LEMMA KVNext ==
  ShapeInv /\ AccountInv /\ RelayInv /\ [Next]_vars => [KV!Next]_KV!kvVars
<1> SUFFICES ASSUME ShapeInv, AccountInv, RelayInv, [Next]_vars
             PROVE  KV!Next \/ UNCHANGED KV!kvVars
  OBVIOUS
<1>1. CASE UNCHANGED vars
  BY <1>1, KVStutter DEF vars, gatewayVars, clientVars
<1>2. CASE Terminate
  BY <1>2, KVStutter DEF Terminate, clientVars
<1>3. CASE Boot \/ Bind \/ TestStopping \/ Accept \/ Block \/ AcceptFails \/ Cleanup
  BY <1>3, KVStutter
  DEF Boot, Bind, TestStopping, Accept, Block, AcceptFails, Cleanup, clientVars
<1>4. CASE RecvHeader \/ RecvKey \/ RecvValue \/ RecordMetric \/ LogEvent
           \/ CloseConnection \/ WriteSummary
  BY <1>4, KVStutter
  DEF RecvHeader, RecvKey, RecvValue, RecordMetric, LogEvent, CloseConnection, WriteSummary,
      clientVars
<1>5. CASE Dispatch
  BY <1>5, KVDispatch
<1>6. CASE SendResponse
  <2>1. current \in Connections /\ UNCHANGED <<store, request, executed, peer>>
    BY <1>6 DEF ShapeInv, TypeOK, QueueInv, Serving, SendResponse, clientVars
  <2>2. peer[current] = "open" \/ received' = received
    BY <1>6 DEF SendResponse
  <2>3. \A c \in Connections : c # current => received'[c] = received[c]
    BY <1>6 DEF ShapeInv, TypeOK, SendResponse
  <2> QED
    BY <2>1, <2>2, <2>3, KVStutter
<1>7. ASSUME NEW c \in Connections, Connect(c)
      PROVE  KV!Next
  BY <1>7, KVConnect
<1>8. ASSUME NEW c \in Connections, Receive(c)
      PROVE  KV!Next \/ UNCHANGED KV!kvVars
  BY <1>8, KVReceive
<1>9. ASSUME NEW c \in Connections, Refused(c) \/ Send(c) \/ Die(c)
      PROVE  UNCHANGED KV!kvVars
  <2>1. UNCHANGED <<store, request, executed, received>>
    BY <1>9 DEF Refused, Send, Die, gatewayVars
  <2>2. \A d \in Connections : peer'[d] = "answered" <=> peer[d] = "answered"
    BY <1>9 DEF ShapeInv, TypeOK, Refused, Send, Die
  <2> QED
    BY <2>1, <2>2, KVStutter
<1> QED
  BY <1>1, <1>2, <1>3, <1>4, <1>5, <1>6, <1>7, <1>8, <1>9
  DEF Next, GatewayProgress, ClientProgress

\* The clients of the gateway see one map on which requests take effect one at
\* a time and at most once, and are told nothing but what took effect
\* (gateway.c serve and dispatch).
THEOREM Refinement == Spec => ImplementsKVStore
<1>1. Init => ShapeInv /\ AccountInv /\ RelayInv /\ KV!Init
  BY ShapeInit, AccountInit, RelayInit, KVInit
<1>2. ShapeInv /\ AccountInv /\ RelayInv /\ [Next]_vars
        => ShapeInv' /\ AccountInv' /\ RelayInv'
  BY ShapeNext, AccountNext, RelayNext
<1> QED
  BY <1>1, <1>2, KVNext, PTL DEF Spec, ImplementsKVStore, KV!Spec

=============================================================================
