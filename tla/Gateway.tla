------------------------------- MODULE Gateway -------------------------------
(***************************************************************************)
(* The gateway process, src/gateway/gateway.c, with the request side of    *)
(* src/common/protocol.c and the clients of src/client: one thread that    *)
(* accepts connections on a Unix socket and serves one request on each,    *)
(* until a signal tells it to stop.                                        *)
(*                                                                         *)
(* Every connection is one run of a client: it connects, writes the chunks *)
(* of one request (header, key, value), reads one response and closes; it  *)
(* may die, or write to and read from a connection that is already closed, *)
(* at any point.  signal() has its System V meaning, as the compiler flags *)
(* of the Makefile (-std=c11, _POSIX_C_SOURCE) select it: the handler is   *)
(* reset by the first signal, and accept() is not restarted.               *)
(***************************************************************************)
EXTENDS Naturals, Sequences, FiniteSets

CONSTANTS
  Connections,   \* one identity per connection
  Keys,          \* keys
  Values,        \* values
  EmptyValue,    \* the value of length 0, which has no chunk of its own
  NoValue,       \* no object under a key; no value in a response
  NotYet,        \* no request, no result, no response yet
  NoSummary,     \* the summary file does not exist
  Nobody,        \* no connection is being served
  Backlog,       \* the backlog of listen(), 32 in the code
  FirstCapacity, \* first size of the latency array, 1024 in the code
  MaxSignals,    \* bound on the signals sent
  TelemetryOn    \* started without --no-telemetry

ASSUME BacklogAssumption == Backlog \in Nat \ {0}
ASSUME FirstCapacityAssumption == FirstCapacity \in Nat \ {0}
ASSUME MaxSignalsAssumption == MaxSignals \in Nat
ASSUME TelemetryAssumption == TelemetryOn \in BOOLEAN
ASSUME ValuesAssumption == NoValue \notin Values
ASSUME NobodyAssumption == Nobody \notin Connections

VARIABLES
  pc,            \* where the gateway is in main and serve
  stopping,      \* the flag stop_handler sets
  handler,       \* whether stop_handler is installed
  signals,       \* signals sent so far
  unseen,        \* history: the first signal came between the test and accept()
  backlog,       \* connections made and not yet accepted, oldest first
  current,       \* the connection being served
  parsed,        \* the local of that name in serve
  response,      \* the response being built
  store,         \* what the backend holds
  metrics,       \* struct request_metrics
  telemetry,     \* the lines of the telemetry file
  summary,       \* the summary file
  hungup,        \* connections the gateway's side has closed
  peer,          \* where the client of each connection is
  request,       \* what each client asks for
  sent,          \* chunks each client has written
  received,      \* the response in each client's receive buffer
  executed       \* history: the result of each request given to the backend

gatewayVars == <<pc, stopping, handler, backlog, current, parsed, response,
                 store, metrics, telemetry, summary, executed>>
clientVars == <<peer, request, sent>>
vars == <<gatewayVars, signals, unseen, hungup, received, clientVars>>

-----------------------------------------------------------------------------
(* The storage, and what the clients may think of it. *)

KV == INSTANCE KVStore
        WITH Calls   <- Connections,
             call    <- request,
             outcome <- executed,
             answer  <- [c \in Connections |->
                           IF peer[c] = "answered" THEN received[c] ELSE NotYet]

Requests == KV!Request

Chunks(r) == IF r.op = "PUT" /\ r.value # EmptyValue THEN 3 ELSE 2

Statuses == {"OK", "NOT_FOUND", "BACKEND_ERROR", "PROTOCOL_ERROR"}

ASSUME NotYetAssumption == NotYet \notin Requests

Responses == [status : Statuses, value : Values \union {NoValue}]

ASSUME NoResponseAssumption == NotYet \notin Responses

BlankResponse == KV!Answer("OK", NoValue)

Event == [id : Connections \union {Nobody}, operation : {"PUT", "GET", "DELETE", "REJECT"},
          result : Statuses]

ASSUME NoSummaryAssumption == NoSummary \notin [requests : Nat, errors : Nat]

Errors(events) == Cardinality({i \in 1..Len(events) : events[i].result # "OK"})

\* The objects of the OP-TEE back end outlive a gateway; those of the mock
\* back end do not, and it starts with none.
Init ==
  /\ pc = "boot"
  /\ stopping = FALSE
  /\ handler = FALSE
  /\ signals = 0
  /\ unseen = FALSE
  /\ backlog = << >>
  /\ current = Nobody
  /\ parsed = FALSE
  /\ response = BlankResponse
  /\ store \in [Keys -> Values \union {NoValue}]
  /\ metrics = [count |-> 0, capacity |-> 0, errors |-> 0, allocation_failed |-> FALSE]
  /\ telemetry = << >>
  /\ summary = NoSummary
  /\ hungup = {}
  /\ peer = [c \in Connections |-> "new"]
  /\ request = [c \in Connections |-> NotYet]
  /\ sent = [c \in Connections |-> 0]
  /\ received = [c \in Connections |-> NotYet]
  /\ executed = [c \in Connections |-> NotYet]

-----------------------------------------------------------------------------
(* Clients.  The socket exists from bind() to the end of serve(). *)

Listening == pc \notin {"boot", "bind", "summary", "exited", "killed"}

Connect(c) ==
  /\ peer[c] = "new"
  /\ Listening
  /\ Len(backlog) < Backlog
  /\ \E r \in Requests : request' = [request EXCEPT ![c] = r]
  /\ peer' = [peer EXCEPT ![c] = "open"]
  /\ backlog' = Append(backlog, c)
  /\ UNCHANGED <<pc, stopping, handler, signals, unseen, current, parsed, response, store,
                 metrics, telemetry, summary, hungup, sent, received, executed>>

\* connect() is refused: the client gives up.
Refused(c) ==
  /\ peer[c] = "new"
  /\ ~ Listening
  /\ peer' = [peer EXCEPT ![c] = "failed"]
  /\ UNCHANGED <<gatewayVars, signals, unseen, hungup, received, request, sent>>

Send(c) ==
  /\ peer[c] = "open"
  /\ sent[c] < Chunks(request[c])
  /\ IF c \in hungup
     THEN peer' = [peer EXCEPT ![c] = "dead"] /\ UNCHANGED sent   \* SIGPIPE
     ELSE sent' = [sent EXCEPT ![c] = @ + 1] /\ UNCHANGED peer
  /\ UNCHANGED <<gatewayVars, signals, unseen, hungup, received, request>>

Receive(c) ==
  /\ peer[c] = "open"
  /\ sent[c] = Chunks(request[c])
  /\ \/ received[c] # NotYet /\ peer' = [peer EXCEPT ![c] = "answered"]
     \/ /\ received[c] = NotYet /\ c \in hungup
        /\ peer' = [peer EXCEPT ![c] = "failed"]
  /\ UNCHANGED <<gatewayVars, signals, unseen, hungup, received, request, sent>>

\* The client is killed, or closes without reading as the malformed
\* workload does.
Die(c) ==
  /\ peer[c] = "open"
  /\ peer' = [peer EXCEPT ![c] = "dead"]
  /\ UNCHANGED <<gatewayVars, signals, unseen, hungup, received, request, sent>>

-----------------------------------------------------------------------------
(* The gateway. *)

\* The process ends without any code of its own running.
Killed ==
  /\ pc' = "killed"
  /\ hungup' = {c \in Connections : request[c] # NotYet}
  /\ backlog' = << >>
  /\ current' = Nobody

\* Slip: accept() is called again without testing the flag.
AcceptRestarted == "blocked"

\* Where a signal sends a sleeping accept(): EINTR, continue, test.
Interrupted == "test"

\* SIGTERM or SIGINT: stop_handler once, the default action afterwards.
Terminate ==
  /\ signals < MaxSignals
  /\ pc \notin {"exited", "killed"}
  /\ signals' = signals + 1
  /\ IF handler
     THEN /\ stopping' = TRUE
          /\ handler' = FALSE
          /\ pc' = IF pc = "blocked" THEN Interrupted ELSE pc
          /\ unseen' = (pc = "accept")
          /\ UNCHANGED <<backlog, current, hungup>>
     ELSE Killed /\ UNCHANGED <<stopping, handler, unseen>>
  /\ UNCHANGED <<parsed, response, store, metrics, telemetry, summary, received,
                 clientVars, executed>>

\* main: the backend and the telemetry file are opened, the handlers set.
Boot ==
  /\ pc = "boot"
  /\ \/ pc' = "bind" /\ handler' = TRUE
     \/ pc' = "exited" /\ UNCHANGED handler
  /\ UNCHANGED <<stopping, signals, unseen, backlog, current, parsed, response, store, metrics,
                 telemetry, summary, hungup, received, clientVars, executed>>

\* serve: the socket is bound; failing that, main goes on to the summary.
Bind ==
  /\ pc = "bind"
  /\ pc' \in {"test", "summary"}
  /\ UNCHANGED <<stopping, handler, signals, unseen, backlog, current, parsed, response, store,
                 metrics, telemetry, summary, hungup, received, clientVars, executed>>

TestStopping ==
  /\ pc = "test"
  /\ pc' = IF stopping THEN "cleanup" ELSE "accept"
  /\ UNCHANGED <<stopping, handler, signals, unseen, backlog, current, parsed, response, store,
                 metrics, telemetry, summary, hungup, received, clientVars, executed>>

\* Slip: the response starts with a status of its own.
UnansweredResponse(old) == KV!Answer("INVALID", NoValue)

\* Slip: the response is not cleared between two requests.
FirstResponseOf(old) == old

FirstResponse(old) == BlankResponse

\* accept() returns the oldest connection, ...
Accept ==
  /\ pc \in {"accept", "blocked"}
  /\ backlog # << >>
  /\ current' = Head(backlog)
  /\ backlog' = Tail(backlog)
  /\ response' = FirstResponse(response)
  /\ pc' = "header"
  /\ UNCHANGED <<stopping, handler, signals, unseen, parsed, store, metrics, telemetry, summary,
                 hungup, received, clientVars, executed>>

\* ... sleeps until there is one, whatever stopping says by now, ...
Block ==
  /\ pc = "accept"
  /\ backlog = << >>
  /\ pc' = "blocked"
  /\ UNCHANGED <<stopping, handler, signals, unseen, backlog, current, parsed, response, store,
                 metrics, telemetry, summary, hungup, received, clientVars, executed>>

\* ... or fails, which ends the loop.
AcceptFails ==
  /\ pc \in {"accept", "blocked"}
  /\ pc' = "cleanup"
  /\ UNCHANGED <<stopping, handler, signals, unseen, backlog, current, parsed, response, store,
                 metrics, telemetry, summary, hungup, received, clientVars, executed>>

\* read_full: the n-th chunk is there, or the client closed before it.
Arrived(n) == sent[current] >= n

Truncated(n) == sent[current] < n /\ peer[current] # "open"

Reject ==
  /\ parsed' = FALSE
  /\ response' = [response EXCEPT !.status = "PROTOCOL_ERROR"]
  /\ pc' = "metric"

Parsed ==
  /\ parsed' = TRUE
  /\ pc' = "dispatch"
  /\ UNCHANGED response

Continue(next) ==
  /\ pc' = next
  /\ UNCHANGED <<parsed, response>>

\* c3m_recv_request: the header, and the checks on it.
RecvHeader ==
  /\ pc = "header"
  /\ \/ Arrived(1) /\ request[current].op # "MALFORMED" /\ Continue("key")
     \/ Arrived(1) /\ request[current].op = "MALFORMED" /\ Reject
     \/ Truncated(1) /\ Reject
  /\ UNCHANGED <<stopping, handler, signals, unseen, backlog, current, store, metrics, telemetry,
                 summary, hungup, received, clientVars, executed>>

\* Slip: the value is not waited for.
LastChunkIsKey(r) == TRUE

LastChunk(r) == Chunks(r) = 2

RecvKey ==
  /\ pc = "key"
  /\ \/ Arrived(2) /\ LastChunk(request[current]) /\ Parsed
     \/ Arrived(2) /\ ~ LastChunk(request[current]) /\ Continue("value")
     \/ Truncated(2) /\ Reject
  /\ UNCHANGED <<stopping, handler, signals, unseen, backlog, current, store, metrics, telemetry,
                 summary, hungup, received, clientVars, executed>>

RecvValue ==
  /\ pc = "value"
  /\ \/ Arrived(3) /\ Parsed
     \/ Truncated(3) /\ Reject
  /\ UNCHANGED <<stopping, handler, signals, unseen, backlog, current, store, metrics, telemetry,
                 summary, hungup, received, clientVars, executed>>

\* dispatch: the value of the response is set only where a GET finds one.
Answered(a) ==
  [status |-> a.status, value |-> IF a.value = NoValue THEN response.value ELSE a.value]

Dispatch ==
  /\ pc = "dispatch"
  /\ LET r == request[current]
     IN  \/ /\ response' = Answered(KV!AnswerTo(store, r))
            /\ store' = KV!StoreAfter(store, r)
         \/ /\ response' = Answered(KV!Answer("BACKEND_ERROR", NoValue))
            /\ UNCHANGED store
  /\ executed' = [executed EXCEPT ![current] = response']
  /\ pc' = "send"
  /\ UNCHANGED <<stopping, handler, signals, unseen, backlog, current, parsed, metrics, telemetry,
                 summary, hungup, received, clientVars>>

\* c3m_send_response: writing to a client that is gone raises SIGPIPE, which
\* nobody handles.
SendResponse ==
  /\ pc = "send"
  /\ IF peer[current] = "open"
     THEN /\ received' = [received EXCEPT ![current] = response]
          /\ pc' = "metric"
          /\ UNCHANGED <<backlog, current, hungup>>
     ELSE Killed /\ UNCHANGED received
  /\ UNCHANGED <<stopping, handler, signals, unseen, parsed, response, store, metrics, telemetry,
                 summary, clientVars, executed>>

\* record_metric: the latency array grows by doubling.
Grown(m) ==
  IF m.count < m.capacity THEN m
  ELSE [m EXCEPT !.capacity = IF @ = 0 THEN FirstCapacity ELSE 2 * @]

WithError(m, status) == [m EXCEPT !.errors = IF status = "OK" THEN @ ELSE @ + 1]

Counted(m, status) == [Grown(WithError(m, status)) EXCEPT !.count = @ + 1]

RecordMetric ==
  /\ pc = "metric"
  /\ \/ metrics' = Counted(metrics, response.status)
     \/ /\ metrics.count = metrics.capacity      \* realloc() fails
        /\ metrics' = [WithError(metrics, response.status) EXCEPT !.allocation_failed = TRUE]
  /\ pc' = "log"
  /\ UNCHANGED <<stopping, handler, signals, unseen, backlog, current, parsed, response, store,
                 telemetry, summary, hungup, received, clientVars, executed>>

\* Slip: only requests that succeed are logged with their client.
LoggedOnSuccess == IF parsed /\ response.status = "OK"
  THEN << [id |-> current, operation |-> request[current].op, result |-> response.status] >>
  ELSE << [id |-> Nobody, operation |-> "REJECT", result |-> response.status] >>

Logged ==
  IF ~ TelemetryOn THEN << >>
  ELSE IF parsed
  THEN << [id |-> current, operation |-> request[current].op, result |-> response.status] >>
  ELSE << [id |-> Nobody, operation |-> "REJECT", result |-> response.status] >>

LogEvent ==
  /\ pc = "log"
  /\ telemetry' = telemetry \o Logged
  /\ pc' = "close"
  /\ UNCHANGED <<stopping, handler, signals, unseen, backlog, current, parsed, response, store,
                 metrics, summary, hungup, received, clientVars, executed>>

\* Slip: the connection of a rejected request is never closed.
ClosedWhenParsed == IF parsed THEN {current} ELSE {}

Closed == {current}

CloseConnection ==
  /\ pc = "close"
  /\ hungup' = hungup \union Closed
  /\ current' = Nobody
  /\ pc' = "test"
  /\ UNCHANGED <<stopping, handler, signals, unseen, backlog, parsed, response, store, metrics,
                 telemetry, summary, received, clientVars, executed>>

\* The end of serve: closing the listener resets what was never accepted.
Cleanup ==
  /\ pc = "cleanup"
  /\ hungup' = hungup \union {backlog[i] : i \in 1..Len(backlog)}
  /\ backlog' = << >>
  /\ pc' = "summary"
  /\ UNCHANGED <<stopping, handler, signals, unseen, current, parsed, response, store, metrics,
                 telemetry, summary, received, clientVars, executed>>

\* Slip: a summary that misses requests is written all the same.
MayAlwaysSummarise(m) == TRUE

MaySummarise(m) == ~ m.allocation_failed

\* write_summary, or its failure to write the file.
WriteSummary ==
  /\ pc = "summary"
  /\ \/ /\ MaySummarise(metrics)
        /\ summary' = [requests |-> metrics.count, errors |-> metrics.errors]
     \/ UNCHANGED summary
  /\ pc' = "exited"
  /\ UNCHANGED <<stopping, handler, signals, unseen, backlog, current, parsed, response, store,
                 metrics, telemetry, hungup, received, clientVars, executed>>

\* What the scheduler owes the gateway; accept() owes nobody a failure.
GatewayProgress ==
  \/ Boot \/ Bind \/ TestStopping
  \/ Accept \/ Block
  \/ RecvHeader \/ RecvKey \/ RecvValue
  \/ Dispatch \/ SendResponse
  \/ RecordMetric \/ LogEvent \/ CloseConnection
  \/ Cleanup \/ WriteSummary

ClientProgress(c) == Send(c) \/ Receive(c)

Next ==
  \/ GatewayProgress
  \/ AcceptFails
  \/ Terminate
  \/ \E c \in Connections : Connect(c) \/ Refused(c) \/ ClientProgress(c) \/ Die(c)

Spec == Init /\ [][Next]_vars

\* The gateway runs whenever it can, and no client stalls: it writes the rest
\* of its request and reads the answer, unless it dies.
LiveSpec ==
  /\ Spec
  /\ WF_vars(GatewayProgress)
  /\ \A c \in Connections : WF_vars(ClientProgress(c))

-----------------------------------------------------------------------------
(* Properties *)

TypeOK ==
  /\ pc \in {"boot", "bind", "test", "accept", "blocked", "header", "key", "value",
             "dispatch", "send", "metric", "log", "close", "cleanup", "summary",
             "exited", "killed"}
  /\ stopping \in BOOLEAN
  /\ handler \in BOOLEAN
  /\ signals \in 0..MaxSignals
  /\ unseen \in BOOLEAN
  /\ backlog \in Seq(Connections)
  /\ current \in Connections \union {Nobody}
  /\ parsed \in BOOLEAN
  /\ response \in Responses
  /\ store \in [Keys -> Values \union {NoValue}]
  /\ metrics \in [count : Nat, capacity : Nat, errors : Nat, allocation_failed : BOOLEAN]
  /\ telemetry \in Seq(Event)
  /\ summary \in [requests : Nat, errors : Nat] \union {NoSummary}
  /\ hungup \subseteq Connections
  /\ peer \in [Connections -> {"new", "open", "answered", "failed", "dead"}]
  /\ request \in [Connections -> Requests \union {NotYet}]
  /\ sent \in [Connections -> 0..3]
  /\ received \in [Connections -> Responses \union {NotYet}]
  /\ executed \in [Connections -> Responses \union {NotYet}]

\* The summary counts the requests and errors of the telemetry file
\* (gateway.c record_metric, log_event and write_summary are separate calls,
\* and record_metric may fail to count).
SummaryMatchesTelemetry ==
  TelemetryOn /\ summary # NoSummary =>
    /\ summary.requests = Len(telemetry)
    /\ summary.errors = Errors(telemetry)

LinesOf(c) == {i \in 1..Len(telemetry) : telemetry[i].id = c}

\* A gateway that was not killed has sent a response to, and written exactly
\* one telemetry line about, every request it gave to the backend and is done
\* with; line and response say what the backend did (gateway.c serve).
ExecutedIsAccounted ==
  \A c \in Connections :
    executed[c] # NotYet /\ c # current /\ pc # "killed" =>
      /\ received[c] = executed[c]
      /\ TelemetryOn =>
           \E i \in LinesOf(c) :
             /\ LinesOf(c) = {i}
             /\ telemetry[i].operation = request[c].op
             /\ telemetry[i].result = executed[c].status

\* The backend sees no request that is malformed or not completely received
\* (gateway.c serve calls dispatch only after c3m_recv_request).
OnlyCompleteRequestsExecute ==
  \A c \in Connections :
    executed[c] # NotYet =>
      /\ request[c].op # "MALFORMED"
      /\ sent[c] = Chunks(request[c])

\* Clients see one shared map, on which their requests take effect one at a
\* time, whole and at most once (gateway.c serve and dispatch).
ImplementsKVStore == KV!Spec

\* Nobody who connects waits for ever (gateway.c serve answers or closes
\* every connection, also when it stops with connections in its backlog).
EveryConnectionEnds == \A c \in Connections : peer[c] = "open" ~> peer[c] # "open"

\* A stop request makes the gateway exit, unless it comes between the test of
\* the flag and accept() (gateway.c serve: the signal interrupts accept(), and
\* a request in progress is served first).
StopsWhenSeen == stopping /\ ~ unseen ~> pc \in {"exited", "killed"}

\* A stop request makes the gateway exit.
SigtermStops == stopping ~> pc \in {"exited", "killed"}

=============================================================================
