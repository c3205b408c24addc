---------------------------- MODULE MockGateway ----------------------------
(***************************************************************************)
(* The Python gateway, cote3mon/mock_gateway.py, and the smoke experiment  *)
(* that runs one after the other on one socket path and one telemetry      *)
(* file, cote3mon/experiment.py.  Each gateway is a thread; its only       *)
(* client is the main thread, which makes the calls of a scenario one by   *)
(* one, gives up on an answer after a while, and stops the gateway without *)
(* insisting: a thread that does not end in time is left behind and goes   *)
(* on beside the next one.                                                 *)
(***************************************************************************)
EXTENDS Naturals, Sequences, FiniteSets

CONSTANTS
  Runs,          \* how many gateways the experiment runs, one after the other
  MaxCalls,      \* bound on the calls of a run; its deadline is reached by then
  Backlog,       \* connections the kernel queues for a listener
  Keys, Values,  \* object identifiers and contents
  Absent,        \* a key that no scenario creates
  Scenarios,     \* the scenarios the experiment goes through
  NoValue, NotYet, Nobody

ASSUME RunsAssumption == Runs \in Nat \ {0} /\ MaxCalls \in Nat /\ Backlog \in Nat
ASSUME KeysAssumption == Absent \in Keys /\ NoValue \notin Values

\* ALL_SCENARIOS of cote3mon/workload.py.
ASSUME ScenariosAssumption ==
  Scenarios \subseteq {"steady", "bursty", "large_value", "flood", "replay", "error_storm", "malformed"}

Run == 1..Runs
Call == 1..MaxCalls

VARIABLES
  main,          \* where the main thread is
  run,           \* the run it is at
  scenario,      \* the scenario of each run
  count,         \* calls made in each run: request_id
  call,          \* what each call asks for
  outcome,       \* history: what each call resulted in when it took effect
  reply,         \* what the gateway has written to the connection of a call
  answer,        \* what the client has read
  hungUp,        \* the connections the gateway has closed
  thread,        \* where the thread of each gateway is
  handling,      \* the call it serves
  status,        \* status, as _handle has it
  backlog,       \* the connections waiting in each listener
  stopping,      \* the gateways whose _stop is set
  closed,        \* the gateways whose listener is closed
  path,          \* the gateway whose socket is at socket_path
  storage,       \* the objects of each gateway
  telemetry,     \* the lines of the telemetry file
  failing,       \* whether an exception is on its way out of the workload
  gaveUp,        \* the gateways whose thread did not end in time
  harvest        \* the lines the features were computed from

client == <<main, run, scenario, count, call, answer, failing, gaveUp, harvest>>
server == <<thread, handling, status, outcome, reply, hungUp, storage, telemetry>>
shared == <<backlog, stopping, closed, path>>
vars == <<client, server, shared>>

Init ==
  /\ main = "start" /\ run = 1
  /\ scenario = [r \in Run |-> NotYet] /\ count = [r \in Run |-> 0]
  /\ call = [r \in Run |-> [c \in Call |-> NotYet]]
  /\ outcome = call /\ reply = call /\ answer = call
  /\ hungUp = [r \in Run |-> {}]
  /\ thread = [r \in Run |-> "none"]
  /\ handling = count /\ status = scenario
  /\ backlog = [r \in Run |-> << >>]
  /\ stopping = {} /\ closed = {} /\ path = Nobody
  /\ storage = [r \in Run |-> [k \in Keys |-> NoValue]]
  /\ telemetry = << >>
  /\ failing = FALSE /\ gaveUp = {} /\ harvest = NotYet

Response(s, v) == [status |-> s, value |-> v]

Requests ==
  [op : {"PUT"}, key : Keys, value : Values]
  \union [op : {"GET", "DELETE"}, key : Keys]
  \union [op : {"MALFORMED"}]

Responses == [status : {"OK", "NOT_FOUND"}, value : Values \union {NoValue}]

ASSUME NotYetAssumption == NotYet \notin Requests \union Responses

-----------------------------------------------------------------------------
(* The workload: what a scenario asks for with its n-th request.           *)

Put(k, v) == [op |-> "PUT", key |-> k, value |-> v]
Get(k) == [op |-> "GET", key |-> k]
Delete(k) == [op |-> "DELETE", key |-> k]

Asks(s, n, k, v) ==
  CASE s = "steady" -> (CASE n % 4 = 0 -> Put(k, v)
                          [] n % 4 \in {1, 2} -> Get(k)
                          [] n % 4 = 3 -> Delete(k))
    [] s \in {"bursty", "large_value", "flood", "replay"} -> Put(k, v)
    [] s = "error_storm" -> Get(Absent)
    [] s = "malformed" -> [op |-> "MALFORMED"]

Current == count[run]
Asked == call[run][Current]

\* The main thread has the connection of call c of run r open.
ClientOpen(r, c) == r = run /\ c = count[r] /\ main \in {"send", "wait"}
Sent(r, c) == ~(ClientOpen(r, c) /\ main = "send")

-----------------------------------------------------------------------------
(* The main thread: MockGateway.start, run_workload, MockGateway.stop.     *)

StartGateway ==
  /\ main = "start"
  /\ main' = "ready"
  /\ \E s \in Scenarios : scenario' = [scenario EXCEPT ![run] = s]
  /\ path' = Nobody
  /\ thread' = [thread EXCEPT ![run] = "born"]
  /\ UNCHANGED <<run, count, call, answer, failing, gaveUp, harvest, handling, status,
                 outcome, reply, hungUp, storage, telemetry, backlog, stopping, closed>>

Ready ==
  /\ main = "ready"
  /\ thread[run] # "born"
  /\ main' = "work"
  /\ UNCHANGED <<run, scenario, count, call, answer, failing, gaveUp, harvest, server, shared>>

\* Not ready within five seconds: __enter__ raises, so __exit__ is not called.
StartTimesOut ==
  /\ main = "ready"
  /\ thread[run] = "born"
  /\ main' = "failed"
  /\ UNCHANGED <<run, scenario, count, call, answer, failing, gaveUp, harvest, server, shared>>

Connect ==
  /\ main = "work"
  /\ Current < MaxCalls
  /\ Len(backlog[run]) <= Backlog
  /\ main' = "send"
  /\ count' = [count EXCEPT ![run] = @ + 1]
  /\ \E k \in Keys \ {Absent}, v \in Values :
       call' = [call EXCEPT ![run][Current + 1] = Asks(scenario[run], Current + 1, k, v)]
  /\ backlog' = [backlog EXCEPT ![path] = Append(@, Current + 1)]
  /\ UNCHANGED <<run, scenario, answer, failing, gaveUp, harvest, server, stopping, closed, path>>

\* The backlog is full of abandoned malformed requests.
ConnectTimesOut ==
  /\ main = "work"
  /\ Len(backlog[run]) > Backlog
  /\ main' = "stop" /\ failing' = TRUE
  /\ UNCHANGED <<run, scenario, count, call, answer, gaveUp, harvest, server, shared>>

Send ==
  /\ main = "send"
  /\ main' = "wait"
  /\ UNCHANGED <<run, scenario, count, call, answer, failing, gaveUp, harvest, server, shared>>

\* call: the response is read and its identifier compared.
Receive ==
  /\ main = "wait"
  /\ reply[run][Current] # NotYet
  /\ answer' = [answer EXCEPT ![run][Current] = reply[run][Current]]
  /\ main' = "work"
  /\ UNCHANGED <<run, scenario, count, call, failing, gaveUp, harvest, server, shared>>

\* _malformed: the gateway has hung up, or has not within a fifth of a second.
GoOn ==
  /\ main = "wait"
  /\ Asked.op = "MALFORMED"
  /\ main' = "work"
  /\ UNCHANGED <<run, scenario, count, call, answer, failing, gaveUp, harvest, server, shared>>

\* call: no response within five seconds; the connection is closed.
TimesOut ==
  /\ main = "wait"
  /\ Asked.op # "MALFORMED"
  /\ reply[run][Current] = NotYet
  /\ main' = "stop" /\ failing' = TRUE
  /\ UNCHANGED <<run, scenario, count, call, answer, gaveUp, harvest, server, shared>>

Deadline ==
  /\ main = "work"
  /\ main' = "stop"
  /\ UNCHANGED <<run, scenario, count, call, answer, failing, gaveUp, harvest, server, shared>>

Stop ==
  /\ main = "stop"
  /\ main' = "close"
  /\ stopping' = stopping \union {run}
  /\ UNCHANGED <<run, scenario, count, call, answer, failing, gaveUp, harvest, server,
                 backlog, closed, path>>

\* What is still in the backlog is dropped.
CloseListener ==
  /\ main = "close"
  /\ main' = "join"
  /\ closed' = closed \union {run}
  /\ backlog' = [backlog EXCEPT ![run] = << >>]
  /\ UNCHANGED <<run, scenario, count, call, answer, failing, gaveUp, harvest, server,
                 stopping, path>>

\* Slip: stop does not wait for the thread.
JoinSlip ==
  /\ main = "join"
  /\ main' = "unlink"
  /\ UNCHANGED <<run, scenario, count, call, answer, failing, gaveUp, harvest, server, shared>>

\* Slip: join has no timeout.
JoinForeverSlip ==
  /\ main = "join"
  /\ thread[run] = "gone"
  /\ main' = "unlink"
  /\ UNCHANGED <<run, scenario, count, call, answer, failing, gaveUp, harvest, server, shared>>

\* join(timeout=5.0): whether the thread has ended is not asked.
Join ==
  /\ main = "join"
  /\ main' = "unlink"
  /\ gaveUp' = IF thread[run] = "gone" THEN gaveUp ELSE gaveUp \union {run}
  /\ UNCHANGED <<run, scenario, count, call, answer, failing, harvest, server, shared>>

Unlink ==
  /\ main = "unlink"
  /\ path' = Nobody
  /\ main' = IF failing THEN "failed" ELSE IF run = Runs THEN "harvest" ELSE "start"
  /\ run' = IF main' = "start" THEN run + 1 ELSE run
  /\ UNCHANGED <<scenario, count, call, answer, failing, gaveUp, harvest, server,
                 backlog, stopping, closed>>

\* aggregate_events(read_jsonl([telemetry]))
Harvest ==
  /\ main = "harvest"
  /\ harvest' = telemetry
  /\ main' = "done"
  /\ UNCHANGED <<run, scenario, count, call, answer, failing, gaveUp, server, shared>>

MainStep ==
  \/ StartGateway \/ Ready \/ StartTimesOut
  \/ Connect \/ ConnectTimesOut \/ Send \/ Receive \/ GoOn \/ TimesOut \/ Deadline
  \/ Stop \/ CloseListener \/ Join \/ Unlink \/ Harvest

-----------------------------------------------------------------------------
(* The thread of gateway r: MockGateway._serve and _handle.                *)

\* The threads are daemons: they end with the main thread.
At(r, pc) == main \notin {"done", "failed"} /\ thread[r] = pc

Goes(r, pc) == thread' = [thread EXCEPT ![r] = pc]

Bind(r) ==
  /\ At(r, "born")
  /\ path = Nobody
  /\ path' = r
  /\ Goes(r, "loop")
  /\ UNCHANGED <<client, handling, status, outcome, reply, hungUp, storage, telemetry,
                 backlog, stopping, closed>>

TestStop(r) ==
  /\ At(r, "loop")
  /\ Goes(r, IF r \in stopping THEN "gone" ELSE "accept")
  /\ UNCHANGED <<client, handling, status, outcome, reply, hungUp, storage, telemetry, shared>>

Accept(r) ==
  /\ At(r, "accept")
  /\ backlog[r] # << >>
  /\ handling' = [handling EXCEPT ![r] = Head(backlog[r])]
  /\ status' = [status EXCEPT ![r] = "PROTOCOL_ERROR"]
  /\ backlog' = [backlog EXCEPT ![r] = Tail(@)]
  /\ Goes(r, "recv")
  /\ UNCHANGED <<client, outcome, reply, hungUp, storage, telemetry, stopping, closed, path>>

\* Nobody within a tenth of a second, or the listener is closed, as it is
\* only after _stop is set: the loop is left here or at the next test.
AcceptEnds(r) ==
  /\ At(r, "accept")
  /\ backlog[r] = << >>
  /\ Goes(r, IF r \in closed THEN "gone" ELSE "loop")
  /\ UNCHANGED <<client, handling, status, outcome, reply, hungUp, storage, telemetry, shared>>

\* recv_request: the declared lengths are tested before the payload is read.
Reject(r) ==
  /\ At(r, "recv")
  /\ Sent(r, handling[r])
  /\ call[r][handling[r]].op = "MALFORMED"
  /\ Goes(r, "emit")
  /\ UNCHANGED <<client, handling, status, outcome, reply, hungUp, storage, telemetry, shared>>

\* The objects after an operation, and its result.
After(st, q) ==
  CASE q.op = "PUT" -> [st EXCEPT ![q.key] = q.value]
    [] q.op = "DELETE" -> [st EXCEPT ![q.key] = NoValue]
    [] OTHER -> st

\* Slip: GET answers without the value.
ResultSlip(st, q) ==
  IF q.op # "PUT" /\ st[q.key] = NoValue THEN Response("NOT_FOUND", NoValue)
  ELSE Response("OK", NoValue)

Result(st, q) ==
  IF q.op # "PUT" /\ st[q.key] = NoValue THEN Response("NOT_FOUND", NoValue)
  ELSE Response("OK", IF q.op = "GET" THEN st[q.key] ELSE NoValue)

Apply(r) ==
  LET q == call[r][handling[r]]
      result == Result(storage[r], q)
  IN /\ At(r, "recv")
     /\ Sent(r, handling[r])
     /\ q.op # "MALFORMED"
     /\ storage' = [storage EXCEPT ![r] = After(@, q)]
     /\ outcome' = [outcome EXCEPT ![r][handling[r]] = result]
     /\ status' = [status EXCEPT ![r] = result.status]
     /\ Goes(r, "reply")
     /\ UNCHANGED <<client, handling, reply, hungUp, telemetry, shared>>

\* Slip: a failed sendall leaves the status of the operation in the line.
ReplySlip(r) ==
  /\ At(r, "reply")
  /\ IF ClientOpen(r, handling[r])
     THEN reply' = [reply EXCEPT ![r][handling[r]] = outcome[r][handling[r]]]
     ELSE UNCHANGED reply
  /\ Goes(r, "emit")
  /\ UNCHANGED <<client, handling, status, outcome, hungUp, storage, telemetry, shared>>

\* sendall fails when the client has gone: the line will tell of an error.
Reply(r) ==
  /\ At(r, "reply")
  /\ IF ClientOpen(r, handling[r])
     THEN /\ reply' = [reply EXCEPT ![r][handling[r]] = outcome[r][handling[r]]]
          /\ UNCHANGED status
     ELSE /\ status' = [status EXCEPT ![r] = "PROTOCOL_ERROR"]
          /\ UNCHANGED reply
  /\ Goes(r, "emit")
  /\ UNCHANGED <<client, handling, outcome, hungUp, storage, telemetry, shared>>

Lines == [run : Run, call : Call, result : {"OK", "NOT_FOUND", "PROTOCOL_ERROR"},
          operation : {"PUT", "GET", "DELETE", "REJECT"}]

Line(r, c, s) ==
  [run |-> r, call |-> c, result |-> s,
   operation |-> IF call[r][c].op = "MALFORMED" THEN "REJECT" ELSE call[r][c].op]

Emit(r) ==
  /\ At(r, "emit")
  /\ telemetry' = Append(telemetry, Line(r, handling[r], status[r]))
  /\ Goes(r, "close")
  /\ UNCHANGED <<client, handling, status, outcome, reply, hungUp, storage, shared>>

CloseConnection(r) ==
  /\ At(r, "close")
  /\ hungUp' = [hungUp EXCEPT ![r] = @ \union {handling[r]}]
  /\ handling' = [handling EXCEPT ![r] = 0]
  /\ Goes(r, "loop")
  /\ UNCHANGED <<client, status, outcome, reply, storage, telemetry, shared>>

ThreadStep(r) ==
  \/ Bind(r) \/ TestStop(r) \/ Accept(r) \/ AcceptEnds(r) \/ Reject(r)
  \/ Apply(r) \/ Reply(r) \/ Emit(r) \/ CloseConnection(r)

Next == MainStep \/ \E r \in Run : ThreadStep(r)

Spec == Init /\ [][Next]_vars

\* The main thread is scheduled and its waits end; nothing is asked of the
\* threads of the gateways.
LiveSpec == Spec /\ WF_vars(MainStep)

-----------------------------------------------------------------------------
\* The types of the variables.
TypeOK ==
  /\ main \in {"start", "ready", "work", "send", "wait", "stop", "close", "join", "unlink",
               "harvest", "done", "failed"}
  /\ run \in Run
  /\ scenario \in [Run -> Scenarios \union {NotYet}]
  /\ count \in [Run -> 0..MaxCalls] /\ handling \in [Run -> 0..MaxCalls]
  /\ thread \in [Run -> {"none", "born", "loop", "accept", "recv", "reply", "emit", "close", "gone"}]
  /\ status \in [Run -> {NotYet, "OK", "NOT_FOUND", "PROTOCOL_ERROR"}]
  /\ hungUp \in [Run -> SUBSET Call]
  /\ backlog \in [Run -> Seq(Call)] /\ \A r \in Run : Len(backlog[r]) <= Backlog + 1
  /\ stopping \subseteq Run /\ closed \subseteq stopping /\ gaveUp \subseteq closed
  /\ path \in Run \union {Nobody}
  /\ call \in [Run -> [Call -> Requests \union {NotYet}]]
  /\ outcome \in [Run -> [Call -> Responses \union {NotYet}]]
  /\ reply \in [Run -> [Call -> Responses \union {NotYet}]]
  /\ answer \in [Run -> [Call -> Responses \union {NotYet}]]
  /\ telemetry \in Seq(Lines)
  /\ storage \in [Run -> [Keys -> Values \union {NoValue}]]
  /\ failing \in BOOLEAN

\* A call has its line.
Logged(r, c) == \E i \in DOMAIN telemetry : telemetry[i].run = r /\ telemetry[i].call = c

\* The line of a call is written after its answer, and to an answer that found
\* nobody the line tells of an error although the operation was carried out.
\* Whatever times out, each call a gateway has finished with has one line, in
\* the order of the calls; the line reports what the client was told, and an
\* error only for a request that was malformed or whose client was not told.
OneLineToACall ==
  /\ \A i, j \in DOMAIN telemetry :
       i < j /\ telemetry[i].run = telemetry[j].run => telemetry[i].call < telemetry[j].call
  /\ \A r \in Run, c \in Call :
       outcome[r][c] # NotYet \/ reply[r][c] # NotYet \/ c \in hungUp[r] =>
         c = handling[r] \/ Logged(r, c)
  /\ \A i \in DOMAIN telemetry :
       LET told == reply[telemetry[i].run][telemetry[i].call]
       IN  telemetry[i].result = IF told # NotYet THEN told.status ELSE "PROTOCOL_ERROR"

\* stop waits for the thread, so that the line of the last call is in the file
\* when the next gateway starts and when the features are computed: unless a
\* thread was left behind, they are computed from the calls of the runs one
\* after the other, and only a malformed request may be missing, one whose
\* client did not see the gateway hang up.
HarvestComplete ==
  harvest # NotYet =>
    /\ \A r \in Run \ gaveUp : \A c \in 1..count[r] :
         \/ \E i \in DOMAIN harvest : harvest[i].run = r /\ harvest[i].call = c
         \/ call[r][c].op = "MALFORMED" /\ c \notin hungUp[r]
    /\ gaveUp = {} =>
         \A i, j \in DOMAIN harvest : i < j => harvest[i].run <= harvest[j].run

\* Every wait of the main thread has a time limit: the experiment ends, done or
\* failed, even when the thread of a gateway makes no progress.
ExperimentEnds == <>(main \in {"done", "failed"})

KV(r) == INSTANCE KVStore WITH
  Calls <- Call, store <- storage[r], call <- call[r], outcome <- outcome[r],
  answer <- answer[r]

\* Towards its client every gateway is the map of KVStore: a call takes effect
\* at most once, before it is answered, and one that timed out may have.  This
\* is KV(r)!Spec for every r, in a form TLC accepts.
ImplementsKVStore ==
  /\ \A r \in Run : KV(r)!Init
  /\ [][\A r \in Run : KV(r)!Next \/ UNCHANGED KV(r)!kvVars]_vars

=============================================================================
