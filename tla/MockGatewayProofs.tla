-------------------------- MODULE MockGatewayProofs --------------------------
(***************************************************************************)
(* Proofs about the Python gateway and the experiment that runs one after  *)
(* the other: one line to a call, a complete harvest, and that towards its *)
(* client each gateway is the map of KVStore.                              *)
(***************************************************************************)
EXTENDS MockGateway, TLAPS, SequenceTheorems

\* Where the main thread may be when the gateway of its run is up.
Up == {"work", "send", "wait", "stop", "close", "join", "unlink"}

\* What the main thread has and has not done to each gateway.
RunInv ==
  /\ \A r \in Run :
       /\ thread[r] = "none" <=> r > run \/ (r = run /\ main = "start")
       /\ thread[r] = "none" => count[r] = 0 /\ r \notin stopping /\ backlog[r] = << >>
       /\ thread[r] = "born" => r = run /\ main \in {"ready", "failed"}
       /\ r < run => r \in closed
       /\ r \in closed => backlog[r] = << >>
  /\ main \in Up \/ (main = "ready" /\ thread[run] # "born") => path = run
  /\ main \in {"ready", "work", "send", "wait", "stop"} => run \notin stopping
  /\ main = "close" => run \in stopping
  /\ main \in {"join", "unlink", "harvest", "done"} => run \in closed
  /\ main \in {"start", "ready", "work", "send", "wait", "harvest", "done"} => ~ failing
  /\ main \in {"send", "wait"} => Current # 0
  /\ main \in {"ready", "work", "send", "wait"} => scenario[run] \in Scenarios

Serving == {"recv", "reply", "emit", "close"}

\* Which call each gateway serves, and which wait.
ServeInv ==
  \A r \in Run :
    /\ thread[r] \in Serving <=> handling[r] # 0
    /\ thread[r] \in Serving => status[r] \in {"OK", "NOT_FOUND", "PROTOCOL_ERROR"}
    /\ handling[r] <= count[r]
    /\ \A c \in Call : call[r][c] # NotYet <=> c <= count[r]
    /\ \A i \in 1..Len(backlog[r]) :
         /\ handling[r] < backlog[r][i] /\ backlog[r][i] <= count[r]
         /\ \A j \in 1..Len(backlog[r]) : i < j => backlog[r][i] < backlog[r][j]

ShapeInv == TypeOK /\ RunInv /\ ServeInv

Told(r, c) == IF reply[r][c] # NotYet THEN reply[r][c].status ELSE "PROTOCOL_ERROR"

\* The lines are in the order of the calls and ahead of those served and waiting.
OrderInv ==
  /\ \A i, j \in 1..Len(telemetry) :
       i < j /\ telemetry[i].run = telemetry[j].run => telemetry[i].call < telemetry[j].call
  /\ \A i \in 1..Len(telemetry) :
       LET r == telemetry[i].run
           c == telemetry[i].call
       IN  /\ c <= count[r]
           /\ thread[r] \in {"recv", "reply", "emit"} => c < handling[r]
           /\ thread[r] = "close" => c <= handling[r]
           /\ \A k \in 1..Len(backlog[r]) : c < backlog[r][k]

\* A call the gateway has done anything about is served or has its line, and is
\* answered with what it resulted in.
KnownInv ==
  \A r \in Run, c \in Call :
    /\ outcome[r][c] # NotYet \/ reply[r][c] # NotYet \/ c \in hungUp[r] =>
         c = handling[r] \/ Logged(r, c)
    /\ reply[r][c] # NotYet => reply[r][c] = outcome[r][c]

\* What the gateway knows of the call it serves.
ServedInv ==
  \A r \in Run : thread[r] \in Serving =>
    LET c == handling[r]
    IN  /\ thread[r] = "recv" => outcome[r][c] = NotYet /\ status[r] = "PROTOCOL_ERROR"
        /\ thread[r] = "reply" => outcome[r][c] # NotYet
        /\ thread[r] \in {"recv", "reply"} => reply[r][c] = NotYet
        /\ thread[r] = "reply" => status[r] = outcome[r][c].status
        /\ thread[r] = "emit" => status[r] = Told(r, c)
        /\ thread[r] = "close" => Logged(r, c)

\* A line reports what the client was told.
LinesTell ==
  \A i \in 1..Len(telemetry) :
    telemetry[i].result = Told(telemetry[i].run, telemetry[i].call)

CallInv == KnownInv /\ ServedInv /\ LinesTell

\* The main thread has left a call other than a malformed one only with an
\* answer, unless an exception is on its way out.
AnsweredInv ==
  \A r \in Run, c \in Call :
    c <= count[r] /\ ~ failing /\ ~ ClientOpen(r, c) /\ call[r][c].op # "MALFORMED" =>
      reply[r][c] # NotYet

\* No gateway runs beside the next unless it was left behind.
JoinedInv ==
  \A r \in Run :
    r < run \/ (r = run /\ main \in {"unlink", "harvest", "done"}) =>
      r \in gaveUp \/ thread[r] = "gone"

\* The lines of a run follow those of the runs before it.
ByRun ==
  /\ \A i \in 1..Len(telemetry) : telemetry[i].run <= run
  /\ gaveUp = {} =>
       \A i, j \in 1..Len(telemetry) : i < j => telemetry[i].run <= telemetry[j].run

\* Nothing is written after the lines have been read.
Harvested == harvest # NotYet => main = "done" /\ harvest = telemetry

HarvestInv == AnsweredInv /\ JoinedInv /\ ByRun /\ Harvested

\* The client has read nothing of a call it has not made or still has open.
AnswerInv ==
  \A r \in Run, c \in Call :
    c > count[r] \/ ClientOpen(r, c) => answer[r][c] = NotYet


-----------------------------------------------------------------------------
(* Requests, answers and lines.                                            *)

\* A scenario asks for something the gateway knows.
LEMMA AsksType ==
  ASSUME NEW s \in Scenarios, NEW n \in Nat, NEW k \in Keys, NEW v \in Values
  PROVE  Asks(s, n, k, v) \in Requests
<1>1. n % 4 \in 0..3
  OBVIOUS
<1>2. Put(k, v) \in Requests /\ Get(k) \in Requests /\ Delete(k) \in Requests
      /\ Get(Absent) \in Requests /\ [op |-> "MALFORMED"] \in Requests
  BY KeysAssumption DEF Put, Get, Delete, Requests
<1>3. n % 4 = 0 \/ n % 4 \in {1, 2} \/ n % 4 = 3
  BY <1>1
<1> QED
  BY <1>2, <1>3, ScenariosAssumption DEF Asks

\* The fields of a request.
LEMMA RequestFields ==
  ASSUME NEW q \in Requests
  PROVE  /\ q.op \in {"PUT", "GET", "DELETE", "MALFORMED"}
         /\ q.op # "MALFORMED" => q.key \in Keys
         /\ q.op = "PUT" => q.value \in Values
BY DEF Requests

\* An operation keeps the types of the objects and has an answer.
LEMMA EffectTypes ==
  ASSUME NEW st \in [Keys -> Values \union {NoValue}], NEW q \in Requests, q.op # "MALFORMED"
  PROVE  /\ After(st, q) \in [Keys -> Values \union {NoValue}]
         /\ Result(st, q) \in Responses
<1>1. After(st, q) \in [Keys -> Values \union {NoValue}]
  BY RequestFields DEF After
<1>2. Result(st, q) \in Responses
  BY RequestFields DEF Result, Response, Responses
<1> QED
  BY <1>1, <1>2

\* A line that is written.
LEMMA LineType ==
  ASSUME NEW r \in Run, NEW c \in Call, call[r][c] \in Requests,
         NEW s \in {"OK", "NOT_FOUND", "PROTOCOL_ERROR"}
  PROVE  Line(r, c, s) \in Lines
BY RequestFields DEF Line, Lines

\* The file after one more line.
LEMMA AppendedLine ==
  ASSUME NEW t \in Seq(Lines), NEW l \in Lines
  PROVE  /\ Append(t, l) \in Seq(Lines) /\ Len(t) \in Nat /\ Len(Append(t, l)) = Len(t) + 1
         /\ DOMAIN t = 1..Len(t) /\ DOMAIN Append(t, l) = 1..Len(t) + 1
         /\ \A i \in 1..Len(t) : Append(t, l)[i] = t[i]
         /\ Append(t, l)[Len(t) + 1] = l
OBVIOUS

-----------------------------------------------------------------------------
(* The shape of the state.                                                 *)

\* Nothing has happened at first.
LEMMA ShapeInit == Init => ShapeInv
<1> SUFFICES ASSUME Init PROVE ShapeInv
  OBVIOUS
<1>1. TypeOK
  <2>1. << >> \in Seq(Call) /\ Len(<< >>) = 0 /\ << >> \in Seq(Lines)
    OBVIOUS
  <2>2. /\ backlog \in [Run -> Seq(Call)] /\ \A r \in Run : Len(backlog[r]) <= Backlog + 1
        /\ telemetry \in Seq(Lines)
    BY <2>1, RunsAssumption DEF Init
  <2>3. /\ call \in [Run -> [Call -> Requests \union {NotYet}]]
        /\ outcome \in [Run -> [Call -> Responses \union {NotYet}]]
        /\ reply \in [Run -> [Call -> Responses \union {NotYet}]]
        /\ answer \in [Run -> [Call -> Responses \union {NotYet}]]
    BY DEF Init
  <2>4. run \in Run /\ main = "start" /\ stopping = {} /\ closed = {} /\ gaveUp = {}
    BY RunsAssumption DEF Init, Run
  <2>5. /\ count \in [Run -> 0..MaxCalls] /\ handling \in [Run -> 0..MaxCalls]
        /\ scenario \in [Run -> Scenarios \union {NotYet}]
        /\ status \in [Run -> {NotYet, "OK", "NOT_FOUND", "PROTOCOL_ERROR"}]
        /\ hungUp \in [Run -> SUBSET Call] /\ path \in Run \union {Nobody}
        /\ storage \in [Run -> [Keys -> Values \union {NoValue}]] /\ failing \in BOOLEAN
        /\ thread \in [Run -> {"none"}]
    <3>1. 0 \in 0..MaxCalls
      BY RunsAssumption
    <3> QED
      BY <3>1 DEF Init
  <2> QED
    BY <2>2, <2>3, <2>4, <2>5 DEF TypeOK
<1>2. RunInv
  BY RunsAssumption DEF Init, RunInv, Run, Up
<1>3. ServeInv
  BY RunsAssumption DEF Init, ServeInv, Serving, Run, Call
<1> QED
  BY <1>1, <1>2, <1>3 DEF ShapeInv

\* What the main thread does without a gateway noticing.
LEMMA QuietShape ==
  ASSUME ShapeInv,
         Ready \/ StartTimesOut \/ ConnectTimesOut \/ Send \/ GoOn \/ TimesOut \/ Deadline \/ Join
           \/ Harvest
  PROVE  ShapeInv'
<1> USE DEF ShapeInv
<1>1. TypeOK'
  BY DEF TypeOK, Ready, StartTimesOut, ConnectTimesOut, Send, GoOn, TimesOut, Deadline, Join,
         Harvest, RunInv, server, shared
<1>2. RunInv'
  BY DEF TypeOK, RunInv, Current, Ready, StartTimesOut, ConnectTimesOut, Send, GoOn, TimesOut,
         Deadline, Join, Harvest, Up, server, shared
<1>3. ServeInv'
  BY DEF ServeInv, Ready, StartTimesOut, ConnectTimesOut, Send, GoOn, TimesOut, Deadline, Join,
         Harvest, server, shared
<1> QED
  BY <1>1, <1>2, <1>3

\* A thread is born, and binds the path once main has left the start.
LEMMA StartGatewayShape ==
  ASSUME ShapeInv, StartGateway
  PROVE  ShapeInv'
<1> USE DEF ShapeInv
<1>1. TypeOK'
  BY DEF TypeOK, StartGateway
<1>2. RunInv'
  BY DEF TypeOK, RunInv, Current, StartGateway, Up, Run
<1>3. ServeInv'
  BY DEF TypeOK, RunInv, ServeInv, Serving, StartGateway
<1> QED
  BY <1>1, <1>2, <1>3

\* The client reads an answer that is there.
LEMMA ReceiveShape ==
  ASSUME ShapeInv, Receive
  PROVE  ShapeInv'
<1> USE DEF ShapeInv
<1>1. TypeOK'
  <2>1. run \in Run /\ Current \in Call /\ reply[run][Current] \in Responses
    BY RunsAssumption DEF TypeOK, RunInv, Receive, Current, Call
  <2>2. answer' \in [Run -> [Call -> Responses \union {NotYet}]]
    BY <2>1 DEF TypeOK, Receive
  <2> QED
    BY <2>2 DEF TypeOK, Receive, server, shared
<1>2. RunInv'
  BY DEF TypeOK, RunInv, Current, Receive, Up, server, shared
<1>3. ServeInv'
  BY DEF ServeInv, Receive, server, shared
<1> QED
  BY <1>1, <1>2, <1>3

\* A connection waits behind those before it.
LEMMA ConnectShape ==
  ASSUME ShapeInv, Connect
  PROVE  ShapeInv'
<1> USE DEF ShapeInv
<1>1. /\ run \in Run /\ path = run /\ count[run] \in 0..MaxCalls /\ Current + 1 \in Call
      /\ backlog[run] \in Seq(Call) /\ Len(backlog[run]) \in Nat
      /\ scenario[run] \in Scenarios /\ Current + 1 \in Nat
  BY RunsAssumption, LenProperties DEF TypeOK, RunInv, Connect, Up, Current, Call
<1>2. PICK q \in Requests : call' = [call EXCEPT ![run][Current + 1] = q]
  BY <1>1, AsksType DEF Connect
<1>3. /\ main' = "send" /\ count' = [count EXCEPT ![run] = Current + 1]
      /\ backlog' = [backlog EXCEPT ![run] = Append(@, Current + 1)]
      /\ UNCHANGED <<run, scenario, answer, failing, gaveUp, harvest, server, stopping, closed,
                     path>>
      /\ Len(backlog[run]) <= Backlog /\ main = "work"
  BY <1>1 DEF Connect, Current
<1>4. /\ Append(backlog[run], Current + 1) \in Seq(Call)
      /\ Len(Append(backlog[run], Current + 1)) = Len(backlog[run]) + 1
      /\ \A i \in 1..Len(backlog[run]) : Append(backlog[run], Current + 1)[i] = backlog[run][i]
      /\ Append(backlog[run], Current + 1)[Len(backlog[run]) + 1] = Current + 1
  BY <1>1
<1>5. TypeOK'
  <2>1. call' \in [Run -> [Call -> Requests \union {NotYet}]]
    BY <1>1, <1>2 DEF TypeOK
  <2>2. count' \in [Run -> 0..MaxCalls]
    BY <1>1, <1>3 DEF TypeOK, Call
  <2>3. backlog' \in [Run -> Seq(Call)] /\ \A r \in Run : Len(backlog'[r]) <= Backlog + 1
    BY <1>1, <1>3, <1>4, RunsAssumption DEF TypeOK
  <2> QED
    BY <1>3, <2>1, <2>2, <2>3 DEF TypeOK, server
<1>6. RunInv'
  BY <1>1, <1>3 DEF TypeOK, RunInv, Up, Current, server
<1>7. ServeInv'
  <2>1. ASSUME NEW c \in Call
        PROVE  call'[run][c] # NotYet <=> c <= count'[run]
    <3>1. call[run][c] # NotYet <=> c <= Current
      BY <1>1 DEF ServeInv, Current
    <3>2. call'[run][c] = IF c = Current + 1 THEN q ELSE call[run][c]
      BY <1>1, <1>2 DEF TypeOK
    <3>3. q # NotYet
      BY NotYetAssumption
    <3>4. count'[run] = Current + 1 /\ c \in Nat /\ Current \in Nat
      BY <1>1, <1>3 DEF TypeOK, Current, Call
    <3> QED
      BY <3>1, <3>2, <3>3, <3>4
  <2>2. \A i \in 1..Len(backlog'[run]) :
          /\ handling'[run] < backlog'[run][i] /\ backlog'[run][i] <= count'[run]
          /\ \A j \in 1..Len(backlog'[run]) : i < j => backlog'[run][i] < backlog'[run][j]
    <3>1. /\ backlog'[run] = Append(backlog[run], Current + 1) /\ count'[run] = Current + 1
          /\ handling'[run] = handling[run] /\ handling[run] \in 0..MaxCalls
      BY <1>1, <1>3 DEF TypeOK, server
    <3>2. \A i \in 1..Len(backlog[run]) :
            /\ handling[run] < backlog[run][i] /\ backlog[run][i] <= Current
            /\ backlog[run][i] \in Nat
            /\ \A j \in 1..Len(backlog[run]) : i < j => backlog[run][i] < backlog[run][j]
      <4>1. \A i \in 1..Len(backlog[run]) : backlog[run][i] \in Call
        BY <1>1, ElementOfSeq
      <4> QED
        BY <1>1, <4>1 DEF ServeInv, Current, Call
    <3>3. handling[run] <= Current /\ Current \in Nat
      BY <1>1 DEF ServeInv, Current
    <3> DEFINE n == Len(backlog[run]) + 1
    <3>4. /\ Len(backlog'[run]) = n /\ backlog'[run][n] = Current + 1
          /\ \A i \in 1..n : i = n \/ i \in 1..Len(backlog[run])
          /\ \A i \in 1..Len(backlog[run]) : backlog'[run][i] = backlog[run][i] /\ ~ (n < i)
      BY <1>1, <1>4, <3>1
    <3>5. ASSUME NEW i \in 1..n
          PROVE  handling'[run] < backlog'[run][i] /\ backlog'[run][i] <= count'[run]
      <4>1. CASE i = n
        BY <3>1, <3>3, <3>4, <4>1
      <4>2. CASE i \in 1..Len(backlog[run])
        BY <3>1, <3>2, <3>3, <3>4, <4>2
      <4> QED
        BY <3>4, <4>1, <4>2
    <3>6. ASSUME NEW i \in 1..n, NEW j \in 1..n, i < j
          PROVE  backlog'[run][i] < backlog'[run][j]
      <4>1. i \in 1..Len(backlog[run])
        BY <1>1, <3>6
      <4>2. CASE j = n
        BY <3>2, <3>3, <3>4, <4>1, <4>2
      <4>3. CASE j \in 1..Len(backlog[run])
        BY <3>2, <3>4, <3>6, <4>1, <4>3
      <4> QED
        BY <3>4, <4>2, <4>3
    <3> QED
      BY <3>4, <3>5, <3>6
  <2>3. \A r \in Run : r # run => /\ backlog'[r] = backlog[r] /\ call'[r] = call[r]
                                  /\ count'[r] = count[r]
    BY <1>2, <1>3 DEF TypeOK
  <2>4. thread' = thread /\ handling' = handling /\ status' = status
    BY <1>3 DEF server
  <2>5. handling[run] <= count'[run]
    BY <1>1, <1>3 DEF TypeOK, ServeInv, Current
  <2> QED
    BY <2>1, <2>2, <2>3, <2>4, <2>5 DEF ServeInv
<1> QED
  BY <1>5, <1>6, <1>7

\* The gateway is asked to stop.
LEMMA StopShape ==
  ASSUME ShapeInv, Stop
  PROVE  ShapeInv'
<1> USE DEF ShapeInv
<1>1. TypeOK'
  BY DEF TypeOK, Stop, server
<1>2. RunInv'
  BY DEF TypeOK, RunInv, Current, Stop, Up, server
<1>3. ServeInv'
  BY DEF ServeInv, Stop, server
<1> QED
  BY <1>1, <1>2, <1>3

\* What waits is dropped with the listener.
LEMMA CloseListenerShape ==
  ASSUME ShapeInv, CloseListener
  PROVE  ShapeInv'
<1> USE DEF ShapeInv
<1>1. TypeOK'
  BY RunsAssumption DEF TypeOK, RunInv, CloseListener, server
<1>2. RunInv'
  BY DEF TypeOK, RunInv, Current, CloseListener, Up, server
<1>3. ServeInv'
  BY DEF TypeOK, ServeInv, CloseListener, server
<1> QED
  BY <1>1, <1>2, <1>3

\* The run ends, and the next begins unless it is the last or has failed.
LEMMA UnlinkShape ==
  ASSUME ShapeInv, Unlink
  PROVE  ShapeInv'
<1> USE DEF ShapeInv
<1>1. /\ main = "unlink" /\ path' = Nobody /\ run \in 1..Runs /\ Runs \in Nat
      /\ UNCHANGED <<scenario, count, call, answer, failing, gaveUp, harvest, thread, handling,
                     status, outcome, reply, hungUp, storage, telemetry, backlog, stopping, closed>>
  BY RunsAssumption DEF TypeOK, Run, Unlink, server
<1>2. \/ main' = "failed" /\ run' = run
      \/ main' = "harvest" /\ run' = run /\ ~ failing
      \/ main' = "start" /\ run' = run + 1 /\ ~ failing /\ run + 1 \in 1..Runs
  BY <1>1 DEF Unlink
<1>3. TypeOK'
  BY <1>1, <1>2 DEF TypeOK, Run
<1>4. RunInv'
  <2>1. thread[run] # "none" /\ run \in closed
    BY <1>1 DEF RunInv, Run
  <2>2. \A r \in Run : r < run + 1 <=> r < run \/ r = run
    BY <1>1 DEF Run
  <2> QED
    BY <1>1, <1>2, <2>1, <2>2 DEF RunInv, Current, Up, Run
<1>5. ServeInv'
  BY <1>1 DEF ServeInv
<1> QED
  BY <1>3, <1>4, <1>5

\* The gateway listens on the path.
LEMMA BindShape ==
  ASSUME ShapeInv, NEW r \in Run, Bind(r)
  PROVE  ShapeInv'
<1> USE DEF ShapeInv
<1>1. TypeOK'
  BY DEF TypeOK, Bind, Goes, client
<1>2. RunInv'
  BY DEF TypeOK, RunInv, Current, Bind, At, Goes, client, Up
<1>3. ServeInv'
  BY DEF TypeOK, ServeInv, Serving, Bind, At, Goes, client
<1> QED
  BY <1>1, <1>2, <1>3

\* A thread that goes on without serving or ceasing to serve.
LEMMA LoopShape ==
  ASSUME ShapeInv, NEW r \in Run, TestStop(r) \/ AcceptEnds(r) \/ Reject(r)
  PROVE  ShapeInv'
<1> USE DEF ShapeInv
<1>1. TypeOK'
  BY DEF TypeOK, TestStop, AcceptEnds, Reject, Goes, client, shared
<1>2. RunInv'
  BY SMTT(60) DEF TypeOK, RunInv, Current, TestStop, AcceptEnds, Reject, At, Goes, client, shared, Up
<1>3. ServeInv'
  <2>1. /\ UNCHANGED <<handling, status, count, call, backlog>>
        /\ \A p \in Run : thread'[p] \in Serving <=> thread[p] \in Serving
    BY DEF TypeOK, Serving, TestStop, AcceptEnds, Reject, At, Goes, client, shared
  <2> QED
    BY <2>1 DEF ServeInv
<1> QED
  BY <1>1, <1>2, <1>3

\* The first that waits is served.
LEMMA AcceptShape ==
  ASSUME ShapeInv, NEW r \in Run, Accept(r)
  PROVE  ShapeInv'
<1> USE DEF ShapeInv
<1>1. /\ thread[r] = "accept" /\ thread' = [thread EXCEPT ![r] = "recv"]
      /\ handling' = [handling EXCEPT ![r] = Head(backlog[r])]
      /\ status' = [status EXCEPT ![r] = "PROTOCOL_ERROR"]
      /\ backlog' = [backlog EXCEPT ![r] = Tail(@)] /\ backlog[r] # << >>
      /\ UNCHANGED <<main, run, scenario, count, call, answer, failing, gaveUp, harvest,
                     outcome, reply, hungUp, storage, telemetry, stopping, closed, path>>
  BY DEF Accept, At, Goes, client
<1>2. /\ backlog[r] \in Seq(Call) /\ Len(backlog[r]) \in Nat /\ Len(backlog[r]) >= 1
      /\ Head(backlog[r]) = backlog[r][1] /\ Head(backlog[r]) \in Call
      /\ Tail(backlog[r]) \in Seq(Call) /\ Len(Tail(backlog[r])) = Len(backlog[r]) - 1
      /\ \A i \in 1..Len(backlog[r]) - 1 : Tail(backlog[r])[i] = backlog[r][i + 1]
  BY <1>1, LenProperties DEF TypeOK
<1>3. TypeOK'
  <2>1. handling' \in [Run -> 0..MaxCalls]
    BY <1>1, <1>2, RunsAssumption DEF TypeOK, Call
  <2>2. backlog' \in [Run -> Seq(Call)] /\ \A p \in Run : Len(backlog'[p]) <= Backlog + 1
    BY <1>1, <1>2, RunsAssumption, SMTT(60) DEF TypeOK
  <2> QED
    BY <1>1, <2>1, <2>2 DEF TypeOK
<1>4. RunInv'
  <2>1. backlog[r] # << >> => r \notin closed
    BY DEF RunInv
  <2> QED
    BY <1>1, <2>1 DEF TypeOK, RunInv, Up, Current
<1>5. ServeInv'
  <2>1. /\ handling'[r] = backlog[r][1] /\ backlog'[r] = Tail(backlog[r])
        /\ thread'[r] = "recv" /\ status'[r] = "PROTOCOL_ERROR"
    BY <1>1, <1>2 DEF TypeOK
  <2>2. \A i \in 1..Len(backlog'[r]) :
          /\ handling'[r] < backlog'[r][i] /\ backlog'[r][i] <= count[r]
          /\ \A j \in 1..Len(backlog'[r]) : i < j => backlog'[r][i] < backlog'[r][j]
    <3>1. \A i \in 1..Len(backlog[r]) :
            /\ backlog[r][i] <= count[r]
            /\ \A j \in 1..Len(backlog[r]) : i < j => backlog[r][i] < backlog[r][j]
      BY DEF ServeInv
    <3>2. \A i \in 1..Len(backlog'[r]) : /\ i + 1 \in 1..Len(backlog[r]) /\ 1 < i + 1
                                        /\ backlog'[r][i] = backlog[r][i + 1]
      BY <1>2, <2>1
    <3> QED
      BY <1>2, <2>1, <3>1, <3>2
  <2>3. handling'[r] # 0 /\ handling'[r] <= count[r]
    BY <1>2, <2>1 DEF ServeInv, Call
  <2>4. \A p \in Run : p # r => /\ backlog'[p] = backlog[p] /\ handling'[p] = handling[p]
                                /\ thread'[p] = thread[p] /\ status'[p] = status[p]
    BY <1>1 DEF TypeOK
  <2> QED
    BY <1>1, <2>1, <2>2, <2>3, <2>4 DEF ServeInv, Serving
<1> QED
  BY <1>3, <1>4, <1>5

\* The call a gateway serves.
LEMMA Served ==
  ASSUME ShapeInv, NEW r \in Run, thread[r] \in Serving
  PROVE  /\ handling[r] \in Call /\ handling[r] <= count[r] /\ count[r] \in Nat
         /\ call[r][handling[r]] \in Requests
<1>1. handling[r] \in Call /\ handling[r] <= count[r] /\ count[r] \in Nat
  BY RunsAssumption DEF ShapeInv, TypeOK, ServeInv, Call
<1> QED
  BY <1>1 DEF ShapeInv, TypeOK, ServeInv

\* A thread that goes on with the call it serves.
LEMMA ServingFrame ==
  ASSUME ShapeInv, NEW r \in Run, thread[r] \in Serving,
         NEW pc \in Serving, thread' = [thread EXCEPT ![r] = pc],
         UNCHANGED <<client, handling, hungUp, shared>>, TypeOK',
         status'[r] \in {"OK", "NOT_FOUND", "PROTOCOL_ERROR"},
         \A p \in Run : p # r => status'[p] = status[p]
  PROVE  ShapeInv'
<1>1. \A p \in Run : thread'[p] \in Serving <=> thread[p] \in Serving
  BY DEF ShapeInv, TypeOK
<1>2. RunInv'
  BY DEF ShapeInv, TypeOK, RunInv, Serving, client, shared, Up, Current
<1>3. ServeInv'
  BY <1>1 DEF ShapeInv, ServeInv, client, shared
<1> QED
  BY <1>2, <1>3 DEF ShapeInv

\* The operation of the call is carried out.
LEMMA ApplyShape ==
  ASSUME ShapeInv, NEW r \in Run, Apply(r)
  PROVE  ShapeInv'
<1> DEFINE c == handling[r]
           q == call[r][c]
           result == Result(storage[r], q)
<1>1. /\ thread[r] \in Serving /\ thread' = [thread EXCEPT ![r] = "reply"]
      /\ q.op # "MALFORMED"
      /\ storage' = [storage EXCEPT ![r] = After(@, q)]
      /\ outcome' = [outcome EXCEPT ![r][c] = result]
      /\ status' = [status EXCEPT ![r] = result.status]
      /\ UNCHANGED <<client, handling, reply, hungUp, telemetry, shared>>
  BY DEF Apply, At, Goes, Serving
<1>2. c \in Call /\ q \in Requests /\ storage[r] \in [Keys -> Values \union {NoValue}]
  BY <1>1, Served DEF ShapeInv, TypeOK
<1>3. After(storage[r], q) \in [Keys -> Values \union {NoValue}] /\ result \in Responses
  BY <1>1, <1>2, EffectTypes
<1>4. result.status \in {"OK", "NOT_FOUND"}
  BY <1>3 DEF Responses
<1> HIDE DEF c, q, result
<1>5. TypeOK'
  <2>1. outcome' \in [Run -> [Call -> Responses \union {NotYet}]]
    BY <1>1, <1>2, <1>3 DEF ShapeInv, TypeOK
  <2>2. storage' \in [Run -> [Keys -> Values \union {NoValue}]]
    BY <1>1, <1>3 DEF ShapeInv, TypeOK
  <2>3. status' \in [Run -> {NotYet, "OK", "NOT_FOUND", "PROTOCOL_ERROR"}]
    BY <1>1, <1>4 DEF ShapeInv, TypeOK
  <2> QED
    BY <1>1, <2>1, <2>2, <2>3 DEF ShapeInv, TypeOK, client, shared
<1> QED
  <2>1. status'[r] = result.status /\ \A p \in Run : p # r => status'[p] = status[p]
    BY <1>1 DEF ShapeInv, TypeOK
  <2> QED
    BY <1>1, <1>4, <1>5, <2>1, ServingFrame DEF Serving

\* The answer is written, or finds nobody.
LEMMA ReplyShape ==
  ASSUME ShapeInv, NEW r \in Run, Reply(r)
  PROVE  ShapeInv'
<1>1. /\ thread[r] \in Serving /\ thread' = [thread EXCEPT ![r] = "emit"]
      /\ UNCHANGED <<client, handling, outcome, hungUp, storage, telemetry, shared>>
      /\ \/ reply' = [reply EXCEPT ![r][handling[r]] = outcome[r][handling[r]]] /\ status' = status
         \/ reply' = reply /\ status' = [status EXCEPT ![r] = "PROTOCOL_ERROR"]
  BY DEF Reply, At, Goes, Serving
<1>2. handling[r] \in Call
  BY <1>1, Served
<1>3. TypeOK'
  <2>1. reply' \in [Run -> [Call -> Responses \union {NotYet}]]
    <3>1. outcome[r][handling[r]] \in Responses \union {NotYet}
      BY <1>2 DEF ShapeInv, TypeOK
    <3>2. CASE reply' = [reply EXCEPT ![r][handling[r]] = outcome[r][handling[r]]]
      BY <1>2, <3>1, <3>2 DEF ShapeInv, TypeOK
    <3>3. CASE reply' = reply
      BY <3>3 DEF ShapeInv, TypeOK
    <3> QED
      BY <1>1, <3>2, <3>3
  <2>2. status' \in [Run -> {NotYet, "OK", "NOT_FOUND", "PROTOCOL_ERROR"}]
    BY <1>1 DEF ShapeInv, TypeOK
  <2> QED
    BY <1>1, <2>1, <2>2 DEF ShapeInv, TypeOK, client, shared
<1> QED
  <2>1. /\ status'[r] = status[r] \/ status'[r] = "PROTOCOL_ERROR"
        /\ \A p \in Run : p # r => status'[p] = status[p]
    BY <1>1 DEF ShapeInv, TypeOK
  <2>2. status[r] \in {"OK", "NOT_FOUND", "PROTOCOL_ERROR"}
    BY <1>1 DEF ShapeInv, ServeInv
  <2> QED
    BY <1>1, <1>3, <2>1, <2>2, ServingFrame DEF Serving

\* The line of the call is written.
LEMMA EmitShape ==
  ASSUME ShapeInv, NEW r \in Run, Emit(r)
  PROVE  /\ ShapeInv'
         /\ Line(r, handling[r], status[r]) \in Lines
<1>1. /\ thread[r] \in Serving /\ thread' = [thread EXCEPT ![r] = "close"]
      /\ telemetry' = Append(telemetry, Line(r, handling[r], status[r]))
      /\ UNCHANGED <<client, handling, status, outcome, reply, hungUp, storage, shared>>
  BY DEF Emit, At, Goes, Serving
<1>2. status[r] \in {"OK", "NOT_FOUND", "PROTOCOL_ERROR"}
  BY <1>1 DEF ShapeInv, ServeInv
<1>5. Line(r, handling[r], status[r]) \in Lines
  BY <1>1, <1>2, Served, LineType
<1>3. telemetry' \in Seq(Lines)
  BY <1>1, <1>5, AppendedLine DEF ShapeInv, TypeOK
<1>4. TypeOK'
  BY <1>1, <1>3 DEF ShapeInv, TypeOK, client, shared
<1> QED
  BY <1>1, <1>2, <1>4, <1>5, ServingFrame DEF Serving

\* The call is no longer served.
LEMMA CloseConnectionShape ==
  ASSUME ShapeInv, NEW r \in Run, CloseConnection(r)
  PROVE  ShapeInv'
<1> USE DEF ShapeInv
<1>1. /\ thread[r] = "close" /\ thread' = [thread EXCEPT ![r] = "loop"]
      /\ hungUp' = [hungUp EXCEPT ![r] = @ \union {handling[r]}]
      /\ handling' = [handling EXCEPT ![r] = 0]
      /\ UNCHANGED <<client, status, outcome, reply, storage, telemetry, shared>>
  BY DEF CloseConnection, At, Goes
<1>2. handling[r] \in Call
  BY <1>1, Served DEF Serving
<1>3. TypeOK'
  BY <1>1, <1>2, RunsAssumption, SMTT(60) DEF TypeOK, client, shared
<1>4. RunInv'
  BY <1>1 DEF TypeOK, RunInv, client, shared, Up, Current
<1>5. ServeInv'
  <2>1. \A i \in 1..Len(backlog[r]) : 0 < backlog[r][i]
    <3>1. backlog[r] \in Seq(Call)
      BY DEF TypeOK
    <3>2. \A i \in 1..Len(backlog[r]) : backlog[r][i] \in Call
      BY <3>1, ElementOfSeq
    <3> QED
      BY <3>2 DEF Call
  <2>2. count[r] \in Nat
    BY DEF TypeOK
  <2> QED
    BY <1>1, <2>1, <2>2 DEF TypeOK, ServeInv, Serving, client, shared
<1> QED
  BY <1>3, <1>4, <1>5

\* Every step keeps the shape of the state.
LEMMA ShapeNext == ShapeInv /\ [Next]_vars => ShapeInv'
<1> SUFFICES ASSUME ShapeInv, [Next]_vars PROVE ShapeInv'
  OBVIOUS
<1>1. CASE UNCHANGED vars
  <2>1. TypeOK'
    BY <1>1 DEF ShapeInv, TypeOK, vars, client, server, shared
  <2>2. RunInv'
    BY <1>1 DEF ShapeInv, RunInv, Current, vars, client, server, shared
  <2>3. ServeInv'
    BY <1>1 DEF ShapeInv, ServeInv, vars, client, server, shared
  <2> QED
    BY <2>1, <2>2, <2>3 DEF ShapeInv
<1>2. CASE MainStep
  BY <1>2, StartGatewayShape, ConnectShape, ReceiveShape, StopShape, CloseListenerShape,
     UnlinkShape, QuietShape DEF MainStep
<1>3. ASSUME NEW r \in Run, ThreadStep(r)
      PROVE  ShapeInv'
  BY <1>3, BindShape, LoopShape, AcceptShape, ApplyShape, ReplyShape, EmitShape,
     CloseConnectionShape DEF ThreadStep
<1> QED
  BY <1>1, <1>2, <1>3 DEF Next

\* The variables keep their types.
THEOREM TypeCorrect == Spec => []TypeOK
<1> QED
  BY ShapeInit, ShapeNext, PTL DEF Spec, ShapeInv

-----------------------------------------------------------------------------
(* The lines are in the order of the calls.                                *)

\* The fields of the lines in the file.
LEMMA LineFields ==
  ASSUME ShapeInv
  PROVE  /\ telemetry \in Seq(Lines) /\ Len(telemetry) \in Nat
         /\ DOMAIN telemetry = 1..Len(telemetry)
         /\ \A i \in 1..Len(telemetry) :
              /\ telemetry[i].run \in Run /\ telemetry[i].call \in Call
              /\ telemetry[i].call \in Nat
<1>1. telemetry \in Seq(Lines)
  BY DEF ShapeInv, TypeOK
<1>2. \A i \in 1..Len(telemetry) : telemetry[i] \in Lines
  BY <1>1, ElementOfSeq
<1> QED
  BY <1>1, <1>2 DEF Lines, Call

\* A step that writes no line and serves nobody new.
LEMMA OrderFrame ==
  ASSUME ShapeInv, OrderInv,
         telemetry' = telemetry,
         \A r \in Run :
           /\ count'[r] = count[r]
           /\ backlog'[r] = backlog[r] \/ backlog'[r] = << >>
           /\ thread'[r] \in Serving => handling'[r] = handling[r] /\ thread[r] \in Serving
           /\ thread'[r] \in {"recv", "reply", "emit"} => thread[r] \in {"recv", "reply", "emit"}
           /\ thread'[r] = "close" => thread[r] = "close"
  PROVE  OrderInv'
<1>1. \A i \in 1..Len(telemetry) : telemetry[i].run \in Run
  BY LineFields
<1>2. Len(<< >>) = 0
  OBVIOUS
<1> QED
  BY <1>1, <1>2 DEF OrderInv, Serving

\* A new call is later than all that have a line.
LEMMA ConnectOrder ==
  ASSUME ShapeInv, OrderInv, Connect
  PROVE  OrderInv'
<1>1. /\ run \in Run /\ path = run /\ count[run] \in Nat
      /\ backlog[run] \in Seq(Call)
  BY DEF ShapeInv, TypeOK, RunInv, Connect, Up
<1>2. /\ telemetry' = telemetry /\ thread' = thread /\ handling' = handling
      /\ count'[run] = count[run] + 1
      /\ backlog'[run] = Append(backlog[run], count[run] + 1)
      /\ \A r \in Run : r # run => count'[r] = count[r] /\ backlog'[r] = backlog[r]
  BY <1>1 DEF ShapeInv, TypeOK, Connect, Current, server
<1>3. /\ Len(backlog'[run]) = Len(backlog[run]) + 1 /\ Len(backlog[run]) \in Nat
      /\ \A i \in 1..Len(backlog[run]) : backlog'[run][i] = backlog[run][i]
      /\ backlog'[run][Len(backlog[run]) + 1] = count[run] + 1
  BY <1>1, <1>2
<1>4. \A i \in 1..Len(telemetry) : telemetry[i].run \in Run /\ telemetry[i].call \in Nat
  BY LineFields
<1>5. ASSUME NEW i \in 1..Len(telemetry), telemetry[i].run = run
      PROVE  /\ telemetry[i].call <= count'[run]
             /\ \A k \in 1..Len(backlog'[run]) : telemetry[i].call < backlog'[run][k]
  <2>1. /\ telemetry[i].call <= count[run]
        /\ \A k \in 1..Len(backlog[run]) : telemetry[i].call < backlog[run][k]
    BY <1>5 DEF OrderInv
  <2> QED
    BY <1>1, <1>2, <1>3, <1>4, <2>1, SMTT(60)
<1> QED
  BY <1>2, <1>4, <1>5, ZenonT(60) DEF OrderInv

\* The first that waits is served, and is later than all that have a line.
LEMMA AcceptOrder ==
  ASSUME ShapeInv, OrderInv, NEW r \in Run, Accept(r)
  PROVE  OrderInv'
<1>1. /\ backlog[r] \in Seq(Call) /\ backlog[r] # << >>
      /\ telemetry' = telemetry /\ count' = count
      /\ thread'[r] = "recv" /\ handling'[r] = Head(backlog[r]) /\ backlog'[r] = Tail(backlog[r])
      /\ \A p \in Run : p # r => /\ thread'[p] = thread[p] /\ handling'[p] = handling[p]
                                 /\ backlog'[p] = backlog[p]
  BY DEF ShapeInv, TypeOK, Accept, At, Goes, client
<1>2. /\ Len(backlog[r]) \in Nat /\ Len(backlog[r]) >= 1 /\ handling'[r] = backlog[r][1]
      /\ Len(backlog'[r]) = Len(backlog[r]) - 1
      /\ \A i \in 1..Len(backlog[r]) - 1 : backlog'[r][i] = backlog[r][i + 1]
  BY <1>1
<1>3. \A i \in 1..Len(telemetry) : telemetry[i].run \in Run
  BY LineFields
<1>4. ASSUME NEW i \in 1..Len(telemetry), telemetry[i].run = r
      PROVE  /\ telemetry[i].call < handling'[r]
             /\ \A k \in 1..Len(backlog'[r]) : telemetry[i].call < backlog'[r][k]
  <2>1. \A k \in 1..Len(backlog[r]) : telemetry[i].call < backlog[r][k]
    BY <1>4 DEF OrderInv
  <2>2. 1 \in 1..Len(backlog[r])
        /\ \A k \in 1..Len(backlog'[r]) : k + 1 \in 1..Len(backlog[r]) /\ k \in 1..Len(backlog[r]) - 1
    BY <1>2
  <2> QED
    BY <1>2, <2>1, <2>2
<1>5. ASSUME NEW i \in 1..Len(telemetry)
      PROVE  LET p == telemetry[i].run
                 c == telemetry[i].call
             IN  /\ c <= count'[p]
                 /\ thread'[p] \in {"recv", "reply", "emit"} => c < handling'[p]
                 /\ thread'[p] = "close" => c <= handling'[p]
                 /\ \A k \in 1..Len(backlog'[p]) : c < backlog'[p][k]
  <2>1. CASE telemetry[i].run = r
    BY <1>1, <1>4, <2>1 DEF OrderInv
  <2>2. CASE telemetry[i].run # r
    BY <1>1, <1>3, <2>2 DEF OrderInv
  <2> QED
    BY <2>1, <2>2
<1> QED
  BY <1>1, <1>5 DEF OrderInv

\* What Emit does to the file and to its gateway.
LEMMA EmitStep ==
  ASSUME ShapeInv, NEW r \in Run, Emit(r)
  PROVE  /\ handling[r] \in Call /\ handling[r] <= count[r] /\ Len(telemetry) \in Nat
         /\ Len(telemetry') = Len(telemetry) + 1
         /\ DOMAIN telemetry = 1..Len(telemetry) /\ DOMAIN telemetry' = 1..Len(telemetry) + 1
         /\ \A i \in 1..Len(telemetry) : /\ telemetry'[i] = telemetry[i]
                                         /\ telemetry[i].run \in Run /\ telemetry[i].call \in Call
         /\ telemetry'[Len(telemetry) + 1].run = r
         /\ telemetry'[Len(telemetry) + 1].call = handling[r]
         /\ telemetry'[Len(telemetry) + 1].result = status[r]
         /\ thread[r] = "emit" /\ thread'[r] = "close"
         /\ \A p \in Run : p # r => thread'[p] = thread[p]
         /\ UNCHANGED <<client, handling, status, outcome, reply, hungUp, storage, shared>>
<1>1. /\ thread[r] = "emit" /\ thread'[r] = "close"
      /\ \A p \in Run : p # r => thread'[p] = thread[p]
      /\ telemetry' = Append(telemetry, Line(r, handling[r], status[r]))
      /\ UNCHANGED <<client, handling, status, outcome, reply, hungUp, storage, shared>>
  BY DEF ShapeInv, TypeOK, Emit, At, Goes
<1>2. Line(r, handling[r], status[r]) \in Lines /\ telemetry \in Seq(Lines)
  BY EmitShape DEF ShapeInv, TypeOK
<1>3. handling[r] \in Call /\ handling[r] <= count[r]
  BY <1>1, Served DEF Serving
<1>4. /\ Line(r, handling[r], status[r]).run = r
      /\ Line(r, handling[r], status[r]).call = handling[r]
      /\ Line(r, handling[r], status[r]).result = status[r]
  BY DEF Line
<1>5. \A i \in 1..Len(telemetry) : telemetry[i].run \in Run /\ telemetry[i].call \in Call
  BY LineFields
<1> QED
  BY <1>1, <1>2, <1>3, <1>4, <1>5, AppendedLine

\* The line of the call that is served comes after those of its gateway.
LEMMA EmitOrder ==
  ASSUME ShapeInv, OrderInv, NEW r \in Run, Emit(r)
  PROVE  OrderInv'
<1> DEFINE n == Len(telemetry) + 1
<1>1. /\ count' = count /\ backlog' = backlog /\ handling' = handling
  BY EmitStep DEF client, shared
<1>2. \A i \in 1..Len(telemetry) : telemetry[i].run = r => telemetry[i].call < handling[r]
  BY EmitStep DEF OrderInv
<1>3. \A i, j \in 1..n :
        i < j /\ telemetry'[i].run = telemetry'[j].run => telemetry'[i].call < telemetry'[j].call
  <2> SUFFICES ASSUME NEW i \in 1..n, NEW j \in 1..n, i < j,
                      telemetry'[i].run = telemetry'[j].run
               PROVE  telemetry'[i].call < telemetry'[j].call
    OBVIOUS
  <2>1. Len(telemetry) \in Nat /\ i \in 1..Len(telemetry)
    BY EmitStep
  <2>2. CASE j = n
    BY <1>2, <2>1, <2>2, EmitStep
  <2>3. CASE j # n
    <3>1. j \in 1..Len(telemetry)
      BY <2>1, <2>3
    <3> QED
      BY <2>1, <3>1, EmitStep DEF OrderInv
  <2> QED
    BY <2>2, <2>3
<1>4. \A k \in 1..Len(backlog[r]) : handling[r] < backlog[r][k]
  BY DEF ShapeInv, ServeInv
<1>5. handling[r] <= handling[r]
  BY EmitStep DEF Call
<1>6. ASSUME NEW i \in 1..n
      PROVE  LET p == telemetry'[i].run
                 c == telemetry'[i].call
             IN  /\ c <= count[p]
                 /\ thread'[p] \in {"recv", "reply", "emit"} => c < handling[p]
                 /\ thread'[p] = "close" => c <= handling[p]
                 /\ \A k \in 1..Len(backlog[p]) : c < backlog[p][k]
  <2>1. CASE i = n
    BY <1>4, <1>5, <2>1, EmitStep
  <2>2. CASE i # n
    <3>1. i \in 1..Len(telemetry) /\ telemetry'[i] = telemetry[i] /\ telemetry[i].run \in Run
          /\ telemetry[i].call \in Nat /\ handling[r] \in Nat
      BY <2>2, EmitStep DEF Call
    <3>2. telemetry[i].run = r => telemetry[i].call <= handling[r]
      BY <1>2, <3>1
    <3> QED
      BY <3>1, <3>2, EmitStep DEF OrderInv
  <2> QED
    BY <2>1, <2>2
<1>7. Len(telemetry') = n
  BY EmitStep
<1> QED
  BY <1>1, <1>3, <1>6, <1>7 DEF OrderInv

\* Every step keeps the order.
LEMMA OrderNext == ShapeInv /\ OrderInv /\ [Next]_vars => OrderInv'
<1> SUFFICES ASSUME ShapeInv, OrderInv, [Next]_vars PROVE OrderInv'
  OBVIOUS
<1>1. CASE UNCHANGED vars
  BY <1>1, OrderFrame DEF vars, client, server, shared
<1>2. CASE Connect
  BY <1>2, ConnectOrder
<1>3. CASE Ready \/ StartTimesOut \/ ConnectTimesOut \/ Send \/ Receive \/ GoOn \/ TimesOut
           \/ Deadline \/ Stop \/ Join \/ Harvest \/ Unlink
  BY <1>3, OrderFrame
  DEF Ready, StartTimesOut, ConnectTimesOut, Send, Receive, GoOn, TimesOut, Deadline, Stop, Join,
      Harvest, Unlink, server, shared
<1>4. CASE StartGateway \/ CloseListener
  BY <1>4, OrderFrame DEF StartGateway, CloseListener, server, shared, Serving, ShapeInv, TypeOK
<1>5. ASSUME NEW r \in Run, Accept(r)
      PROVE  OrderInv'
  BY <1>5, AcceptOrder
<1>6. ASSUME NEW r \in Run, Emit(r)
      PROVE  OrderInv'
  BY <1>6, EmitOrder
<1>7. ASSUME NEW r \in Run, Bind(r) \/ TestStop(r) \/ AcceptEnds(r) \/ Reject(r) \/ Apply(r) \/ Reply(r)
      PROVE  OrderInv'
  BY <1>7, OrderFrame, ZenonT(60)
  DEF Bind, TestStop, AcceptEnds, Reject, Apply, Reply, At, Goes, client, shared, Serving,
      ShapeInv, TypeOK
<1>8. ASSUME NEW r \in Run, CloseConnection(r)
      PROVE  OrderInv'
  BY <1>8, OrderFrame DEF CloseConnection, At, Goes, client, shared, Serving, ShapeInv, TypeOK
<1> QED
  BY <1>1, <1>2, <1>3, <1>4, <1>5, <1>6, <1>7, <1>8 DEF Next, MainStep, ThreadStep
-----------------------------------------------------------------------------
(* What the gateway knows of its calls, and what their lines report.       *)

\* A step that leaves alone the calls and what is known of those served.
LEMMA CallFrame ==
  ASSUME ShapeInv, CallInv,
         UNCHANGED <<outcome, reply, hungUp, telemetry, status, handling>>,
         \A r \in Run : thread'[r] \in Serving => thread'[r] = thread[r]
  PROVE  CallInv'
<1>1. \A r, c : Logged(r, c)' <=> Logged(r, c)
  BY DEF Logged
<1>2. \A r, c : Told(r, c)' = Told(r, c)
  BY DEF Told
<1>3. KnownInv'
  BY <1>1 DEF CallInv, KnownInv
<1>4. ServedInv'
  BY <1>1, <1>2 DEF CallInv, ServedInv
<1>5. LinesTell'
  BY <1>2 DEF CallInv, LinesTell
<1> QED
  BY <1>3, <1>4, <1>5 DEF CallInv

\* Nothing is known of a call that waits.
LEMMA AcceptCall ==
  ASSUME ShapeInv, OrderInv, CallInv, NEW r \in Run, Accept(r)
  PROVE  CallInv'
<1>1. /\ backlog[r] \in Seq(Call) /\ backlog[r] # << >> /\ thread[r] = "accept"
      /\ UNCHANGED <<outcome, reply, hungUp, telemetry>>
      /\ thread'[r] = "recv" /\ handling'[r] = Head(backlog[r]) /\ status'[r] = "PROTOCOL_ERROR"
      /\ \A p \in Run : p # r => /\ thread'[p] = thread[p] /\ handling'[p] = handling[p]
                                 /\ status'[p] = status[p]
  BY DEF ShapeInv, TypeOK, Accept, At, Goes
<1>2. /\ 1 \in 1..Len(backlog[r]) /\ handling'[r] = backlog[r][1] /\ handling'[r] \in Call
  BY <1>1
<1>3. handling[r] = 0
  BY <1>1 DEF ShapeInv, ServeInv, Serving
<1>4. ~ Logged(r, handling'[r])
  <2> SUFFICES ASSUME NEW i \in 1..Len(telemetry), telemetry[i].run = r,
                      telemetry[i].call = handling'[r]
               PROVE  FALSE
    BY LineFields DEF Logged
  <2>1. telemetry[i].call < backlog[r][1]
    BY <1>2 DEF OrderInv
  <2> QED
    BY <1>2, <2>1 DEF Call
<1>5. outcome[r][handling'[r]] = NotYet /\ reply[r][handling'[r]] = NotYet
  BY <1>2, <1>3, <1>4 DEF CallInv, KnownInv, Call
<1>6. \A p, c : Logged(p, c)' <=> Logged(p, c)
  BY <1>1 DEF Logged
<1>7. \A p, c : Told(p, c)' = Told(p, c)
  BY <1>1 DEF Told
<1>8. KnownInv'
  BY <1>1, <1>3, <1>6 DEF CallInv, KnownInv, Call
<1>9. ServedInv'
  BY <1>1, <1>5, <1>6, <1>7 DEF CallInv, ServedInv
<1>10. LinesTell'
  BY <1>1, <1>7 DEF CallInv, LinesTell
<1> QED
  BY <1>8, <1>9, <1>10 DEF CallInv

\* Nobody is told anything of a request that is malformed.
LEMMA RejectCall ==
  ASSUME ShapeInv, CallInv, NEW r \in Run, Reject(r)
  PROVE  CallInv'
<1>1. /\ thread[r] = "recv" /\ thread'[r] = "emit"
      /\ UNCHANGED <<outcome, reply, hungUp, telemetry, handling, status>>
      /\ \A p \in Run : p # r => thread'[p] = thread[p]
  BY DEF ShapeInv, TypeOK, Reject, At, Goes
<1>2. \A p, c : Logged(p, c)' <=> Logged(p, c)
  BY <1>1 DEF Logged
<1>3. \A p, c : Told(p, c)' = Told(p, c)
  BY <1>1 DEF Told
<1>4. status[r] = Told(r, handling[r])
  BY <1>1 DEF CallInv, ServedInv, Serving, Told
<1>5. KnownInv'
  BY <1>1, <1>2 DEF CallInv, KnownInv
<1>6. ServedInv'
  BY <1>1, <1>2, <1>3, <1>4 DEF CallInv, ServedInv
<1>7. LinesTell'
  BY <1>1, <1>3 DEF CallInv, LinesTell
<1> QED
  BY <1>5, <1>6, <1>7 DEF CallInv

\* An operation has a result, of which nobody has been told yet.
LEMMA ApplyCall ==
  ASSUME ShapeInv, CallInv, NEW r \in Run, Apply(r)
  PROVE  CallInv'
<1> DEFINE c == handling[r]
           result == Result(storage[r], call[r][c])
<1>1. /\ thread[r] = "recv" /\ thread'[r] = "reply" /\ call[r][c].op # "MALFORMED"
      /\ outcome' = [outcome EXCEPT ![r][c] = result]
      /\ status'[r] = result.status
      /\ UNCHANGED <<reply, hungUp, telemetry, handling>>
      /\ \A p \in Run : p # r => thread'[p] = thread[p] /\ status'[p] = status[p]
  BY DEF ShapeInv, TypeOK, Apply, At, Goes
<1>2. c \in Call /\ call[r][c] \in Requests /\ storage[r] \in [Keys -> Values \union {NoValue}]
  BY <1>1, Served DEF Serving, ShapeInv, TypeOK
<1>3. result # NotYet
  BY <1>1, <1>2, EffectTypes, NotYetAssumption
<1> HIDE DEF c, result
<1>4. /\ outcome'[r][c] = result
      /\ \A p \in Run, d \in Call : p # r \/ d # c => outcome'[p][d] = outcome[p][d]
  BY <1>1, <1>2 DEF ShapeInv, TypeOK
<1>5. \A p, d : Logged(p, d)' <=> Logged(p, d)
  BY <1>1 DEF Logged
<1>6. \A p, d : Told(p, d)' = Told(p, d)
  BY <1>1 DEF Told
<1>7. reply[r][c] = NotYet
  BY <1>1 DEF CallInv, ServedInv, Serving, c
<1>8. KnownInv'
  BY <1>1, <1>4, <1>5, <1>7 DEF CallInv, KnownInv, c
<1>9. ServedInv'
  <2>1. \A p \in Run : thread[p] \in Serving => handling[p] \in Call
    BY Served
  <2> QED
    BY <1>1, <1>3, <1>4, <1>5, <1>6, <1>7, <2>1 DEF CallInv, ServedInv, c, Serving
<1>10. LinesTell'
  BY <1>1, <1>6 DEF CallInv, LinesTell
<1> QED
  BY <1>8, <1>9, <1>10 DEF CallInv

\* The status is that of the answer, or an error when it found nobody.
LEMMA ReplyCall ==
  ASSUME ShapeInv, OrderInv, CallInv, NEW r \in Run, Reply(r)
  PROVE  CallInv'
<1> DEFINE c == handling[r]
<1>1. /\ thread[r] = "reply" /\ thread'[r] = "emit"
      /\ \/ reply' = [reply EXCEPT ![r][c] = outcome[r][c]] /\ status' = status
         \/ reply' = reply /\ status' = [status EXCEPT ![r] = "PROTOCOL_ERROR"]
      /\ UNCHANGED <<outcome, hungUp, telemetry, handling>>
      /\ \A p \in Run : p # r => thread'[p] = thread[p]
  BY DEF ShapeInv, TypeOK, Reply, At, Goes
<1>2. c \in Call
  BY <1>1, Served DEF Serving
<1>3. /\ outcome[r][c] # NotYet /\ reply[r][c] = NotYet /\ status[r] = outcome[r][c].status
  BY <1>1 DEF CallInv, ServedInv, Serving
<1> HIDE DEF c
<1>4. /\ \/ reply'[r][c] = outcome[r][c] /\ status'[r] = status[r]
         \/ reply'[r][c] = reply[r][c] /\ status'[r] = "PROTOCOL_ERROR"
      /\ \A p \in Run, d \in Call : p # r \/ d # c => reply'[p][d] = reply[p][d]
      /\ \A p \in Run : p # r => status'[p] = status[p]
  <2>1. CASE reply' = [reply EXCEPT ![r][c] = outcome[r][c]] /\ status' = status
    BY <1>2, <2>1 DEF ShapeInv, TypeOK
  <2>2. CASE reply' = reply /\ status' = [status EXCEPT ![r] = "PROTOCOL_ERROR"]
    BY <2>2 DEF ShapeInv, TypeOK
  <2> QED
    BY <1>1, <2>1, <2>2
<1>5. \A p, d : Logged(p, d)' <=> Logged(p, d)
  BY <1>1 DEF Logged
<1>6. \A p \in Run, d \in Call : p # r \/ d # c => Told(p, d)' = Told(p, d)
  BY <1>4 DEF Told
<1>7. status'[r] = Told(r, c)'
  BY <1>1, <1>3, <1>4 DEF Told, c
<1>8. KnownInv'
  BY <1>1, <1>2, <1>3, <1>4, <1>5 DEF CallInv, KnownInv
<1>9. ServedInv'
  <2>1. \A p \in Run : thread[p] \in Serving => handling[p] \in Call
    BY Served
  <2> QED
    BY <1>1, <1>4, <1>5, <1>6, <1>7, <2>1 DEF CallInv, ServedInv, c
<1>10. LinesTell'
  <2> SUFFICES ASSUME NEW i \in 1..Len(telemetry)
               PROVE  telemetry[i].result = Told(telemetry[i].run, telemetry[i].call)'
    BY <1>1 DEF LinesTell
  <2>1. telemetry[i].run # r \/ telemetry[i].call # c
    <3>1. telemetry[i].run = r => telemetry[i].call < c
      BY <1>1 DEF OrderInv, c
    <3> QED
      BY <1>2, <3>1 DEF Call
  <2>2. telemetry[i].run \in Run /\ telemetry[i].call \in Call
    BY LineFields
  <2> QED
    BY <1>1, <1>6, <2>1, <2>2 DEF CallInv, LinesTell
<1> QED
  BY <1>8, <1>9, <1>10 DEF CallInv

\* The line of a call.
LEMMA EmitCall ==
  ASSUME ShapeInv, CallInv, NEW r \in Run, Emit(r)
  PROVE  CallInv'
<1> DEFINE c == handling[r]
           n == Len(telemetry) + 1
<1>1. UNCHANGED <<outcome, reply, hungUp, handling, status>>
  BY EmitStep
<1>2. \A p, d : Told(p, d)' = Told(p, d)
  BY <1>1 DEF Told
<1>3. n \in 1..n /\ (\A i \in 1..Len(telemetry) : i \in 1..n) /\ Len(telemetry') = n
      /\ \A i \in 1..n : i = n \/ i \in 1..Len(telemetry)
  BY EmitStep
<1>4. \A p, d : Logged(p, d) => Logged(p, d)'
  BY <1>3, EmitStep DEF Logged
<1>5. Logged(r, c)'
  BY <1>3, EmitStep DEF Logged
<1>6. status[r] = Told(r, c)
  BY EmitStep DEF CallInv, ServedInv, Serving
<1>7. KnownInv'
  BY <1>1, <1>4 DEF CallInv, KnownInv
<1>8. ServedInv'
  BY <1>1, <1>2, <1>4, <1>5, EmitStep DEF CallInv, ServedInv
<1>9. LinesTell'
  BY <1>2, <1>3, <1>6, EmitStep DEF CallInv, LinesTell
<1> QED
  BY <1>7, <1>8, <1>9 DEF CallInv

\* A connection is closed once its call has a line.
LEMMA CloseConnectionCall ==
  ASSUME ShapeInv, CallInv, NEW r \in Run, CloseConnection(r)
  PROVE  CallInv'
<1>1. /\ thread[r] = "close" /\ thread'[r] = "loop" /\ handling'[r] = 0
      /\ UNCHANGED <<outcome, reply, telemetry, status>>
      /\ hungUp'[r] = hungUp[r] \union {handling[r]}
      /\ \A p \in Run : p # r => /\ thread'[p] = thread[p] /\ handling'[p] = handling[p]
                                 /\ hungUp'[p] = hungUp[p]
  BY DEF ShapeInv, TypeOK, CloseConnection, At, Goes
<1>2. Logged(r, handling[r])
  BY <1>1 DEF CallInv, ServedInv, Serving
<1>3. \A p, c : Logged(p, c)' <=> Logged(p, c)
  BY <1>1 DEF Logged
<1>4. \A p, c : Told(p, c)' = Told(p, c)
  BY <1>1 DEF Told
<1>5. KnownInv'
  BY <1>1, <1>2, <1>3 DEF CallInv, KnownInv
<1>6. ServedInv'
  BY <1>1, <1>3, <1>4 DEF CallInv, ServedInv, Serving
<1>7. LinesTell'
  BY <1>1, <1>4 DEF CallInv, LinesTell
<1> QED
  BY <1>5, <1>6, <1>7 DEF CallInv

\* Every step keeps what is known of the calls.
LEMMA CallNext == ShapeInv /\ OrderInv /\ CallInv /\ [Next]_vars => CallInv'
<1> SUFFICES ASSUME ShapeInv, OrderInv, CallInv, [Next]_vars PROVE CallInv'
  OBVIOUS
<1>1. CASE UNCHANGED vars
  BY <1>1, CallFrame DEF vars, server
<1>2. CASE StartGateway
  BY <1>2, CallFrame DEF StartGateway, ShapeInv, TypeOK, Serving
<1>3. CASE \/ Ready \/ StartTimesOut \/ Connect \/ ConnectTimesOut \/ Send \/ Receive \/ GoOn
           \/ TimesOut \/ Deadline \/ Stop \/ CloseListener \/ Join \/ Harvest \/ Unlink
  <2>1. UNCHANGED <<outcome, reply, hungUp, telemetry, status, handling, thread>>
    BY <1>3 DEF Ready, StartTimesOut, Connect, ConnectTimesOut, Send, Receive, GoOn, TimesOut,
                Deadline, Stop, CloseListener, Join, Harvest, Unlink, server
  <2> QED
    BY <2>1, CallFrame
<1>4. ASSUME NEW r \in Run, Bind(r) \/ TestStop(r) \/ AcceptEnds(r)
      PROVE  CallInv'
  BY <1>4, CallFrame DEF Bind, TestStop, AcceptEnds, Goes, ShapeInv, TypeOK, Serving
<1>5. ASSUME NEW r \in Run, ThreadStep(r)
      PROVE  CallInv'
  BY <1>4, <1>5, AcceptCall, RejectCall, ApplyCall, ReplyCall, EmitCall, CloseConnectionCall
  DEF ThreadStep
<1> QED
  BY <1>1, <1>2, <1>3, <1>5 DEF Next, MainStep

\* The invariant holds at first.
LEMMA OrderCallInit == Init => OrderInv /\ CallInv
<1> SUFFICES ASSUME Init PROVE OrderInv /\ CallInv
  OBVIOUS
<1>1. telemetry = << >> /\ Len(telemetry) = 0 /\ DOMAIN telemetry = {}
  BY DEF Init
<1>2. /\ \A r \in Run : thread[r] = "none" /\ hungUp[r] = {}
      /\ \A r \in Run, c \in Call : outcome[r][c] = NotYet /\ reply[r][c] = NotYet
  BY DEF Init
<1>3. \A i \in 1..Len(telemetry) : FALSE
  BY <1>1
<1> QED
  BY <1>2, <1>3 DEF OrderInv, CallInv, KnownInv, ServedInv, LinesTell, Serving

CallsInv == ShapeInv /\ OrderInv /\ CallInv

\* What is known of every call follows from the code, whatever times out.
LEMMA CallsCorrect == Spec => []CallsInv
<1>1. Init => CallsInv
  BY ShapeInit, OrderCallInit DEF CallsInv
<1>2. CallsInv /\ [Next]_vars => CallsInv'
  BY ShapeNext, OrderNext, CallNext DEF CallsInv
<1> QED
  BY <1>1, <1>2, PTL DEF Spec

\* MockGateway._handle: whatever times out, a call the gateway has finished with
\* has exactly one line in the telemetry file, in the order of the calls, and
\* the line reports what the client was told.
THEOREM OneLine == Spec => []OneLineToACall
<1>1. CallsInv => OneLineToACall
  <2> SUFFICES ASSUME CallsInv PROVE OneLineToACall
    OBVIOUS
  <2>1. DOMAIN telemetry = 1..Len(telemetry)
    BY LineFields DEF CallsInv
  <2>2. \A i, j \in DOMAIN telemetry :
          i < j /\ telemetry[i].run = telemetry[j].run => telemetry[i].call < telemetry[j].call
    BY <2>1 DEF CallsInv, OrderInv
  <2>3. \A r \in Run, c \in Call :
          outcome[r][c] # NotYet \/ reply[r][c] # NotYet \/ c \in hungUp[r] =>
            c = handling[r] \/ Logged(r, c)
    BY DEF CallsInv, CallInv, KnownInv
  <2>4. \A i \in DOMAIN telemetry :
          LET told == reply[telemetry[i].run][telemetry[i].call]
          IN  telemetry[i].result = IF told # NotYet THEN told.status ELSE "PROTOCOL_ERROR"
    BY <2>1 DEF CallsInv, CallInv, LinesTell, Told
  <2> QED
    BY <2>2, <2>3, <2>4 DEF OneLineToACall
<1> QED
  BY <1>1, CallsCorrect, PTL

-----------------------------------------------------------------------------
(* What the features are computed from.                                    *)

\* A thread leaves alone the calls of the client and keeps what was answered.
LEMMA ThreadKeeps ==
  ASSUME ShapeInv, CallInv, NEW r \in Run, ThreadStep(r)
  PROVE  /\ client' = client
         /\ \A p \in Run, c \in Call : reply[p][c] # NotYet => reply'[p][c] = reply[p][c]
         /\ \A p \in Run : thread[p] = "gone" => thread'[p] = "gone"
         /\ main \notin {"done", "failed"}
<1>1. CASE Reply(r)
  <2>1. /\ thread[r] = "reply" /\ client' = client /\ main \notin {"done", "failed"}
        /\ thread' = [thread EXCEPT ![r] = "emit"]
        /\ \/ reply' = [reply EXCEPT ![r][handling[r]] = outcome[r][handling[r]]]
           \/ reply' = reply
    BY <1>1 DEF Reply, At, Goes
  <2>2. handling[r] \in Call /\ reply[r][handling[r]] = NotYet
    BY <2>1, Served DEF Serving, CallInv, ServedInv
  <2>3. \A p \in Run, c \in Call : reply[p][c] # NotYet => reply'[p][c] = reply[p][c]
    <3>1. CASE reply' = [reply EXCEPT ![r][handling[r]] = outcome[r][handling[r]]]
      BY <2>2, <3>1 DEF ShapeInv, TypeOK
    <3>2. CASE reply' = reply
      BY <3>2
    <3> QED
      BY <2>1, <3>1, <3>2
  <2> QED
    BY <2>1, <2>3 DEF ShapeInv, TypeOK
<1>2. CASE ~ Reply(r)
  <2>1. CASE Bind(r) \/ TestStop(r) \/ Accept(r) \/ AcceptEnds(r) \/ Reject(r)
    BY <2>1 DEF Bind, TestStop, Accept, AcceptEnds, Reject, At, Goes, ShapeInv, TypeOK
  <2>2. CASE Apply(r) \/ Emit(r) \/ CloseConnection(r)
    BY <2>2 DEF Apply, Emit, CloseConnection, At, Goes, ShapeInv, TypeOK
  <2> QED
    BY <1>2, <2>1, <2>2, ThreadStep(r) DEF ThreadStep
<1> QED
  BY <1>1, <1>2

\* The calls that a new one leaves alone.
LEMMA ConnectStep ==
  ASSUME ShapeInv, Connect
  PROVE  /\ run \in Run /\ count[run] \in Nat /\ count'[run] = count[run] + 1
         /\ main = "work" /\ main' = "send"
         /\ \A r \in Run : r # run => count'[r] = count[r]
         /\ \A r \in Run, c \in Call : r # run \/ c # count[run] + 1 => call'[r][c] = call[r][c]
         /\ count[run] + 1 \in Call
         /\ UNCHANGED <<run, answer, failing, gaveUp, harvest, server>>
<1>1. run \in Run /\ count[run] \in 0..MaxCalls /\ MaxCalls \in Nat /\ count[run] < MaxCalls
  BY RunsAssumption DEF ShapeInv, TypeOK, Connect, Current
<1>2. PICK q : call' = [call EXCEPT ![run][count[run] + 1] = q]
  BY DEF Connect, Current
<1>3. count[run] + 1 \in Call
  BY <1>1 DEF Call
<1>4. \A r \in Run, c \in Call : r # run \/ c # count[run] + 1 => call'[r][c] = call[r][c]
  BY <1>1, <1>2, <1>3 DEF ShapeInv, TypeOK
<1> QED
  BY <1>1, <1>3, <1>4 DEF Connect, Current, ShapeInv, TypeOK

\* The main thread goes on with an answer, after a malformed request, or not at all.
LEMMA AnsweredNext == ShapeInv /\ CallInv /\ AnsweredInv /\ [Next]_vars => AnsweredInv'
<1> SUFFICES ASSUME ShapeInv, CallInv, AnsweredInv, [Next]_vars PROVE AnsweredInv'
  OBVIOUS
<1> USE DEF AnsweredInv, ClientOpen
<1>1. CASE UNCHANGED vars
  BY <1>1 DEF vars, client, server
<1>2. CASE Connect
  <2> SUFFICES ASSUME NEW r \in Run, NEW c \in Call, c <= count'[r], ~ failing,
                      ~ (r = run /\ c = count'[r]), call'[r][c].op # "MALFORMED"
               PROVE  reply[r][c] # NotYet
    BY <1>2, ConnectStep DEF server
  <2>1. c <= count[r] /\ call'[r][c] = call[r][c]
    BY <1>2, ConnectStep DEF Call
  <2> QED
    BY <1>2, <2>1, ConnectStep
<1>3. CASE Receive \/ GoOn
  <2>1. /\ main = "wait" /\ main' = "work" /\ UNCHANGED <<run, count, call, failing, reply>>
        /\ reply[run][count[run]] # NotYet \/ call[run][count[run]].op = "MALFORMED"
    BY <1>3 DEF Receive, GoOn, Asked, Current, server
  <2> QED
    BY <2>1
<1>4. CASE TimesOut \/ ConnectTimesOut
  BY <1>4 DEF TimesOut, ConnectTimesOut
<1>5. CASE \/ StartGateway \/ Ready \/ StartTimesOut \/ Send \/ Deadline \/ Stop \/ CloseListener
           \/ Join \/ Harvest \/ Unlink
  <2>1. UNCHANGED <<count, call, failing, reply>>
    BY <1>5 DEF StartGateway, Ready, StartTimesOut, Send, Deadline, Stop, CloseListener, Join,
                Harvest, Unlink, server
  <2>2. \/ main \notin {"send", "wait"}
        \/ main = "send" /\ main' = "wait" /\ run' = run
    BY <1>5 DEF StartGateway, Ready, StartTimesOut, Send, Deadline, Stop, CloseListener, Join,
                Harvest, Unlink
  <2> QED
    BY <2>1, <2>2
<1>6. ASSUME NEW r \in Run, ThreadStep(r)
      PROVE  AnsweredInv'
  BY <1>6, ThreadKeeps DEF client
<1> QED
  BY <1>1, <1>2, <1>3, <1>4, <1>5, <1>6 DEF Next, MainStep

\* A thread is joined or left behind before the next is started.
LEMMA JoinedNext == ShapeInv /\ CallInv /\ JoinedInv /\ [Next]_vars => JoinedInv'
<1> SUFFICES ASSUME ShapeInv, CallInv, JoinedInv, [Next]_vars PROVE JoinedInv'
  OBVIOUS
<1> USE DEF JoinedInv
<1>1. CASE UNCHANGED vars
  BY <1>1 DEF vars, client, server
<1>2. CASE StartGateway
  BY <1>2 DEF StartGateway, ShapeInv, TypeOK, Run
<1>3. CASE Join
  BY <1>3 DEF Join, server
<1>4. CASE Unlink
  <2>1. /\ main = "unlink" /\ gaveUp' = gaveUp /\ thread' = thread
        /\ \/ main' \in {"failed", "harvest"} /\ run' = run
           \/ main' = "start" /\ run' = run + 1
    BY <1>4 DEF Unlink, server
  <2>2. \A r \in Run : r < run + 1 => r < run \/ r = run
    BY DEF ShapeInv, TypeOK, Run
  <2> QED
    BY <2>1, <2>2
<1>5. CASE Harvest
  BY <1>5 DEF Harvest, server
<1>6. CASE \/ Ready \/ StartTimesOut \/ Connect \/ ConnectTimesOut \/ Send \/ Receive \/ GoOn
           \/ TimesOut \/ Deadline \/ Stop \/ CloseListener
  BY <1>6 DEF Ready, StartTimesOut, Connect, ConnectTimesOut, Send, Receive, GoOn, TimesOut,
              Deadline, Stop, CloseListener, server
<1>7. ASSUME NEW r \in Run, ThreadStep(r)
      PROVE  JoinedInv'
  BY <1>7, ThreadKeeps DEF client
<1> QED
  BY <1>1, <1>2, <1>3, <1>4, <1>5, <1>6, <1>7 DEF Next, MainStep

\* Only the gateway of the current run writes while none is left behind.
LEMMA ByRunNext == ShapeInv /\ JoinedInv /\ ByRun /\ [Next]_vars => ByRun'
<1> SUFFICES ASSUME ShapeInv, JoinedInv, ByRun, [Next]_vars PROVE ByRun'
  OBVIOUS
<1>1. ASSUME NEW r \in Run, Emit(r)
      PROVE  ByRun'
  <2> DEFINE n == Len(telemetry) + 1
  <2>1. /\ run' = run /\ gaveUp' = gaveUp /\ Len(telemetry') = n /\ telemetry'[n].run = r
        /\ \A i \in 1..n : i = n \/ i \in 1..Len(telemetry)
    BY <1>1, EmitStep DEF client
  <2>2. thread[r] = "emit" /\ r \in Nat /\ run \in Nat
    <3>1. run \in Run
      BY DEF ShapeInv, TypeOK
    <3>2. r \in Nat /\ run \in Nat
      BY <3>1 DEF Run
    <3> QED
      BY <1>1, <3>2, EmitStep
  <2>3. r <= run
    <3>1. ~ (r > run)
      BY <2>2 DEF ShapeInv, RunInv
    <3> QED
      BY <2>2, <3>1
  <2>4. gaveUp = {} => r = run
    <3>1. gaveUp = {} => ~ (r < run)
      BY <2>2 DEF JoinedInv
    <3> QED
      BY <2>2, <2>3, <3>1
  <2>5. \A i \in 1..n : telemetry'[i].run <= run
    BY <1>1, <2>1, <2>3, EmitStep DEF ByRun
  <2>6. ASSUME gaveUp = {}, NEW i \in 1..n, NEW j \in 1..n, i < j
        PROVE  telemetry'[i].run <= telemetry'[j].run
    <3>1. i \in 1..Len(telemetry)
      BY <1>1, <2>6, EmitStep
    <3>2. CASE j = n
      BY <1>1, <2>1, <2>4, <2>5, <2>6, <3>1, <3>2
    <3>3. CASE j \in 1..Len(telemetry)
      BY <1>1, <2>6, <3>1, <3>3, EmitStep DEF ByRun
    <3> QED
      BY <2>1, <3>2, <3>3
  <2> QED
    BY <2>1, <2>5, <2>6 DEF ByRun
<1>2. CASE UNCHANGED vars
  BY <1>2 DEF ByRun, vars, client, server
<1>3. CASE Unlink
  <2>1. /\ telemetry' = telemetry /\ gaveUp' = gaveUp /\ run \in Nat
        /\ run' = run \/ run' = run + 1
    BY <1>3 DEF Unlink, server, ShapeInv, TypeOK, Run
  <2>2. \A i \in 1..Len(telemetry) : telemetry[i].run \in Nat
    BY LineFields DEF Run
  <2> QED
    BY <2>1, <2>2 DEF ByRun
<1>4. CASE Join
  <2>1. telemetry' = telemetry /\ run' = run /\ (gaveUp' = {} => gaveUp = {})
    BY <1>4 DEF Join, server
  <2> QED
    BY <2>1 DEF ByRun
<1>5. CASE \/ StartGateway \/ Ready \/ StartTimesOut \/ Connect \/ ConnectTimesOut \/ Send
           \/ Receive \/ GoOn \/ TimesOut \/ Deadline \/ Stop \/ CloseListener \/ Harvest
  <2>1. UNCHANGED <<telemetry, run, gaveUp>>
    BY <1>5 DEF StartGateway, Ready, StartTimesOut, Connect, ConnectTimesOut, Send, Receive, GoOn,
                TimesOut, Deadline, Stop, CloseListener, Harvest, server
  <2> QED
    BY <2>1 DEF ByRun
<1>6. ASSUME NEW r \in Run,
             \/ Bind(r) \/ TestStop(r) \/ Accept(r) \/ AcceptEnds(r) \/ Reject(r) \/ Apply(r)
             \/ Reply(r) \/ CloseConnection(r)
      PROVE  ByRun'
  <2>1. UNCHANGED <<telemetry, run, gaveUp>>
    BY <1>6 DEF Bind, TestStop, Accept, AcceptEnds, Reject, Apply, Reply, CloseConnection, client
  <2> QED
    BY <2>1 DEF ByRun
<1> QED
  BY <1>1, <1>2, <1>3, <1>4, <1>5, <1>6 DEF Next, MainStep, ThreadStep

\* The threads end with the main thread.
LEMMA HarvestedNext == ShapeInv /\ CallInv /\ Harvested /\ [Next]_vars => Harvested'
<1> SUFFICES ASSUME ShapeInv, CallInv, Harvested, [Next]_vars PROVE Harvested'
  OBVIOUS
<1> USE DEF Harvested
<1>1. CASE UNCHANGED vars
  BY <1>1 DEF vars, client, server
<1>2. CASE Harvest
  BY <1>2 DEF Harvest, server
<1>3. CASE \/ StartGateway \/ Ready \/ StartTimesOut \/ Connect \/ ConnectTimesOut \/ Send
           \/ Receive \/ GoOn \/ TimesOut \/ Deadline \/ Stop \/ CloseListener \/ Join \/ Unlink
  <2>1. main # "done" /\ harvest' = harvest
    BY <1>3 DEF StartGateway, Ready, StartTimesOut, Connect, ConnectTimesOut, Send, Receive, GoOn,
                TimesOut, Deadline, Stop, CloseListener, Join, Unlink
  <2> QED
    BY <2>1
<1>4. ASSUME NEW r \in Run, ThreadStep(r)
      PROVE  Harvested'
  <2>1. main # "done" /\ harvest' = harvest
    BY <1>4, ThreadKeeps DEF client
  <2> QED
    BY <2>1
<1> QED
  BY <1>1, <1>2, <1>3, <1>4 DEF Next, MainStep

\* Nothing has been asked, written or read at first.
LEMMA HarvestInit == Init => HarvestInv
<1> SUFFICES ASSUME Init PROVE HarvestInv
  OBVIOUS
<1>1. telemetry = << >> /\ Len(telemetry) = 0
  BY DEF Init
<1>2. AnsweredInv
  BY DEF Init, AnsweredInv, Call
<1>3. JoinedInv
  BY DEF Init, JoinedInv, Run
<1>4. ByRun
  BY <1>1 DEF ByRun
<1>5. Harvested
  BY DEF Init, Harvested
<1> QED
  BY <1>2, <1>3, <1>4, <1>5 DEF HarvestInv

\* The threads that ended have written all their lines.
LEMMA HarvestCorrect == Spec => [](CallsInv /\ HarvestInv)
<1>1. Init => CallsInv /\ HarvestInv
  BY ShapeInit, OrderCallInit, HarvestInit DEF CallsInv
<1>2. CallsInv /\ HarvestInv /\ [Next]_vars => (CallsInv /\ HarvestInv)'
  BY ShapeNext, OrderNext, CallNext, AnsweredNext, JoinedNext, ByRunNext, HarvestedNext
  DEF CallsInv, HarvestInv
<1> QED
  BY <1>1, <1>2, PTL DEF Spec

\* MockGateway.stop: unless a thread was left behind, the features are computed
\* from the calls of all runs, one run after the other, and only a malformed
\* request whose connection was not closed may be missing.
THEOREM Complete == Spec => []HarvestComplete
<1>1. CallsInv /\ HarvestInv => HarvestComplete
  <2> SUFFICES ASSUME CallsInv, HarvestInv, harvest # NotYet PROVE HarvestComplete
    BY DEF HarvestComplete
  <2>1. ShapeInv /\ main = "done" /\ harvest = telemetry /\ ~ failing
        /\ DOMAIN telemetry = 1..Len(telemetry)
    BY LineFields DEF CallsInv, HarvestInv, Harvested, ShapeInv, RunInv
  <2>2. ASSUME NEW r \in Run \ gaveUp, NEW c \in 1..count[r]
        PROVE  \/ \E i \in DOMAIN harvest : harvest[i].run = r /\ harvest[i].call = c
               \/ call[r][c].op = "MALFORMED" /\ c \notin hungUp[r]
    <3>1. c \in Call /\ c <= count[r] /\ c # 0 /\ count[r] # 0
      BY <2>1, RunsAssumption DEF ShapeInv, TypeOK, Call
    <3>2. thread[r] = "gone" /\ handling[r] = 0
      <4>1. r < run \/ r = run
        BY <2>1, <3>1 DEF ShapeInv, TypeOK, RunInv, Run
      <4>2. thread[r] = "gone"
        BY <2>1, <4>1 DEF HarvestInv, JoinedInv
      <4> QED
        BY <2>1, <4>2 DEF ShapeInv, ServeInv, Serving
    <3>3. Logged(r, c) => \E i \in DOMAIN harvest : harvest[i].run = r /\ harvest[i].call = c
      BY <2>1 DEF Logged
    <3>4. reply[r][c] # NotYet \/ c \in hungUp[r] => Logged(r, c)
      BY <3>1, <3>2 DEF CallsInv, CallInv, KnownInv
    <3>5. call[r][c].op # "MALFORMED" => reply[r][c] # NotYet
      BY <2>1, <3>1 DEF HarvestInv, AnsweredInv, ClientOpen
    <3> QED
      BY <3>3, <3>4, <3>5
  <2>3. gaveUp = {} =>
          \A i, j \in DOMAIN harvest : i < j => harvest[i].run <= harvest[j].run
    BY <2>1 DEF HarvestInv, ByRun
  <2> QED
    BY <2>2, <2>3 DEF HarvestComplete
<1> QED
  BY <1>1, HarvestCorrect, PTL

-----------------------------------------------------------------------------
(* Towards its client each gateway is the map of KVStore.                  *)

\* The client reads an answer once.
LEMMA AnswerNext == ShapeInv /\ AnswerInv /\ [Next]_vars => AnswerInv'
<1> SUFFICES ASSUME ShapeInv, AnswerInv, [Next]_vars PROVE AnswerInv'
  OBVIOUS
<1> USE DEF AnswerInv, ClientOpen
<1>1. CASE UNCHANGED vars
  BY <1>1 DEF vars, client
<1>2. CASE Connect
  <2> SUFFICES ASSUME NEW r \in Run, NEW c \in Call,
                      c > count'[r] \/ (r = run /\ c = count'[r])
               PROVE  answer[r][c] = NotYet
    BY <1>2, ConnectStep
  <2>1. c > count[r]
    BY <1>2, ConnectStep DEF Call
  <2> QED
    BY <2>1
<1>3. CASE Receive
  <2>1. /\ main = "wait" /\ main' = "work" /\ UNCHANGED <<run, count>>
        /\ answer' = [answer EXCEPT ![run][count[run]] = reply[run][count[run]]]
        /\ run \in Run /\ count[run] \in Nat
    BY <1>3 DEF Receive, Current, ShapeInv, TypeOK
  <2>2. ASSUME NEW r \in Run, NEW c \in Call, c > count[r]
        PROVE  answer'[r][c] = NotYet
    <3>1. r # run \/ c # count[run]
      BY <2>1, <2>2 DEF Call
    <3>2. answer'[r][c] = answer[r][c]
      BY <2>1, <3>1 DEF ShapeInv, TypeOK
    <3> QED
      BY <2>2, <3>2
  <2> QED
    BY <2>1, <2>2
<1>4. CASE \/ StartGateway \/ Ready \/ StartTimesOut \/ ConnectTimesOut \/ Send \/ GoOn \/ TimesOut
           \/ Deadline \/ Stop \/ CloseListener \/ Join \/ Unlink \/ Harvest
  <2>1. UNCHANGED <<count, answer>>
    BY <1>4 DEF StartGateway, Ready, StartTimesOut, ConnectTimesOut, Send, GoOn, TimesOut, Deadline,
                Stop, CloseListener, Join, Unlink, Harvest
  <2>2. \/ main' \notin {"send", "wait"}
        \/ main = "send" /\ main' = "wait" /\ run' = run
    BY <1>4 DEF StartGateway, Ready, StartTimesOut, ConnectTimesOut, Send, GoOn, TimesOut, Deadline,
                Stop, CloseListener, Join, Unlink, Harvest
  <2> QED
    BY <2>1, <2>2
<1>5. ASSUME NEW r \in Run, ThreadStep(r)
      PROVE  AnswerInv'
  <2>1. client' = client
    BY <1>5 DEF ThreadStep, Bind, TestStop, Accept, AcceptEnds, Reject, Apply, Reply, Emit,
                CloseConnection
  <2> QED
    BY <2>1 DEF client
<1> QED
  BY <1>1, <1>2, <1>3, <1>4, <1>5 DEF Next, MainStep

\* An operation is that of the map.
LEMMA SameEffect ==
  ASSUME NEW r \in Run, NEW st, NEW q \in Requests, q.op # "MALFORMED"
  PROVE  /\ Result(st, q) = KV(r)!AnswerTo(st, q)
         /\ After(st, q) = KV(r)!StoreAfter(st, q)
<1>1. q.op \in {"PUT", "GET", "DELETE"}
  BY RequestFields
<1>2. Result(st, q) = KV(r)!AnswerTo(st, q)
  BY <1>1 DEF Result, Response, KV!AnswerTo, KV!Answer, KV!Found
<1>3. After(st, q) = KV(r)!StoreAfter(st, q)
  BY <1>1 DEF After, KV!StoreAfter
<1> QED
  BY <1>2, <1>3

\* The variables of the map of a gateway at the beginning.
LEMMA MapInit ==
  ASSUME Init, NEW r \in Run
  PROVE  KV(r)!Init
BY DEF Init, KV!Init

\* The main thread makes a call.
LEMMA ConnectMap ==
  ASSUME CallsInv, Connect, NEW r \in Run
  PROVE  KV(r)!Next \/ UNCHANGED KV(r)!kvVars
<1>1. /\ run \in Run /\ count[run] + 1 \in Call /\ count[run] \in Nat
      /\ UNCHANGED <<answer, outcome, storage>> /\ scenario[run] \in Scenarios
  BY ConnectStep DEF CallsInv, ShapeInv, RunInv, server, Connect
<1>2. PICK q \in Requests : call' = [call EXCEPT ![run][count[run] + 1] = q]
  <2>1. PICK k \in Keys, v \in Values :
          call' = [call EXCEPT ![run][count[run] + 1] = Asks(scenario[run], count[run] + 1, k, v)]
    BY DEF Connect, Current
  <2>2. count[run] + 1 \in Nat
    BY <1>1
  <2> QED
    BY <1>1, <2>1, <2>2, AsksType
<1>3. CASE r = run
  <2>1. call[r][count[r] + 1] = NotYet
    BY <1>1, <1>3 DEF CallsInv, ShapeInv, ServeInv
  <2>2. call'[r] = [call[r] EXCEPT ![count[r] + 1] = q]
    BY <1>1, <1>2, <1>3 DEF CallsInv, ShapeInv, TypeOK
  <2>3. KV(r)!Make(count[r] + 1, q)
    BY <1>1, <2>1, <2>2 DEF KV!Make
  <2>4. q \in KV(r)!Request
    BY DEF Requests, KV!Request
  <2> QED
    BY <1>1, <1>3, <2>3, <2>4 DEF KV!Next
<1>4. CASE r # run
  <2>1. call'[r] = call[r]
    BY <1>1, <1>2, <1>4 DEF CallsInv, ShapeInv, TypeOK
  <2> QED
    BY <1>1, <2>1 DEF KV!kvVars
<1> QED
  BY <1>3, <1>4

\* The client reads what the call resulted in.
LEMMA ReceiveMap ==
  ASSUME CallsInv, AnswerInv, Receive, NEW r \in Run
  PROVE  KV(r)!Next \/ UNCHANGED KV(r)!kvVars
<1> DEFINE c == count[run]
<1>1. /\ run \in Run /\ c \in Call
      /\ UNCHANGED <<call, outcome, storage>>
      /\ reply[run][c] # NotYet /\ answer' = [answer EXCEPT ![run][c] = reply[run][c]]
      /\ main = "wait"
  BY RunsAssumption DEF CallsInv, ShapeInv, TypeOK, RunInv, Receive, Current, Call, server
<1>2. reply[run][c] = outcome[run][c] /\ answer[run][c] = NotYet
  BY <1>1 DEF CallsInv, CallInv, KnownInv, AnswerInv, ClientOpen
<1> HIDE DEF c
<1>3. CASE r = run
  <2>1. answer'[r] = [answer[r] EXCEPT ![c] = outcome[r][c]]
    BY <1>1, <1>2, <1>3 DEF CallsInv, ShapeInv, TypeOK
  <2>2. KV(r)!Tell(c)
    BY <1>1, <1>2, <1>3, <2>1 DEF KV!Tell
  <2> QED
    BY <1>1, <2>2 DEF KV!Next
<1>4. CASE r # run
  <2>1. answer'[r] = answer[r]
    BY <1>1, <1>4 DEF CallsInv, ShapeInv, TypeOK
  <2> QED
    BY <1>1, <2>1 DEF KV!kvVars
<1> QED
  BY <1>3, <1>4

\* A call takes effect when the gateway carries it out, and once.
LEMMA ApplyMap ==
  ASSUME CallsInv, NEW p \in Run, Apply(p), NEW r \in Run
  PROVE  KV(r)!Next \/ UNCHANGED KV(r)!kvVars
<1> DEFINE c == handling[p]
           q == call[p][c]
<1>1. /\ thread[p] = "recv" /\ q.op # "MALFORMED"
      /\ storage' = [storage EXCEPT ![p] = After(@, q)]
      /\ outcome' = [outcome EXCEPT ![p][c] = Result(storage[p], q)]
      /\ UNCHANGED <<call, answer>>
  BY DEF Apply, At, client
<1>2. c \in Call /\ q \in Requests
  BY <1>1, Served DEF CallsInv, Serving
<1>3. outcome[p][c] = NotYet
  BY <1>1 DEF CallsInv, CallInv, ServedInv, Serving
<1>4. call[p][c] = q
  OBVIOUS
<1> HIDE DEF c, q
<1>5. CASE r = p
  <2>1. /\ storage'[r] = After(storage[r], q)
        /\ outcome'[r] = [outcome[r] EXCEPT ![c] = Result(storage[r], q)]
    BY <1>1, <1>2, <1>5 DEF CallsInv, ShapeInv, TypeOK
  <2>2. /\ storage'[r] = KV(r)!StoreAfter(storage[r], q)
        /\ outcome'[r] = [outcome[r] EXCEPT ![c] = KV(r)!AnswerTo(storage[r], q)]
    BY <1>1, <1>2, <2>1, SameEffect
  <2>3. KV(r)!TakeEffect(c)
    BY <1>1, <1>2, <1>3, <1>4, <1>5, <2>2, NotYetAssumption DEF KV!TakeEffect
  <2> QED
    BY <1>2, <2>3 DEF KV!Next
<1>6. CASE r # p
  <2>1. storage'[r] = storage[r] /\ outcome'[r] = outcome[r]
    BY <1>1, <1>6 DEF CallsInv, ShapeInv, TypeOK
  <2> QED
    BY <1>1, <2>1 DEF KV!kvVars
<1> QED
  BY <1>5, <1>6

\* Every step is one of the map or leaves it alone.
LEMMA MapNext ==
  CallsInv /\ AnswerInv /\ [Next]_vars => \A r \in Run : KV(r)!Next \/ UNCHANGED KV(r)!kvVars
<1> SUFFICES ASSUME CallsInv, AnswerInv, [Next]_vars, NEW r \in Run
             PROVE  KV(r)!Next \/ UNCHANGED KV(r)!kvVars
  OBVIOUS
<1>1. CASE UNCHANGED <<call, answer, outcome, storage>>
  BY <1>1 DEF KV!kvVars
<1>2. CASE UNCHANGED vars
  BY <1>1, <1>2 DEF vars, client, server
<1>3. CASE \/ StartGateway \/ Ready \/ StartTimesOut \/ ConnectTimesOut \/ Send \/ GoOn \/ TimesOut
           \/ Deadline \/ Stop \/ CloseListener \/ Join \/ Unlink \/ Harvest
  BY <1>1, <1>3 DEF StartGateway, Ready, StartTimesOut, ConnectTimesOut, Send, GoOn, TimesOut,
                    Deadline, Stop, CloseListener, Join, Unlink, Harvest, server
<1>4. ASSUME NEW p \in Run,
             \/ Bind(p) \/ TestStop(p) \/ Accept(p) \/ AcceptEnds(p) \/ Reject(p) \/ Reply(p)
             \/ Emit(p) \/ CloseConnection(p)
      PROVE  KV(r)!Next \/ UNCHANGED KV(r)!kvVars
  BY <1>1, <1>4 DEF Bind, TestStop, Accept, AcceptEnds, Reject, Reply, Emit, CloseConnection, client
<1> QED
  BY <1>2, <1>3, <1>4, ConnectMap, ReceiveMap, ApplyMap DEF Next, MainStep, ThreadStep

\* MockGateway: whatever times out, a call takes effect at most once, before it
\* is answered, and is answered with what it resulted in.
THEOREM Refinement == Spec => ImplementsKVStore
<1>1. Init => \A r \in Run : KV(r)!Init
  BY MapInit
<1>2. Spec => [](CallsInv /\ AnswerInv)
  <2>1. Init => CallsInv /\ AnswerInv
    BY ShapeInit, OrderCallInit DEF CallsInv, AnswerInv, Init
  <2>2. CallsInv /\ AnswerInv /\ [Next]_vars => (CallsInv /\ AnswerInv)'
    BY ShapeNext, OrderNext, CallNext, AnswerNext DEF CallsInv
  <2> QED
    BY <2>1, <2>2, PTL DEF Spec
<1>3. CallsInv /\ AnswerInv /\ [Next]_vars =>
        [\A r \in Run : KV(r)!Next \/ UNCHANGED KV(r)!kvVars]_vars
  BY MapNext
<1> QED
  BY <1>1, <1>2, <1>3, PTL DEF Spec, ImplementsKVStore

=============================================================================
