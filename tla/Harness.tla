------------------------------ MODULE Harness ------------------------------
(***************************************************************************)
(* The two experiment harnesses, scripts/run-qemu-experiments.py for       *)
(* detection and scripts/run-qemu-performance.py for performance, which    *)
(* imports the first: a matrix of runs, each with a gateway, a container,  *)
(* a sampler thread and perhaps an online monitor, whose evidence is kept  *)
(* in files of one output directory.  A start may be interrupted, also     *)
(* while it cleans up after a run, the guest may be powered off, and the   *)
(* next start may be told to resume.                                       *)
(*                                                                         *)
(* A file is None, Torn while it is being written, or its content.         *)
(***************************************************************************)
EXTENDS Naturals, Sequences

CONSTANTS
  N,             \* the number of runs in the matrix
  Silent,        \* runs whose gateway writes no telemetry: gateway_only
  Monitored,     \* runs with an online monitor: telemetry_iforest*
  Kinds,         \* which of the harnesses: "detection", "performance"
  Configs,       \* contents of the configuration file
  Durations,     \* values of --duration
  MaxRequests,   \* bound on the requests of a container
  MaxStarts,     \* bound on the starts of the harness
  None, Torn

Ids == 1..N

\* What a start is asked for, what is counted at the end of a run, and what a
\* result says.
Asked == [config : Configs, duration : Durations, resume : BOOLEAN]

Tallies == [lines : 0..MaxRequests, requests : 0..MaxRequests, resources : {0, 1}]

Results ==
  [duration : Durations, config : Configs, lines : 0..MaxRequests, requests : 0..MaxRequests,
   resources : {0, 1}]

ASSUME MatrixAssumption == N \in Nat
ASSUME RunsAssumption == Silent \subseteq Ids /\ Monitored \subseteq Ids \ Silent
ASSUME KindsAssumption == Kinds \subseteq {"detection", "performance"}
ASSUME BoundAssumption == MaxRequests \in Nat /\ MaxStarts \in Nat
ASSUME NoneAssumption == None # Torn /\ None \notin Nat /\ Torn \notin Nat
ASSUME ContentAssumption ==
  {None, Torn} \intersect
    (Configs \union (Configs \X Durations) \union Asked \union Tallies \union Results) = {}

VARIABLES
  kind,          \* which harness the directory belongs to
  pc,            \* where it is
  starts,        \* how often it was started
  asked,         \* its configuration, duration and whether it resumes
  id,            \* the run of the matrix it is at
  todo,          \* the files still to be unlinked before the run
  counted,       \* request_count and resource_count
  passing,       \* whether the run has been written as passed
  snapshot,      \* the copy of the configuration in the directory
  files,         \* the evidence of each run
  gateway,       \* the gateway: its state, the requests it has, and served
  container,     \* "none", "running", "stopped", or "kept": runc did not delete it
  sampler,       \* the sampler thread: "none", "alive", "ended" or "failed"
  monitor,       \* the monitor, and whether it has passed, found nothing or failed
  doneFile,      \* whether the done file exists
  left,          \* the processes that runs have left behind
  foreign        \* history: the runs whose summary is of a gateway left behind

disk == <<snapshot, files, foreign>>
procs == <<gateway, container, sampler, monitor, doneFile>>
invocation == <<kind, starts, asked>>
progress == <<id, todo, counted, passing>>
vars == <<invocation, pc, progress, disk, procs, left>>

NoEvidence == [requests |-> None, resources |-> None, summary |-> None, result |-> None]
NoGateway == [state |-> "none", inHand |-> 0, queued |-> 0, served |-> 0]
Init ==
  /\ kind \in Kinds
  /\ pc = "idle" /\ starts = 0
  /\ asked = None /\ id = 0 /\ todo = << >> /\ counted = None /\ passing = FALSE
  /\ snapshot = None /\ files = [i \in Ids |-> NoEvidence]
  /\ gateway = NoGateway /\ container = "none"
  /\ sampler = "none" /\ monitor = "none" /\ doneFile = FALSE
  /\ left = {} /\ foreign = {}

Performance == kind = "performance"
Telemetry == ~Performance \/ id \notin Silent
HasMonitor == Performance /\ id \in Monitored
Lines(f) == IF f = None THEN 0 ELSE f

Go(p) == pc' = p

\* What is left of a run if its processes are not ended: a gateway with the
\* requests it has served, and whether its telemetry file is still in the
\* directory, a container, a monitor.
Left(process, lines, linked, interrupted) ==
  [process |-> process, run |-> id, start |-> starts, served |-> lines, linked |-> linked,
   cut |-> interrupted]

Remains(g, c, m, interrupted) ==
  {p \in {Left("gateway", g.served, Telemetry, interrupted)} : g.state # "none"}
    \union {Left(x, 0, FALSE, interrupted) : x \in {c} \intersect {"running", "kept"}}
    \union {p \in {Left("monitor", 0, FALSE, interrupted)} : m \in {"born", "watching"}}

\* A done file that is left is removed before its run is made again.
EndRun(g, c, m, interrupted) ==
  /\ left' = left \union Remains(g, c, m, interrupted)
  /\ gateway' = NoGateway /\ container' = "none" /\ monitor' = "none"
  /\ doneFile' = FALSE

-----------------------------------------------------------------------------
(* main: the snapshot of the configuration and the matrix.                 *)

\* --duration changes the configuration that is compared in one harness, and
\* is compared with the result of each run in the other.
Canonical(a) == IF Performance THEN <<a.config, a.duration>> ELSE a.config

Start ==
  /\ pc = "idle"
  /\ starts < MaxStarts
  /\ starts' = starts + 1
  /\ \E a \in Asked :
       /\ asked' = a
       /\ Go(CASE snapshot \notin {None, Canonical(a)} -> "idle"
               [] snapshot = Canonical(a) /\ ~Performance -> "next"
               [] OTHER -> "snapshot")
  /\ id' = 1 /\ passing' = FALSE /\ counted' = None
  /\ UNCHANGED <<kind, todo, disk, procs, left>>

TearSnapshot ==
  /\ pc = "snapshot"
  /\ snapshot' = Torn
  /\ Go("snapshotting")
  /\ UNCHANGED <<invocation, progress, files, foreign, procs, left>>

WriteSnapshot ==
  /\ pc = "snapshotting"
  /\ snapshot' = Canonical(asked)
  /\ Go("next")
  /\ UNCHANGED <<invocation, progress, files, foreign, procs, left>>

\* Of a result that exists, which was written with the run identifier, scenario
\* and seed of its name: in the detection harness
ReusablePassedRun(i) ==
  /\ files[i].result.duration = asked.duration
  /\ files[i].result.requests > 0
  /\ files[i].result.lines = Lines(files[i].requests)
  /\ files[i].result.resources > 0
  /\ files[i].result.resources = Lines(files[i].resources)

\* and in the performance harness.
ResultIsReusable(i) ==
  /\ files[i].result.duration = asked.duration
  /\ files[i].result.requests > 0
  /\ files[i].summary # None
  /\ files[i].resources # None

\* Slip: the duration of a result is not compared with the one asked for.
ReusableSlip(i) ==
  /\ files[i].result # Torn
  /\ files[i].result.requests > 0

Reusable(i) ==
  /\ files[i].result # Torn
  /\ IF Performance THEN ResultIsReusable(i) ELSE ReusablePassedRun(i)

Return ==
  /\ pc = "next"
  /\ id \notin Ids
  /\ Go("returned")
  /\ UNCHANGED <<invocation, progress, disk, procs, left>>

Skip ==
  /\ pc = "next"
  /\ id \in Ids /\ asked.resume /\ files[id].result # None
  /\ Reusable(id)
  /\ id' = id + 1
  /\ UNCHANGED <<invocation, pc, todo, counted, passing, disk, procs, left>>

\* The evidence does not validate: the harness refuses to overwrite it.
Refuse ==
  /\ pc = "next"
  /\ id \in Ids /\ asked.resume /\ files[id].result # None
  /\ ~Reusable(id)
  /\ Go("idle")
  /\ sampler' = "none"
  /\ UNCHANGED <<invocation, progress, disk, left, gateway, container, monitor, doneFile>>

\* Slip: evidence that does not validate is collected again.
AgainSlip ==
  /\ pc = "next"
  /\ id \in Ids
  /\ IF asked.resume /\ files[id].result # None THEN ~Reusable(id) ELSE TRUE
  /\ todo' = <<"requests", "resources", "result">>
  /\ passing' = FALSE
  /\ Go("unlink")
  /\ UNCHANGED <<invocation, id, counted, disk, procs, left>>

\* Slip: the old result stays until it is written again.
StaleSlip ==
  /\ pc = "next"
  /\ id \in Ids /\ ~(asked.resume /\ files[id].result # None)
  /\ todo' = <<"requests", "resources", "summary">>
  /\ passing' = FALSE
  /\ Go("unlink")
  /\ UNCHANGED <<invocation, id, counted, disk, procs, left>>

Execute ==
  /\ pc = "next"
  /\ id \in Ids /\ ~(asked.resume /\ files[id].result # None)
  /\ todo' = IF Performance THEN <<"requests", "resources", "summary", "result">>
                            ELSE <<"requests", "resources", "result">>
  /\ passing' = FALSE
  /\ Go("unlink")
  /\ UNCHANGED <<invocation, id, counted, disk, procs, left>>

Leave ==
  /\ pc = "returned"
  /\ Go("idle")
  /\ sampler' = "none"
  /\ UNCHANGED <<invocation, progress, disk, left, gateway, container, monitor, doneFile>>

-----------------------------------------------------------------------------
(* execute_run.                                                            *)

\* The files of this run are removed, its result last; a gateway left behind
\* goes on with the file it has open.
Unlink ==
  /\ pc = "unlink"
  /\ todo # << >>
  /\ files' = [files EXCEPT ![id][Head(todo)] = None]
  /\ left' = IF Head(todo) = "requests"
             THEN {[p EXCEPT !.linked = @ /\ p.run # id] : p \in left} ELSE left
  /\ foreign' = IF Head(todo) = "summary" THEN foreign \ {id} ELSE foreign
  /\ todo' = Tail(todo)
  /\ UNCHANGED <<invocation, pc, id, counted, passing, snapshot, procs>>

\* A sampler thread of the run before has nothing to sample any more.
Spawn ==
  /\ pc = "unlink"
  /\ todo = << >>
  /\ files' = IF Performance
              THEN [files EXCEPT ![id].requests = 0, ![id].resources = 0] ELSE files
  /\ gateway' = [NoGateway EXCEPT !.state = "born"]
  /\ sampler' = "none"
  /\ Go("spawned")
  /\ UNCHANGED <<invocation, progress, snapshot, foreign, container, monitor, doneFile, left>>

EnterTry ==
  /\ pc = "spawned"
  /\ Go("socket")
  /\ UNCHANGED <<invocation, progress, disk, procs, left>>

\* runc delete --force of the container of run i.
Deleted(i) == {p \in left : p.process \in {"running", "kept"} /\ p.run = i}

\* wait_for_socket, runc delete and run, the monitor and the sampler.
RuncRun ==
  /\ pc = "socket"
  /\ gateway.state = "up"
  /\ container' = "running"
  /\ left' = left \ Deleted(id)
  /\ monitor' = IF HasMonitor THEN "born" ELSE "none"
  /\ sampler' = "alive"
  /\ Go("poll")
  /\ UNCHANGED <<invocation, progress, disk, gateway, doneFile>>

\* The socket does not appear, runc fails, or the container does not stop
\* before the deadline.
Fail ==
  /\ pc \in {"socket", "poll"}
  /\ Go("finally")
  /\ UNCHANGED <<invocation, progress, disk, procs, left>>

SeeStopped ==
  /\ pc = "poll"
  /\ container = "stopped"
  /\ doneFile' = Performance
  /\ Go("sampler")
  /\ UNCHANGED <<invocation, progress, disk, gateway, container, sampler, monitor, left>>

\* join(timeout=5.0): one harness insists that the thread has ended, the other
\* that it has reported no error.
JoinSampler ==
  LET silent == sampler = "ended" /\ Lines(files[id].resources) = 0
      bad == IF Performance THEN silent ELSE sampler # "ended"
  IN /\ pc = "sampler"
     /\ Go(CASE bad -> "finally"
             [] ~bad /\ HasMonitor -> "monitor"
             [] ~bad /\ Performance /\ ~HasMonitor -> "terminate"
             [] ~bad /\ ~Performance -> "count")
     /\ UNCHANGED <<invocation, progress, disk, procs, left>>

\* Slip: the monitor is waited for without a timeout.
WaitMonitorSlip ==
  /\ pc = "monitor"
  /\ monitor \notin {"born", "watching"}
  /\ Go(IF monitor = "failed" THEN "finally" ELSE "terminate")
  /\ UNCHANGED <<invocation, progress, disk, procs, left>>

\* wait(timeout=30.0): a monitor that has not ended by then fails the run.
WaitMonitor ==
  /\ pc = "monitor"
  /\ Go(IF monitor \in {"passed", "empty"} THEN "terminate" ELSE "finally")
  /\ UNCHANGED <<invocation, progress, disk, procs, left>>

\* After a signal no further connection is accepted; a second one finds the
\* default action in place and kills the gateway.
Terminated(g) ==
  CASE g.state = "up" -> [g EXCEPT !.state = "stopping", !.queued = 0]
    [] g.state \in {"born", "stopping", "none"} -> NoGateway

TerminateGateway ==
  /\ pc = "terminate"
  /\ gateway' = Terminated(gateway)
  /\ Go("exit")
  /\ UNCHANGED <<invocation, progress, disk, container, sampler, monitor, doneFile, left>>

\* wait(timeout=10.0) raises when the gateway has not exited.
WaitGateway ==
  /\ pc = "exit"
  /\ Go(IF gateway.state = "none" THEN "count" ELSE "finally")
  /\ UNCHANGED <<invocation, progress, disk, procs, left>>

\* The requests of a run are its lines, or what the gateway has summarised,
\* which must be there and equal to the lines.  A monitor that has seen no window,
\* or no alert where alerts are anchored, fails the run.
Count ==
  LET lines == Lines(files[id].requests)
      requests == IF Performance THEN Lines(files[id].summary) ELSE lines
  IN /\ pc = "count"
     /\ counted' = [lines |-> lines, requests |-> requests,
                    resources |-> Lines(files[id].resources)]
     /\ Go(IF /\ requests > 0
              /\ Telemetry => lines = requests
              /\ HasMonitor => monitor # "empty"
           THEN "result" ELSE "finally")
     /\ UNCHANGED <<invocation, id, todo, passing, disk, procs, left>>

TearResult ==
  /\ pc = "result"
  /\ files' = [files EXCEPT ![id].result = Torn]
  /\ Go("resulting")
  /\ UNCHANGED <<invocation, progress, snapshot, foreign, procs, left>>

Counts ==
  [duration |-> asked.duration, config |-> asked.config, lines |-> counted.lines,
   requests |-> counted.requests, resources |-> counted.resources]

WriteResult ==
  /\ pc = "resulting"
  /\ files' = [files EXCEPT ![id].result = Counts]
  /\ passing' = TRUE
  /\ Go("finally")
  /\ UNCHANGED <<invocation, id, todo, counted, snapshot, foreign, procs, left>>

\* finally: runc delete, whose failure nobody looks at; the monitor is ended, or
\* killed, and the gateway is asked to end.
Finally ==
  /\ pc = "finally"
  /\ \/ container' = "none" /\ left' = left \ Deleted(id)
     \/ container' = (IF container = "running" THEN "kept" ELSE container) /\ left' = left
  /\ monitor' = "none" /\ doneFile' = Performance
  /\ gateway' = Terminated(gateway)
  /\ counted' = None
  /\ Go("reap")
  /\ UNCHANGED <<invocation, id, todo, passing, disk, sampler>>

\* Slip: a gateway that does not end is left running.
ReapSlip ==
  /\ pc = "reap"
  /\ EndRun(gateway, container, monitor, FALSE)
  /\ sampler' = IF passing THEN sampler ELSE "none"
  /\ id' = IF passing THEN id + 1 ELSE id
  /\ Go(IF passing THEN "next" ELSE "idle")
  /\ UNCHANGED <<invocation, todo, counted, passing, disk>>

\* The gateway is killed if it does not end.  The sampler thread lives as long as
\* the start.
Reap ==
  /\ pc = "reap"
  /\ EndRun(NoGateway, container, monitor, FALSE)
  /\ sampler' = IF passing THEN sampler ELSE "none"
  /\ id' = IF passing THEN id + 1 ELSE id
  /\ Go(IF passing THEN "next" ELSE "idle")
  /\ UNCHANGED <<invocation, todo, counted, passing, disk>>

\* KeyboardInterrupt between the runs,
InterruptBetween ==
  /\ pc \in {"snapshot", "snapshotting", "next", "unlink"}
  /\ Go("idle")
  /\ sampler' = "none"
  /\ UNCHANGED <<invocation, progress, disk, left, gateway, container, monitor, doneFile>>

\* inside try, where the signal may reach the gateway and the monitor too,
InterruptRun ==
  /\ pc \in {"socket", "poll", "sampler", "monitor", "terminate", "exit", "count", "result",
             "resulting"}
  /\ Go("finally")
  /\ gateway' \in {gateway, Terminated(gateway)}
  /\ monitor' \in {monitor} \union {m \in {"failed"} : monitor \in {"born", "watching"}}
  /\ UNCHANGED <<invocation, progress, disk, container, sampler, doneFile, left>>

\* and before it, or in finally, where nothing more is cleaned up, though runc may
\* have deleted the container.  A process that is killed and still does not end in
\* time has the same effect.
InterruptCleanUp ==
  /\ pc \in {"spawned", "finally", "reap"}
  /\ Go("idle")
  /\ \E c \in {container, "none"} : EndRun(gateway, c, monitor, TRUE)
  /\ sampler' = "none"
  /\ UNCHANGED <<invocation, progress, disk>>

Interrupt == InterruptBetween \/ InterruptRun \/ InterruptCleanUp

\* The guest is powered off: the directory is on the host, /run and /tmp not.
PowerOff ==
  /\ pc # "idle" \/ left # {}
  /\ Go("idle")
  /\ gateway' = NoGateway /\ container' = "none" /\ monitor' = "none"
  /\ doneFile' = FALSE /\ sampler' = "none"
  /\ left' = {}
  /\ UNCHANGED <<invocation, progress, disk>>

Step ==
  \/ TearSnapshot \/ WriteSnapshot \/ Return \/ Skip \/ Refuse \/ Execute \/ Leave
  \/ Unlink \/ Spawn \/ EnterTry \/ RuncRun \/ SeeStopped \/ JoinSampler \/ WaitMonitor
  \/ TerminateGateway \/ WaitGateway \/ Count \/ TearResult \/ WriteResult
  \/ Finally \/ Reap \/ Fail

-----------------------------------------------------------------------------
(* The processes beside the harness.                                       *)

GatewayBinds ==
  /\ gateway.state = "born"
  /\ gateway' = [gateway EXCEPT !.state = "up"]
  /\ UNCHANGED <<invocation, pc, progress, disk, container, sampler, monitor, doneFile, left>>

\* The requests to one gateway are bounded.  A container left behind sends to
\* whichever gateway listens on the socket.
Send ==
  /\ gateway.state = "up"
  /\ gateway.inHand + gateway.queued + gateway.served < MaxRequests
  /\ container \in {"running", "kept"} \/ \E i \in Ids : Deleted(i) # {}
  /\ gateway' = [gateway EXCEPT !.queued = @ + 1]
  /\ UNCHANGED <<invocation, pc, progress, disk, container, sampler, monitor, doneFile, left>>

Accept ==
  /\ gateway.state = "up" /\ gateway.inHand = 0 /\ gateway.queued > 0
  /\ gateway' = [gateway EXCEPT !.inHand = 1, !.queued = @ - 1]
  /\ UNCHANGED <<invocation, pc, progress, disk, container, sampler, monitor, doneFile, left>>

\* A request is counted and, if telemetry is on, has its line.
Serve ==
  /\ gateway.inHand = 1
  /\ gateway' = [gateway EXCEPT !.inHand = 0, !.served = @ + 1]
  /\ files' = IF Telemetry THEN [files EXCEPT ![id].requests = Lines(@) + 1] ELSE files
  /\ UNCHANGED <<invocation, pc, progress, snapshot, foreign, container, sampler, monitor,
                 doneFile, left>>

\* --summary is given by one of the harnesses only.
GatewayExits ==
  /\ gateway.state = "stopping" /\ gateway.inHand = 0
  /\ gateway' = NoGateway
  /\ files' = IF Performance THEN [files EXCEPT ![id].summary = gateway.served] ELSE files
  /\ foreign' = foreign \ {id}
  /\ UNCHANGED <<invocation, pc, progress, snapshot, container, sampler, monitor,
                 doneFile, left>>

\* The workload ends or is killed; a client that gave up leaves its connection
\* with the gateway.
ContainerStops ==
  /\ container \in {"running", "kept"}
  /\ container' = "stopped"
  /\ UNCHANGED <<invocation, pc, progress, disk, gateway, sampler, monitor, doneFile, left>>

\* At most one sample is kept track of.
Sample ==
  /\ sampler = "alive"
  /\ \/ container \in {"running", "kept"}
     \/ Performance /\ gateway.state # "none"
  /\ Lines(files[id].resources) = 0
  /\ files' = [files EXCEPT ![id].resources = 1]
  /\ UNCHANGED <<invocation, pc, progress, snapshot, foreign, procs, left>>

\* One of the harnesses keeps the error of the thread.
SamplerEnds ==
  /\ sampler = "alive"
  /\ sampler' \in {"ended"} \union {x \in {"failed"} : ~Performance}
  /\ UNCHANGED <<invocation, pc, progress, disk, gateway, container, monitor, doneFile, left>>

\* guest-online-monitor.py removes the done file when it starts.
MonitorStarts ==
  /\ monitor = "born"
  /\ monitor' = "watching"
  /\ doneFile' = FALSE
  /\ UNCHANGED <<invocation, pc, progress, disk, gateway, container, sampler, left>>

\* It ends after the done file is there, perhaps without a window or an alert, or
\* fails.
MonitorEnds ==
  /\ monitor = "watching"
  /\ \/ doneFile /\ monitor' \in {"passed", "empty"}
     \/ monitor' = "failed"
  /\ UNCHANGED <<invocation, pc, progress, disk, gateway, container, sampler, doneFile, left>>

\* A gateway left behind serves what its queue, or a container left with it, has
\* for it: at most MaxRequests in all.
LeftServes(p) ==
  LET q == [p EXCEPT !.served = @ + 1]
  IN /\ p.process = "gateway" /\ p.served < MaxRequests
     /\ left' = (left \ {p}) \union {q}
     /\ files' = IF p.linked THEN [files EXCEPT ![p.run].requests = q.served] ELSE files
     /\ UNCHANGED <<invocation, pc, progress, snapshot, foreign, procs>>

\* What is left ends or is killed; a gateway that ends writes its summary, under
\* the name it has been given.
LeftEnds(p) ==
  /\ left' = left \ {p}
  /\ \/ UNCHANGED <<files, foreign>>
     \/ /\ Performance /\ p.process = "gateway"
        /\ files' = [files EXCEPT ![p.run].summary = p.served]
        /\ foreign' = foreign \union {p.run}
  /\ UNCHANGED <<invocation, pc, progress, snapshot, procs>>

Process ==
  \/ GatewayBinds \/ Send \/ Accept \/ Serve \/ GatewayExits \/ ContainerStops
  \/ Sample \/ SamplerEnds \/ MonitorStarts \/ MonitorEnds
  \/ \E p \in left : LeftServes(p) \/ LeftEnds(p)

Next == Start \/ Step \/ Interrupt \/ PowerOff \/ Process

Spec == Init /\ [][Next]_vars

\* The harness is scheduled and its waits end; nothing is asked of the others.
LiveSpec == Spec /\ WF_vars(Step)

-----------------------------------------------------------------------------

\* The files of a run.
Evidence ==
  [requests : {None} \union (0..MaxRequests), resources : {None, 0, 1},
   summary : {None} \union (0..MaxRequests), result : {None, Torn} \union Results]

Leftovers ==
  [process : {"gateway", "running", "kept", "monitor"}, run : Ids, start : 1..MaxStarts,
   served : 0..MaxRequests, linked : BOOLEAN, cut : BOOLEAN]

TypeOK ==
  /\ kind \in Kinds /\ starts \in 0..MaxStarts
  /\ asked \in {None} \union Asked
  /\ pc \in {"idle", "snapshot", "snapshotting", "next", "returned", "unlink", "spawned", "socket",
             "poll", "sampler", "monitor", "terminate", "exit", "count", "result", "resulting",
             "finally", "reap"}
  /\ id \in Nat
  /\ pc \notin {"idle", "next", "returned", "snapshot", "snapshotting"} => id \in Ids
  /\ todo \in Seq({"requests", "resources", "summary", "result"})
  /\ counted \in {None} \union Tallies
  /\ passing \in BOOLEAN /\ doneFile \in BOOLEAN
  /\ snapshot \in {None, Torn} \union (IF Performance THEN Configs \X Durations ELSE Configs)
  /\ files \in [Ids -> Evidence]
  /\ gateway \in [state : {"none", "born", "up", "stopping"}, inHand : {0, 1},
                  queued : 0..MaxRequests, served : 0..MaxRequests]
  /\ container \in {"none", "running", "stopped", "kept"}
  /\ sampler \in {"none", "alive", "ended", "failed"}
  /\ monitor \in {"none", "born", "watching", "passed", "empty", "failed"}
  /\ left \subseteq Leftovers /\ foreign \subseteq Ids

Passed(i) == files[i].result \notin {None, Torn}

\* A result is written while processes may still write the files it counts, and
\* stays when a start is interrupted.  At all times, a result counts requests; in
\* the performance harness it counts exactly those of the telemetry file and of
\* the summary, whichever of these have not been removed to run it again, and in
\* the detection harness at most those of the telemetry file.  One thing is
\* granted: a gateway that an interrupted clean-up left behind writes its summary
\* over that of the run, whenever it ends; its telemetry never gets there.
ResultMatchesEvidence ==
  \A i \in Ids : Passed(i) =>
    LET r == files[i].result IN
    /\ r.requests > 0
    /\ IF Performance
       THEN /\ i \notin Silent => r.requests = r.lines
            /\ files[i].requests \in {None, r.lines}
            /\ i \notin foreign => files[i].summary \in {None, r.requests}
       ELSE files[i].requests # None => r.lines <= files[i].requests

\* A start that returns, whatever it skipped and whichever starts before it were
\* cut short, leaves a result of the configuration and duration it was asked for
\* under every run of the matrix.
CollectionComplete ==
  pc = "returned" =>
    \A i \in Ids : /\ Passed(i)
                   /\ files[i].result.config = asked.config
                   /\ files[i].result.duration = asked.duration

\* A start that resumes does not replace a result that is there, not even one it
\* cannot read.
ResumeKeepsResults ==
  [][asked # None /\ asked.resume /\ pc \notin {"idle", "resulting"} =>
       \A i \in Ids : files[i].result # None => files'[i].result = files[i].result]_vars

\* However a run ends, by a failure, a timeout or an interrupt, nothing of it is
\* left: its gateway could still write lines, its container could send its requests
\* to the next gateway, on the same socket.  Only an interrupt that hits the
\* clean-up itself, or comes before try, leaves processes, and then that start makes
\* no further run; and only a container that runc failed to delete outlives a
\* clean-up that was not interrupted.  A sampler thread lives on into the next run
\* in the performance harness alone, and never past the start.
NothingLeftRunning ==
  /\ \A p \in left : p.cut \/ p.process = "kept"
  /\ \A p \in left : p.cut /\ p.start = starts => pc = "idle"
  /\ pc \in {"idle", "next", "returned", "unlink"} =>
       /\ gateway = NoGateway /\ container = "none" /\ monitor = "none" /\ ~doneFile
       /\ sampler = "alive" => Performance /\ pc # "idle"

\* Every wait has a time limit: a start ends, also when the gateway or the
\* container does not, and when the monitor removes the done file it waits for.
EveryStartEnds == pc # "idle" ~> pc = "idle"

=============================================================================
