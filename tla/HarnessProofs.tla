---------------------------- MODULE HarnessProofs ----------------------------
(***************************************************************************)
(* Theorems about Harness, for every matrix of runs, any number of starts  *)
(* and of requests, and both programs.                                     *)
(***************************************************************************)
EXTENDS Harness, TLAPS

\* Where a run is under way.
Busy ==
  {"spawned", "socket", "poll", "sampler", "monitor", "terminate", "exit", "count", "result",
   "resulting", "finally", "reap"}

\* TypeOK in four parts: the control of the harness and of its processes,
ControlType ==
  /\ kind \in Kinds /\ starts \in 0..MaxStarts
  /\ asked \in {None} \union Asked
  /\ pc \in {"idle", "snapshot", "snapshotting", "next", "returned", "unlink"} \union Busy
  /\ id \in Nat /\ (pc \in {"unlink"} \union Busy => id \in Ids)
  /\ todo \in Seq({"requests", "resources", "summary", "result"})
  /\ passing \in BOOLEAN /\ doneFile \in BOOLEAN
  /\ container \in {"none", "running", "stopped", "kept"}
  /\ sampler \in {"none", "alive", "ended", "failed"}
  /\ monitor \in {"none", "born", "watching", "passed", "empty", "failed"}

\* what is written,
DataType ==
  /\ counted \in {None} \union Tallies
  /\ snapshot \in {None, Torn} \union (IF Performance THEN Configs \X Durations ELSE Configs)
  /\ files \in [Ids -> Evidence]

\* the gateway,
GatewayType ==
  gateway \in [state : {"none", "born", "up", "stopping"}, inHand : {0, 1},
               queued : 0..MaxRequests, served : 0..MaxRequests]

\* and what is left behind.
LeftType == left \subseteq Leftovers /\ foreign \subseteq Ids

LEMMA TypeParts == TypeOK <=> ControlType /\ DataType /\ GatewayType /\ LeftType
BY Zenon DEF TypeOK, ControlType, DataType, GatewayType, LeftType, Busy

\* Between runs nothing runs but a sampler thread; before the gateway is reaped
\* a container is gone or runc has kept it.
QuietInv ==
  /\ pc \notin Busy =>
       gateway = NoGateway /\ ~doneFile /\ container = "none" /\ monitor = "none"
  /\ pc \in {"idle", "snapshot", "snapshotting"} => sampler = "none"
  /\ pc = "reap" => container # "running" /\ monitor = "none"

\* The detection harness, which has no monitor and does not end its gateway before
\* it counts, goes on only when the sampler thread has ended.
SamplerInv ==
  /\ ~Performance => pc \notin {"monitor", "terminate", "exit"}
  /\ ~Performance /\ pc \in {"next", "returned", "unlink", "count", "result", "resulting"} =>
       sampler # "alive"
  /\ ~Performance /\ pc \in {"finally", "reap"} /\ passing => sampler # "alive"

\* The requests of the gateway are bounded, and it has written a line for each
\* it has served.
GatewayInv ==
  /\ gateway.state = "none" => gateway = NoGateway
  /\ gateway.inHand + gateway.queued + gateway.served <= MaxRequests
  /\ gateway.state # "none" =>
       /\ pc \in Busy
       /\ Telemetry => Lines(files[id].requests) = gateway.served

\* The performance harness counts when the gateway has ended.
EndedInv ==
  Performance /\ (pc \in {"count", "result", "resulting"} \/ passing) => gateway = NoGateway

\* What has been unlinked is gone, the result last.
Whole ==
  {<<"requests", "resources", "summary", "result">>, <<"requests", "resources", "result">>}

RemovalInv ==
  pc = "unlink" =>
    /\ todo \in IF Performance
                THEN {<<"requests", "resources", "summary", "result">>,
                      <<"resources", "summary", "result">>, <<"summary", "result">>,
                      <<"result">>, << >>}
                ELSE {<<"requests", "resources", "result">>, <<"resources", "result">>,
                      <<"result">>, << >>}
    /\ todo \notin Whole => files[id].requests = None
    /\ todo = << >> => files[id].result = None

\* A gateway that is left and still writes a file of the directory writes that of
\* a run which is not under way, alone, and none that has been counted.
Writes(p) ==
  /\ p.process = "gateway"
  /\ Lines(files[p.run].requests) = p.served
  /\ Performance => ~Passed(p.run)
  /\ ~Performance /\ Passed(p.run) => files[p.run].requests # None
  /\ pc \in Busy \/ (pc = "unlink" /\ todo \notin Whole) => p.run # id

LeftInv ==
  /\ pc # "idle" => starts \in 1..MaxStarts
  /\ \A p \in left : p.linked => Writes(p)
  /\ \A p, q \in left : p.linked /\ q.linked /\ p.run = q.run => p = q
  /\ \A p \in left : p.start <= starts /\ (p.cut \/ p.process = "kept")
  /\ \A p \in left : p.cut /\ p.start = starts => pc = "idle"

\* The result of a run that is under way is not there until it is written.
RunInv ==
  /\ pc \in {"unlink"} \union (Busy \ {"finally", "reap"}) => ~passing
  /\ pc \in Busy \ {"resulting", "finally", "reap"} => files[id].result = None
  /\ pc = "resulting" => files[id].result = Torn
  /\ pc \in {"finally", "reap"} /\ ~passing => ~Passed(id)
  /\ pc \in {"finally", "reap"} /\ passing /\ ~Performance => files[id].requests # None
  /\ pc = "unlink" /\ asked.resume => files[id].result = None

\* What is about to be written agrees with the files.
CountInv ==
  pc \in {"result", "resulting"} =>
    /\ counted # None
    /\ counted.requests > 0
    /\ Telemetry => counted.lines = counted.requests
    /\ counted.lines <= Lines(files[id].requests)
    /\ Performance => /\ counted.lines = Lines(files[id].requests)
                      /\ id \notin foreign => counted.requests = Lines(files[id].summary)

Answers(i) ==
  Passed(i) /\ files[i].result.config = asked.config /\ files[i].result.duration = asked.duration

\* The runs the harness has gone by have results of what it was asked for.
CollectionInv ==
  /\ pc # "idle" => asked # None /\ id # 0
  /\ pc # "idle" => \A i \in Ids : i < id => Answers(i)
  /\ pc = "returned" => id \notin Ids
  /\ pc \in {"finally", "reap"} /\ passing => Answers(id)

\* The snapshot is of the configuration of every result, or cut off while it
\* is written once more.
SnapshotInv ==
  /\ pc \notin {"idle", "snapshot", "snapshotting"} => snapshot = Canonical(asked)
  /\ pc = "snapshotting" => snapshot = Torn
  /\ pc = "snapshot" => snapshot \in {None, Canonical(asked)}
  /\ \A i \in Ids : Passed(i) =>
       \/ snapshot = Canonical(files[i].result)
       \/ snapshot = Torn /\ (pc = "snapshotting" => Canonical(files[i].result) = Canonical(asked))

IInv ==
  /\ ControlType /\ DataType /\ GatewayType /\ LeftType
  /\ QuietInv /\ SamplerInv /\ GatewayInv /\ EndedInv /\ RemovalInv /\ LeftInv /\ RunInv /\ CountInv
  /\ CollectionInv /\ SnapshotInv /\ ResultMatchesEvidence

-----------------------------------------------------------------------------
(* Files and the configuration                                             *)

\* A file of a run is written or removed.
LEMMA OneField ==
  ASSUME NEW f \in [Ids -> Evidence], NEW i \in Ids
  PROVE  /\ \A v \in {None} \union (0..MaxRequests) :
               /\ [f EXCEPT ![i].requests = v] \in [Ids -> Evidence]
               /\ [f EXCEPT ![i].summary = v] \in [Ids -> Evidence]
         /\ \A v \in {None, 0, 1} : [f EXCEPT ![i].resources = v] \in [Ids -> Evidence]
         /\ \A v \in {None, Torn} \union Results : [f EXCEPT ![i].result = v] \in [Ids -> Evidence]
BY DEF Evidence

\* A file of a run is unlinked.
LEMMA OneRemoved ==
  ASSUME NEW f \in [Ids -> Evidence], NEW i \in Ids,
         NEW name \in {"requests", "resources", "summary", "result"}
  PROVE  /\ [f EXCEPT ![i][name] = None] \in [Ids -> Evidence]
         /\ [f EXCEPT ![i][name] = None][i][name] = None
         /\ \A n \in {"requests", "resources", "summary", "result"} \ {name} :
               [f EXCEPT ![i][name] = None][i][n] = f[i][n]
         /\ \A j \in Ids \ {i} : [f EXCEPT ![i][name] = None][j] = f[j]
BY DEF Evidence

\* A configuration is neither a missing file nor one that is cut off.
LEMMA CanonicalType ==
  ASSUME NEW a, a.config \in Configs, a.duration \in Durations
  PROVE  /\ Canonical(a) \in IF Performance THEN Configs \X Durations ELSE Configs
         /\ Canonical(a) # None /\ Canonical(a) # Torn
BY ContentAssumption DEF Canonical

\* What is left to unlink, and what has gone.
LEMMA NextRemoval ==
  ASSUME RemovalInv, pc = "unlink", todo # << >>
  PROVE  \/ /\ todo = <<"requests", "resources", "summary", "result">> /\ Performance
            /\ Head(todo) = "requests" /\ Tail(todo) = <<"resources", "summary", "result">>
         \/ /\ todo = <<"requests", "resources", "result">> /\ ~Performance
            /\ Head(todo) = "requests" /\ Tail(todo) = <<"resources", "result">>
         \/ /\ todo = <<"resources", "summary", "result">> /\ Performance
            /\ Head(todo) = "resources" /\ Tail(todo) = <<"summary", "result">>
         \/ /\ todo = <<"resources", "result">> /\ ~Performance
            /\ Head(todo) = "resources" /\ Tail(todo) = <<"result">>
         \/ /\ todo = <<"summary", "result">> /\ Performance
            /\ Head(todo) = "summary" /\ Tail(todo) = <<"result">>
         \/ todo = <<"result">> /\ Head(todo) = "result" /\ Tail(todo) = << >>
<1>1. CASE todo = <<"requests", "resources", "summary", "result">> /\ Performance
  BY <1>1
<1>2. CASE todo = <<"requests", "resources", "result">> /\ ~Performance
  BY <1>2
<1>3. CASE todo = <<"resources", "summary", "result">> /\ Performance
  BY <1>3
<1>4. CASE todo = <<"resources", "result">> /\ ~Performance
  BY <1>4
<1>5. CASE todo = <<"summary", "result">> /\ Performance
  BY <1>5
<1>6. CASE todo = <<"result">>
  BY <1>6
<1> QED
  BY <1>1, <1>2, <1>3, <1>4, <1>5, <1>6, Zenon DEF RemovalInv

-----------------------------------------------------------------------------
(* Every step preserves the invariant                                      *)

\* The harness and its processes stay within the places they have.
LEMMA StepControlType == IInv /\ [Next]_vars => ControlType'
<1> SUFFICES ASSUME IInv, [Next]_vars PROVE ControlType'
  OBVIOUS
<1>0. ControlType /\ RemovalInv
  BY DEF IInv
<1>1. CASE Start
  <2>1. PICK a \in Asked :
          /\ asked' = a
          /\ Go(CASE snapshot \notin {None, Canonical(a)} -> "idle"
                  [] snapshot = Canonical(a) /\ ~Performance -> "next"
                  [] OTHER -> "snapshot")
    BY <1>1 DEF Start
  <2>2. pc' \in {"idle", "next", "snapshot"}
    BY <2>1 DEF Go
  <2>3. starts' \in 0..MaxStarts
    BY <1>0, <1>1, BoundAssumption DEF Start, ControlType
  <2>4. id' = 1 /\ passing' = FALSE /\ UNCHANGED <<kind, todo, procs>>
    BY <1>1 DEF Start
  <2> QED
    BY <1>0, <2>1, <2>2, <2>3, <2>4 DEF ControlType, procs, Busy
<1>2. CASE TearSnapshot
  BY <1>0, <1>2 DEF TearSnapshot, procs, invocation, progress, Go, ControlType, Busy
<1>3. CASE WriteSnapshot
  BY <1>0, <1>3 DEF WriteSnapshot, procs, invocation, progress, Go, ControlType, Busy
<1>4. CASE Return
  BY <1>0, <1>4 DEF Return, disk, procs, invocation, progress, Go, ControlType, Busy
<1>5. CASE Skip
  BY <1>0, <1>5 DEF Skip, disk, procs, invocation, ControlType, Busy
<1>6. CASE Refuse
  BY <1>0, <1>6 DEF Refuse, disk, invocation, progress, Go, ControlType, Busy
<1>7. CASE Execute
  <2> DEFINE names == {"requests", "resources", "summary", "result"}
  <2>a. <<"requests", "resources", "summary", "result">> \in Seq(names)
    OBVIOUS
  <2>b. <<"requests", "resources", "result">> \in Seq(names)
    OBVIOUS
  <2>1. todo' \in Seq(names)
    BY <1>7, <2>a, <2>b, Zenon DEF Execute
  <2>2. /\ pc' = "unlink" /\ id \in Ids /\ passing' = FALSE
        /\ UNCHANGED <<invocation, id, procs>>
    BY <1>7 DEF Execute, Go
  <2> QED
    BY <1>0, <2>1, <2>2 DEF ControlType, invocation, procs, Busy
<1>8. CASE Leave
  BY <1>0, <1>8 DEF Leave, disk, invocation, progress, Go, ControlType, Busy
<1>9. CASE Unlink
  BY <1>0, <1>9 DEF Unlink, procs, invocation, ControlType, Busy
<1>10. CASE Spawn
  BY <1>0, <1>10 DEF Spawn, invocation, progress, Go, NoGateway, ControlType, Busy
<1>11. CASE EnterTry
  BY <1>0, <1>11 DEF EnterTry, disk, procs, invocation, progress, Go, ControlType, Busy
<1>12. CASE RuncRun
  BY <1>0, <1>12 DEF RuncRun, disk, invocation, progress, Go, Deleted, ControlType, Busy
<1>13. CASE Fail
  BY <1>0, <1>13 DEF Fail, disk, procs, invocation, progress, Go, ControlType, Busy
<1>14. CASE SeeStopped
  BY <1>0, <1>14 DEF SeeStopped, disk, invocation, progress, Go, ControlType, Busy, Performance
<1>15. CASE JoinSampler
  BY <1>0, <1>15 DEF JoinSampler, disk, procs, invocation, progress, Go, ControlType, Busy
<1>16. CASE WaitMonitor
  BY <1>0, <1>16 DEF WaitMonitor, disk, procs, invocation, progress, Go, ControlType, Busy
<1>17. CASE TerminateGateway
  BY <1>0, <1>17 DEF TerminateGateway, disk, invocation, progress, Go, Terminated, NoGateway,
     ControlType, Busy
<1>18. CASE WaitGateway
  BY <1>0, <1>18 DEF WaitGateway, disk, procs, invocation, progress, Go, ControlType, Busy
<1>19. CASE Count
  BY <1>0, <1>19 DEF Count, disk, procs, invocation, Go, ControlType, Busy
<1>20. CASE TearResult
  BY <1>0, <1>20 DEF TearResult, procs, invocation, progress, Go, ControlType, Busy
<1>21. CASE WriteResult
  BY <1>0, <1>21 DEF WriteResult, procs, invocation, Go, Counts, ControlType, Busy
<1>22. CASE Finally
  BY <1>0, <1>22 DEF Finally, disk, invocation, Go, Deleted, Terminated, NoGateway,
     ControlType, Busy, Performance
<1>23. CASE Reap
  <2>1. /\ pc' \in {"next", "idle"} /\ id' \in {id, id + 1} /\ doneFile' = FALSE
        /\ container' = "none" /\ sampler' \in {sampler, "none"} /\ monitor' = "none"
        /\ UNCHANGED <<invocation, todo, passing>>
    BY <1>23 DEF Reap, Go, EndRun
  <2>2. id' \in Nat
    BY <1>0, <2>1 DEF ControlType
  <2> QED
    BY <1>0, <2>1, <2>2 DEF ControlType, invocation, Busy
<1>24. CASE InterruptBetween
  BY <1>0, <1>24 DEF InterruptBetween, disk, invocation, progress, Go, ControlType, Busy
<1>25. CASE InterruptRun
  BY <1>0, <1>25 DEF InterruptRun, disk, invocation, progress, Go, Terminated, NoGateway,
     ControlType, Busy
<1>26. CASE InterruptCleanUp
  BY <1>0, <1>26 DEF InterruptCleanUp, disk, invocation, progress, Go, EndRun, NoGateway,
     ControlType, Busy
<1>27. CASE PowerOff
  BY <1>0, <1>27 DEF PowerOff, disk, invocation, progress, Go, NoGateway, ControlType, Busy
<1>28. CASE GatewayBinds
  BY <1>0, <1>28 DEF GatewayBinds, disk, invocation, progress, ControlType, Busy
<1>29. CASE Send
  BY <1>0, <1>29 DEF Send, disk, invocation, progress, Deleted, ControlType, Busy
<1>30. CASE Accept
  BY <1>0, <1>30 DEF Accept, disk, invocation, progress, ControlType, Busy
<1>31. CASE Serve
  BY <1>0, <1>31 DEF Serve, invocation, progress, ControlType, Busy
<1>32. CASE GatewayExits
  BY <1>0, <1>32 DEF GatewayExits, invocation, progress, NoGateway, ControlType, Busy
<1>33. CASE ContainerStops
  BY <1>0, <1>33 DEF ContainerStops, disk, invocation, progress, ControlType, Busy
<1>34. CASE Sample
  BY <1>0, <1>34 DEF Sample, procs, invocation, progress, ControlType, Busy
<1>35. CASE SamplerEnds
  BY <1>0, <1>35 DEF SamplerEnds, disk, invocation, progress, ControlType, Busy
<1>36. CASE MonitorStarts
  <2>1. /\ monitor' = "watching" /\ doneFile' = FALSE
        /\ UNCHANGED <<kind, starts, asked, pc, id, todo, passing, container, sampler>>
    BY <1>36 DEF MonitorStarts, invocation, progress
  <2> QED
    BY <1>0, <2>1 DEF ControlType
<1>37. CASE MonitorEnds
  BY <1>0, <1>37 DEF MonitorEnds, disk, invocation, progress, ControlType, Busy
<1>38. ASSUME NEW p \in left, LeftServes(p) PROVE ControlType'
  BY <1>0, <1>38 DEF LeftServes, procs, invocation, progress, ControlType, Busy
<1>39. ASSUME NEW p \in left, LeftEnds(p) PROVE ControlType'
  BY <1>0, <1>39 DEF LeftEnds, procs, invocation, progress, ControlType, Busy
<1>40. CASE UNCHANGED vars
  BY <1>0, <1>40 DEF vars, disk, procs, invocation, progress, ControlType, Busy, Performance,
     Ids
<1> QED
  BY <1>1, <1>2, <1>3, <1>4, <1>5, <1>6, <1>7, <1>8, <1>9, <1>10, <1>11, <1>12, <1>13, <1>14,
     <1>15, <1>16, <1>17, <1>18, <1>19, <1>20, <1>21, <1>22, <1>23, <1>24, <1>25, <1>26, <1>27,
     <1>28, <1>29, <1>30, <1>31, <1>32, <1>33, <1>34, <1>35, <1>36, <1>37, <1>38, <1>39, <1>40
     DEF Next, Step, Interrupt, Process

\* A gateway that gets a signal is asked to end, or killed.
LEMMA TerminatedGateway ==
  ASSUME GatewayType, GatewayInv
  PROVE  /\ Terminated(gateway) \in [state : {"none", "born", "up", "stopping"}, inHand : {0, 1},
                                     queued : 0..MaxRequests, served : 0..MaxRequests]
         /\ Terminated(gateway).state = "none" => Terminated(gateway) = NoGateway
         /\ Terminated(gateway).state # "none" =>
              gateway.state # "none" /\ Terminated(gateway).served = gateway.served
         /\ Terminated(gateway).inHand + Terminated(gateway).queued + Terminated(gateway).served
              <= MaxRequests
<1>1. CASE gateway.state = "up"
  <2>1. Terminated(gateway) = [state |-> "stopping", inHand |-> gateway.inHand, queued |-> 0,
                               served |-> gateway.served]
    BY <1>1 DEF Terminated, GatewayType
  <2> QED
    BY <1>1, <2>1, BoundAssumption DEF GatewayType, GatewayInv
<1>2. CASE gateway.state # "up"
  <2>1. Terminated(gateway) = NoGateway
    BY <1>2 DEF Terminated, GatewayType
  <2> QED
    BY <2>1, BoundAssumption DEF NoGateway
<1> QED
  BY <1>1, <1>2

\* The gateway serves no more requests than the bound.
LEMMA StepGatewayType == IInv /\ [Next]_vars => GatewayType'
<1> SUFFICES ASSUME IInv, [Next]_vars PROVE GatewayType'
  OBVIOUS
<1>0. ControlType /\ GatewayType /\ GatewayInv
  BY DEF IInv
<1>1. CASE Start
  BY <1>0, <1>1 DEF Start, disk, procs, Go, GatewayType, NoGateway
<1>2. CASE TearSnapshot
  BY <1>0, <1>2 DEF TearSnapshot, procs, invocation, progress, Go, GatewayType, NoGateway
<1>3. CASE WriteSnapshot
  BY <1>0, <1>3 DEF WriteSnapshot, procs, invocation, progress, Go, GatewayType, NoGateway
<1>4. CASE Return
  BY <1>0, <1>4 DEF Return, disk, procs, invocation, progress, Go, GatewayType, NoGateway
<1>5. CASE Skip
  BY <1>0, <1>5 DEF Skip, disk, procs, invocation, GatewayType, NoGateway
<1>6. CASE Refuse
  BY <1>0, <1>6 DEF Refuse, disk, invocation, progress, Go, GatewayType, NoGateway
<1>7. CASE Execute
  BY <1>0, <1>7 DEF Execute, disk, procs, invocation, Go, GatewayType, NoGateway
<1>8. CASE Leave
  BY <1>0, <1>8 DEF Leave, disk, invocation, progress, Go, GatewayType, NoGateway
<1>9. CASE Unlink
  BY <1>0, <1>9 DEF Unlink, procs, invocation, GatewayType, NoGateway
<1>10. CASE Spawn
  BY <1>0, <1>10, BoundAssumption DEF Spawn, invocation, progress, Go, NoGateway, GatewayType
<1>11. CASE EnterTry
  BY <1>0, <1>11 DEF EnterTry, disk, procs, invocation, progress, Go, GatewayType, NoGateway
<1>12. CASE RuncRun
  BY <1>0, <1>12 DEF RuncRun, disk, invocation, progress, Go, Deleted, GatewayType, NoGateway
<1>13. CASE Fail
  BY <1>0, <1>13 DEF Fail, disk, procs, invocation, progress, Go, GatewayType, NoGateway
<1>14. CASE SeeStopped
  BY <1>0, <1>14 DEF SeeStopped, disk, invocation, progress, Go, GatewayType, NoGateway
<1>15. CASE JoinSampler
  BY <1>0, <1>15 DEF JoinSampler, disk, procs, invocation, progress, Go, GatewayType, NoGateway
<1>16. CASE WaitMonitor
  BY <1>0, <1>16 DEF WaitMonitor, disk, procs, invocation, progress, Go, GatewayType, NoGateway
<1>17. CASE TerminateGateway
  BY <1>0, <1>17, TerminatedGateway DEF TerminateGateway, disk, progress, invocation, GatewayType
<1>18. CASE WaitGateway
  BY <1>0, <1>18 DEF WaitGateway, disk, procs, invocation, progress, Go, GatewayType, NoGateway
<1>19. CASE Count
  BY <1>0, <1>19 DEF Count, disk, procs, invocation, Go, GatewayType, NoGateway
<1>20. CASE TearResult
  BY <1>0, <1>20 DEF TearResult, procs, invocation, progress, Go, GatewayType, NoGateway
<1>21. CASE WriteResult
  BY <1>0, <1>21 DEF WriteResult, procs, invocation, Go, Counts, GatewayType, NoGateway
<1>22. CASE Finally
  BY <1>0, <1>22, TerminatedGateway DEF Finally, disk, progress, invocation, GatewayType
<1>23. CASE Reap
  BY <1>0, <1>23, BoundAssumption DEF Reap, disk, invocation, Go, EndRun, NoGateway, GatewayType
<1>24. CASE InterruptBetween
  BY <1>0, <1>24 DEF InterruptBetween, disk, invocation, progress, Go, GatewayType, NoGateway
<1>25. CASE InterruptRun
  BY <1>0, <1>25, TerminatedGateway DEF InterruptRun, disk, progress, invocation, GatewayType
<1>26. CASE InterruptCleanUp
  BY <1>0, <1>26, BoundAssumption DEF InterruptCleanUp, disk, invocation, progress, Go, EndRun,
     NoGateway, GatewayType
<1>27. CASE PowerOff
  BY <1>0, <1>27, BoundAssumption DEF PowerOff, disk, invocation, progress, Go, NoGateway,
     GatewayType
<1>28. CASE GatewayBinds
  BY <1>0, <1>28 DEF GatewayBinds, disk, invocation, progress, GatewayType, NoGateway
<1>29. CASE Send
  <2>1. gateway' = [state |-> gateway.state, inHand |-> gateway.inHand,
                    queued |-> gateway.queued + 1, served |-> gateway.served]
    BY <1>0, <1>29 DEF Send, GatewayType
  <2>2. gateway.queued + 1 \in 0..MaxRequests
    BY <1>0, <1>29, BoundAssumption DEF Send, GatewayType
  <2> QED
    BY <1>0, <2>1, <2>2 DEF GatewayType
<1>30. CASE Accept
  <2>1. gateway' = [state |-> gateway.state, inHand |-> 1, queued |-> gateway.queued - 1,
                    served |-> gateway.served]
    BY <1>0, <1>30 DEF Accept, GatewayType
  <2>2. /\ gateway.queued \in 0..MaxRequests /\ gateway.served \in 0..MaxRequests
        /\ gateway.inHand + gateway.queued + gateway.served <= MaxRequests
    BY <1>0, <1>30 DEF Accept, GatewayType, GatewayInv
  <2>3. gateway.queued - 1 \in 0..MaxRequests
    BY <2>2, <1>30, BoundAssumption DEF Accept
  <2> QED
    BY <1>0, <2>1, <2>2, <2>3 DEF GatewayType
<1>31. CASE Serve
  <2>1. gateway' = [state |-> gateway.state, inHand |-> 0, queued |-> gateway.queued,
                    served |-> gateway.served + 1]
    BY <1>0, <1>31 DEF Serve, GatewayType
  <2>2. /\ gateway.queued \in 0..MaxRequests /\ gateway.served \in 0..MaxRequests
        /\ gateway.inHand + gateway.queued + gateway.served <= MaxRequests
    BY <1>0, <1>31 DEF Serve, GatewayType, GatewayInv
  <2>3. gateway.served + 1 \in 0..MaxRequests
    BY <2>2, <1>31, BoundAssumption DEF Serve
  <2> QED
    BY <1>0, <2>1, <2>2, <2>3 DEF GatewayType
<1>32. CASE GatewayExits
  BY <1>0, <1>32, BoundAssumption DEF GatewayExits, invocation, progress, NoGateway, GatewayType
<1>33. CASE ContainerStops
  BY <1>0, <1>33 DEF ContainerStops, disk, invocation, progress, GatewayType, NoGateway
<1>34. CASE Sample
  BY <1>0, <1>34 DEF Sample, procs, invocation, progress, GatewayType, NoGateway
<1>35. CASE SamplerEnds
  BY <1>0, <1>35 DEF SamplerEnds, disk, invocation, progress, GatewayType, NoGateway
<1>36. CASE MonitorStarts
  BY <1>0, <1>36 DEF MonitorStarts, disk, invocation, progress, GatewayType, NoGateway
<1>37. CASE MonitorEnds
  BY <1>0, <1>37 DEF MonitorEnds, disk, invocation, progress, GatewayType, NoGateway
<1>38. ASSUME NEW p \in left, LeftServes(p) PROVE GatewayType'
  BY <1>0, <1>38 DEF LeftServes, procs, invocation, progress, GatewayType, NoGateway
<1>39. ASSUME NEW p \in left, LeftEnds(p) PROVE GatewayType'
  BY <1>0, <1>39 DEF LeftEnds, procs, invocation, progress, GatewayType, NoGateway
<1>40. CASE UNCHANGED vars
  BY <1>0, <1>40 DEF vars, disk, procs, invocation, progress, GatewayType, NoGateway
<1> QED
  BY <1>1, <1>2, <1>3, <1>4, <1>5, <1>6, <1>7, <1>8, <1>9, <1>10, <1>11, <1>12, <1>13, <1>14,
     <1>15, <1>16, <1>17, <1>18, <1>19, <1>20, <1>21, <1>22, <1>23, <1>24, <1>25, <1>26, <1>27,
     <1>28, <1>29, <1>30, <1>31, <1>32, <1>33, <1>34, <1>35, <1>36, <1>37, <1>38, <1>39, <1>40
     DEF Next, Step, Interrupt, Process

\* What is left of a run is a process of it.
LEMMA RemainsType ==
  ASSUME ControlType, GatewayType, LeftInv, pc \in Busy,
         NEW g \in {gateway, NoGateway}, NEW c, NEW m,
         NEW cut \in BOOLEAN
  PROVE  Remains(g, c, m, cut) \subseteq Leftovers
<1>1. id \in Ids /\ starts \in 1..MaxStarts
  BY DEF ControlType, LeftInv, Busy
<1>2. g.served \in 0..MaxRequests /\ 0 \in 0..MaxRequests
  BY BoundAssumption DEF GatewayType, NoGateway
<1>3. Telemetry \in BOOLEAN
  BY DEF Telemetry, Performance
<1>4. /\ Left("gateway", g.served, Telemetry, cut) \in Leftovers
      /\ Left("monitor", 0, FALSE, cut) \in Leftovers
      /\ Left("running", 0, FALSE, cut) \in Leftovers
      /\ Left("kept", 0, FALSE, cut) \in Leftovers
  BY <1>1, <1>2, <1>3 DEF Left, Leftovers
<1> QED
  BY <1>4 DEF Remains

\* What is left behind stays one of the processes of a run.
LEMMA StepLeftType == IInv /\ [Next]_vars => LeftType'
<1> SUFFICES ASSUME IInv, [Next]_vars PROVE LeftType'
  OBVIOUS
<1>0. ControlType /\ GatewayType /\ LeftType /\ LeftInv
  BY DEF IInv
<1>1. CASE Start
  BY <1>0, <1>1 DEF Start, disk, procs, Go, LeftType
<1>2. CASE TearSnapshot
  BY <1>0, <1>2 DEF TearSnapshot, procs, invocation, progress, Go, LeftType
<1>3. CASE WriteSnapshot
  BY <1>0, <1>3 DEF WriteSnapshot, procs, invocation, progress, Go, LeftType
<1>4. CASE Return
  BY <1>0, <1>4 DEF Return, disk, procs, invocation, progress, Go, LeftType
<1>5. CASE Skip
  BY <1>0, <1>5 DEF Skip, disk, procs, invocation, LeftType
<1>6. CASE Refuse
  BY <1>0, <1>6 DEF Refuse, disk, invocation, progress, Go, LeftType
<1>7. CASE Execute
  BY <1>0, <1>7 DEF Execute, disk, procs, invocation, Go, LeftType
<1>8. CASE Leave
  BY <1>0, <1>8 DEF Leave, disk, invocation, progress, Go, LeftType
<1>9. CASE Unlink
  <2>1. \A p \in left : [p EXCEPT !.linked = @ /\ p.run # id] \in Leftovers
    BY <1>0 DEF LeftType, Leftovers
  <2>2. left' \subseteq Leftovers
    BY <1>0, <1>9, <2>1 DEF Unlink, LeftType
  <2> QED
    BY <1>0, <1>9, <2>2 DEF Unlink, LeftType
<1>10. CASE Spawn
  BY <1>0, <1>10 DEF Spawn, invocation, progress, Go, NoGateway, LeftType
<1>11. CASE EnterTry
  BY <1>0, <1>11 DEF EnterTry, disk, procs, invocation, progress, Go, LeftType
<1>12. CASE RuncRun
  BY <1>0, <1>12 DEF RuncRun, disk, invocation, progress, Go, Deleted, LeftType
<1>13. CASE Fail
  BY <1>0, <1>13 DEF Fail, disk, procs, invocation, progress, Go, LeftType
<1>14. CASE SeeStopped
  BY <1>0, <1>14 DEF SeeStopped, disk, invocation, progress, Go, LeftType
<1>15. CASE JoinSampler
  BY <1>0, <1>15 DEF JoinSampler, disk, procs, invocation, progress, Go, LeftType
<1>16. CASE WaitMonitor
  BY <1>0, <1>16 DEF WaitMonitor, disk, procs, invocation, progress, Go, LeftType
<1>17. CASE TerminateGateway
  BY <1>0, <1>17 DEF TerminateGateway, disk, invocation, progress, Go, Terminated, NoGateway,
     LeftType
<1>18. CASE WaitGateway
  BY <1>0, <1>18 DEF WaitGateway, disk, procs, invocation, progress, Go, LeftType
<1>19. CASE Count
  BY <1>0, <1>19 DEF Count, disk, procs, invocation, Go, LeftType
<1>20. CASE TearResult
  BY <1>0, <1>20 DEF TearResult, procs, invocation, progress, Go, LeftType
<1>21. CASE WriteResult
  BY <1>0, <1>21 DEF WriteResult, procs, invocation, Go, Counts, LeftType
<1>22. CASE Finally
  BY <1>0, <1>22 DEF Finally, disk, invocation, Go, Deleted, Terminated, NoGateway, LeftType
<1>23. CASE Reap
  <2>1. Remains(NoGateway, container, monitor, FALSE) \subseteq Leftovers
    BY <1>0, <1>23, RemainsType DEF Reap, Busy
  <2> QED
    BY <1>0, <1>23, <2>1 DEF Reap, EndRun, LeftType, disk
<1>24. CASE InterruptBetween
  BY <1>0, <1>24 DEF InterruptBetween, disk, invocation, progress, Go, LeftType
<1>25. CASE InterruptRun
  BY <1>0, <1>25 DEF InterruptRun, disk, invocation, progress, Go, Terminated, NoGateway,
     LeftType
<1>26. CASE InterruptCleanUp
  <2>1. PICK c \in {container, "none"} : EndRun(gateway, c, monitor, TRUE)
    BY <1>26 DEF InterruptCleanUp
  <2>2. Remains(gateway, c, monitor, TRUE) \subseteq Leftovers
    BY <1>0, <1>26, RemainsType DEF InterruptCleanUp, Busy
  <2> QED
    BY <1>0, <1>26, <2>1, <2>2 DEF InterruptCleanUp, EndRun, LeftType, disk
<1>27. CASE PowerOff
  BY <1>0, <1>27 DEF PowerOff, disk, invocation, progress, Go, NoGateway, LeftType
<1>28. CASE GatewayBinds
  BY <1>0, <1>28 DEF GatewayBinds, disk, invocation, progress, LeftType
<1>29. CASE Send
  BY <1>0, <1>29 DEF Send, disk, invocation, progress, Deleted, LeftType
<1>30. CASE Accept
  BY <1>0, <1>30 DEF Accept, disk, invocation, progress, LeftType
<1>31. CASE Serve
  BY <1>0, <1>31 DEF Serve, invocation, progress, LeftType
<1>32. CASE GatewayExits
  BY <1>0, <1>32 DEF GatewayExits, LeftType
<1>33. CASE ContainerStops
  BY <1>0, <1>33 DEF ContainerStops, disk, invocation, progress, LeftType
<1>34. CASE Sample
  BY <1>0, <1>34 DEF Sample, procs, invocation, progress, LeftType
<1>35. CASE SamplerEnds
  BY <1>0, <1>35 DEF SamplerEnds, disk, invocation, progress, LeftType
<1>36. CASE MonitorStarts
  BY <1>0, <1>36 DEF MonitorStarts, disk, invocation, progress, LeftType
<1>37. CASE MonitorEnds
  BY <1>0, <1>37 DEF MonitorEnds, disk, invocation, progress, LeftType
<1>38. ASSUME NEW p \in left, LeftServes(p) PROVE LeftType'
  <2>1. p \in Leftovers /\ p.served + 1 \in 0..MaxRequests
    BY <1>0, <1>38, BoundAssumption DEF LeftServes, LeftType, Leftovers
  <2>2. [p EXCEPT !.served = @ + 1] \in Leftovers
    BY <2>1 DEF Leftovers
  <2> QED
    BY <1>0, <1>38, <2>2 DEF LeftServes, LeftType
<1>39. ASSUME NEW p \in left, LeftEnds(p) PROVE LeftType'
  BY <1>0, <1>39 DEF LeftEnds, LeftType, Leftovers
<1>40. CASE UNCHANGED vars
  BY <1>0, <1>40 DEF vars, disk, procs, invocation, progress, LeftType
<1> QED
  BY <1>1, <1>2, <1>3, <1>4, <1>5, <1>6, <1>7, <1>8, <1>9, <1>10, <1>11, <1>12, <1>13, <1>14,
     <1>15, <1>16, <1>17, <1>18, <1>19, <1>20, <1>21, <1>22, <1>23, <1>24, <1>25, <1>26, <1>27,
     <1>28, <1>29, <1>30, <1>31, <1>32, <1>33, <1>34, <1>35, <1>36, <1>37, <1>38, <1>39, <1>40
     DEF Next, Step, Interrupt, Process

\* Each file and the snapshot is missing, cut off or has content of its kind.
LEMMA StepDataType == IInv /\ [Next]_vars => DataType'
<1> SUFFICES ASSUME IInv, [Next]_vars PROVE DataType'
  OBVIOUS
<1>0. ControlType /\ DataType /\ GatewayType /\ LeftType /\ QuietInv /\ RemovalInv /\ GatewayInv
      /\ CountInv /\ CollectionInv
  BY DEF IInv
<1>1. CASE Start
  BY <1>0, <1>1 DEF Start, disk, procs, Go, DataType, Performance
<1>2. CASE TearSnapshot
  BY <1>0, <1>2 DEF TearSnapshot, procs, invocation, progress, Go, DataType, Performance
<1>3. CASE WriteSnapshot
  <2>1. asked \in Asked
    BY <1>0, <1>3 DEF WriteSnapshot, ControlType, CollectionInv
  <2>2. Canonical(asked) \in IF Performance THEN Configs \X Durations ELSE Configs
    BY <2>1, CanonicalType DEF Asked
  <2>3. snapshot' = Canonical(asked) /\ UNCHANGED <<kind, counted, files>>
    BY <1>3 DEF WriteSnapshot, invocation, progress
  <2> QED
    BY <1>0, <2>2, <2>3 DEF DataType, Performance
<1>4. CASE Return
  BY <1>0, <1>4 DEF Return, disk, procs, invocation, progress, Go, DataType, Performance
<1>5. CASE Skip
  BY <1>0, <1>5 DEF Skip, disk, procs, invocation, DataType, Performance
<1>6. CASE Refuse
  BY <1>0, <1>6 DEF Refuse, disk, invocation, progress, Go, DataType, Performance
<1>7. CASE Execute
  BY <1>0, <1>7 DEF Execute, disk, procs, invocation, Go, DataType, Performance
<1>8. CASE Leave
  BY <1>0, <1>8 DEF Leave, disk, invocation, progress, Go, DataType, Performance
<1>9. CASE Unlink
  <2>1. id \in Ids /\ files \in [Ids -> Evidence]
    BY <1>0, <1>9 DEF Unlink, ControlType, DataType
  <2>2. files' \in [Ids -> Evidence]
    BY <1>0, <1>9, <2>1, NextRemoval, OneRemoved, ZenonT(60) DEF Unlink
  <2> QED
    BY <1>0, <1>9, <2>2 DEF Unlink, DataType, Performance, invocation
<1>10. CASE Spawn
  <2>1. id \in Ids /\ files \in [Ids -> Evidence] /\ 0 \in 0..MaxRequests
    BY <1>0, <1>10, BoundAssumption DEF Spawn, ControlType, DataType
  <2>2. [files EXCEPT ![id].requests = 0] \in [Ids -> Evidence]
    BY <2>1, OneField
  <2>3. [[files EXCEPT ![id].requests = 0] EXCEPT ![id].resources = 0] \in [Ids -> Evidence]
    BY <2>1, <2>2, OneField
  <2>4. files' \in [Ids -> Evidence]
    BY <1>10, <2>1, <2>3 DEF Spawn, Evidence
  <2> QED
    BY <1>0, <1>10, <2>4 DEF Spawn, DataType, Performance, invocation, progress
<1>11. CASE EnterTry
  BY <1>0, <1>11 DEF EnterTry, disk, procs, invocation, progress, Go, DataType, Performance
<1>12. CASE RuncRun
  BY <1>0, <1>12 DEF RuncRun, disk, invocation, progress, Go, Deleted, DataType, Performance
<1>13. CASE Fail
  BY <1>0, <1>13 DEF Fail, disk, procs, invocation, progress, Go, DataType, Performance
<1>14. CASE SeeStopped
  BY <1>0, <1>14 DEF SeeStopped, disk, invocation, progress, Go, DataType, Performance
<1>15. CASE JoinSampler
  BY <1>0, <1>15 DEF JoinSampler, disk, procs, invocation, progress, Go, DataType, Performance
<1>16. CASE WaitMonitor
  BY <1>0, <1>16 DEF WaitMonitor, disk, procs, invocation, progress, Go, DataType, Performance
<1>17. CASE TerminateGateway
  BY <1>0, <1>17 DEF TerminateGateway, disk, invocation, progress, Go, Terminated, NoGateway,
     DataType, Performance
<1>18. CASE WaitGateway
  BY <1>0, <1>18 DEF WaitGateway, disk, procs, invocation, progress, Go, DataType, Performance
<1>19. CASE Count
  BY <1>0, <1>19, BoundAssumption DEF Count, disk, procs, invocation, Go, ControlType, DataType,
     Busy, Evidence, Tallies, Performance, Lines
<1>20. CASE TearResult
  <2>1. id \in Ids /\ files \in [Ids -> Evidence]
    BY <1>0, <1>20 DEF TearResult, ControlType, DataType, Busy
  <2>2. files' \in [Ids -> Evidence]
    BY <1>20, <2>1, OneField DEF TearResult
  <2> QED
    BY <1>0, <1>20, <2>2 DEF TearResult, DataType, Performance, invocation, progress
<1>21. CASE WriteResult
  <2>1. id \in Ids /\ files \in [Ids -> Evidence]
    BY <1>0, <1>21 DEF WriteResult, ControlType, DataType, Busy
  <2>2. Counts \in Results
    BY <1>0, <1>21 DEF WriteResult, ControlType, DataType, CountInv, CollectionInv, Counts,
       Results, Tallies, Asked
  <2>3. files' \in [Ids -> Evidence]
    BY <1>21, <2>1, <2>2, OneField DEF WriteResult
  <2> QED
    BY <1>0, <1>21, <2>3 DEF WriteResult, DataType, Performance, invocation
<1>22. CASE Finally
  BY <1>0, <1>22 DEF Finally, disk, invocation, Go, Deleted, Terminated, NoGateway, DataType,
     Performance
<1>23. CASE Reap
  BY <1>0, <1>23 DEF Reap, disk, invocation, Go, EndRun, NoGateway, DataType, Performance
<1>24. CASE InterruptBetween
  BY <1>0, <1>24 DEF InterruptBetween, disk, invocation, progress, Go, DataType, Performance
<1>25. CASE InterruptRun
  BY <1>0, <1>25 DEF InterruptRun, disk, invocation, progress, Go, Terminated, NoGateway,
     DataType, Performance
<1>26. CASE InterruptCleanUp
  BY <1>0, <1>26 DEF InterruptCleanUp, disk, invocation, progress, Go, EndRun, NoGateway,
     DataType, Performance
<1>27. CASE PowerOff
  BY <1>0, <1>27 DEF PowerOff, disk, invocation, progress, Go, NoGateway, DataType, Performance
<1>28. CASE GatewayBinds
  BY <1>0, <1>28 DEF GatewayBinds, disk, invocation, progress, DataType, Performance
<1>29. CASE Send
  BY <1>0, <1>29 DEF Send, disk, invocation, progress, Deleted, DataType, Performance
<1>30. CASE Accept
  BY <1>0, <1>30 DEF Accept, disk, invocation, progress, DataType, Performance
<1>31. CASE Serve
  <2>1. /\ gateway.state # "none" /\ gateway.served \in Nat /\ gateway.served + 1 <= MaxRequests
        /\ UNCHANGED <<kind, counted, snapshot>>
    BY <1>0, <1>31, BoundAssumption
    DEF Serve, GatewayType, GatewayInv, NoGateway, invocation, progress
  <2>2. id \in Ids /\ files \in [Ids -> Evidence]
    BY <1>0, <2>1 DEF ControlType, GatewayInv, DataType
  <2>3. gateway.served + 1 \in 0..MaxRequests
    BY <2>1, BoundAssumption
  <2>4. CASE Telemetry
    <3>1. Lines(files[id].requests) + 1 = gateway.served + 1
      BY <1>0, <2>1, <2>4 DEF GatewayInv
    <3>2. files' = [files EXCEPT ![id].requests = gateway.served + 1]
      BY <1>31, <2>2, <2>4, <3>1 DEF Serve
    <3> QED
      BY <1>0, <2>1, <2>2, <2>3, <3>2, OneField DEF DataType, Performance
  <2>5. CASE ~Telemetry
    BY <1>0, <1>31, <2>1, <2>5 DEF Serve, DataType, Performance
  <2> QED
    BY <2>4, <2>5
<1>32. CASE GatewayExits
  <2>1. /\ gateway.state # "none" /\ gateway.served \in 0..MaxRequests
        /\ UNCHANGED <<kind, counted, snapshot>>
    BY <1>0, <1>32 DEF GatewayExits, GatewayType, invocation, progress
  <2>2. id \in Ids /\ files \in [Ids -> Evidence]
    BY <1>0, <2>1 DEF ControlType, GatewayInv, DataType
  <2>3. files' \in [Ids -> Evidence]
    BY <1>32, <2>1, <2>2, OneField DEF GatewayExits
  <2> QED
    BY <1>0, <2>1, <2>3 DEF DataType, Performance
<1>33. CASE ContainerStops
  BY <1>0, <1>33 DEF ContainerStops, disk, invocation, progress, DataType, Performance
<1>34. CASE Sample
  <2>1. id \in Ids /\ files \in [Ids -> Evidence]
    BY <1>0, <1>34 DEF Sample, ControlType, DataType, QuietInv, NoGateway
  <2>2. files' \in [Ids -> Evidence]
    BY <1>34, <2>1, OneField DEF Sample
  <2> QED
    BY <1>0, <1>34, <2>2 DEF Sample, DataType, Performance, invocation, progress
<1>35. CASE SamplerEnds
  BY <1>0, <1>35 DEF SamplerEnds, disk, invocation, progress, DataType, Performance
<1>36. CASE MonitorStarts
  BY <1>0, <1>36 DEF MonitorStarts, disk, invocation, progress, DataType, Performance
<1>37. CASE MonitorEnds
  BY <1>0, <1>37 DEF MonitorEnds, disk, invocation, progress, DataType, Performance
<1>38. ASSUME NEW p \in left, LeftServes(p) PROVE DataType'
  <2>1. p \in Leftovers /\ p.run \in Ids /\ p.served + 1 \in 0..MaxRequests
    BY <1>0, <1>38, BoundAssumption DEF LeftServes, LeftType, Leftovers
  <2>2. [p EXCEPT !.served = @ + 1].served = p.served + 1
    BY <2>1 DEF Leftovers
  <2>3. files \in [Ids -> Evidence]
    BY <1>0 DEF DataType
  <2>4. [files EXCEPT ![p.run].requests = p.served + 1] \in [Ids -> Evidence]
    BY <2>1, <2>3, OneField
  <2>5. files' \in [Ids -> Evidence]
    BY <1>38, <2>2, <2>3, <2>4, Zenon DEF LeftServes
  <2> QED
    BY <1>0, <1>38, <2>5 DEF LeftServes, DataType, Performance, invocation, progress
<1>39. ASSUME NEW p \in left, LeftEnds(p) PROVE DataType'
  <2>1. p.run \in Ids /\ p.served \in 0..MaxRequests
    BY <1>0 DEF LeftType, Leftovers
  <2>2. files \in [Ids -> Evidence]
    BY <1>0 DEF DataType
  <2>3. [files EXCEPT ![p.run].summary = p.served] \in [Ids -> Evidence]
    BY <2>1, <2>2, OneField
  <2>4. files' \in [Ids -> Evidence]
    BY <1>39, <2>2, <2>3, Zenon DEF LeftEnds
  <2> QED
    BY <1>0, <1>39, <2>4 DEF LeftEnds, DataType, Performance, invocation, progress
<1>40. CASE UNCHANGED vars
  BY <1>0, <1>40 DEF vars, disk, procs, invocation, progress, DataType, Performance, Evidence,
     Results, Tallies, Busy
<1> QED
  BY <1>1, <1>2, <1>3, <1>4, <1>5, <1>6, <1>7, <1>8, <1>9, <1>10, <1>11, <1>12, <1>13, <1>14,
     <1>15, <1>16, <1>17, <1>18, <1>19, <1>20, <1>21, <1>22, <1>23, <1>24, <1>25, <1>26, <1>27,
     <1>28, <1>29, <1>30, <1>31, <1>32, <1>33, <1>34, <1>35, <1>36, <1>37, <1>38, <1>39, <1>40
     DEF Next, Step, Interrupt, Process

\* Nothing runs between the runs, whatever way the last one ended.
LEMMA StepQuietInv == IInv /\ [Next]_vars => QuietInv'
<1> SUFFICES ASSUME IInv, [Next]_vars PROVE QuietInv'
  OBVIOUS
<1>0. QuietInv /\ ControlType
  BY DEF IInv
<1>1. CASE Start
  BY <1>0, <1>1 DEF Start, disk, procs, Go, QuietInv, NoGateway, Busy
<1>2. CASE TearSnapshot
  BY <1>0, <1>2 DEF TearSnapshot, procs, invocation, progress, Go, QuietInv, NoGateway, Busy
<1>3. CASE WriteSnapshot
  BY <1>0, <1>3 DEF WriteSnapshot, procs, invocation, progress, Go, QuietInv, NoGateway, Busy
<1>4. CASE Return
  BY <1>0, <1>4 DEF Return, disk, procs, invocation, progress, Go, QuietInv, NoGateway, Busy
<1>5. CASE Skip
  BY <1>0, <1>5 DEF Skip, disk, procs, invocation, QuietInv, NoGateway, Busy
<1>6. CASE Refuse
  BY <1>0, <1>6 DEF Refuse, disk, invocation, progress, Go, QuietInv, NoGateway, Busy
<1>7. CASE Execute
  BY <1>0, <1>7 DEF Execute, disk, procs, invocation, Go, QuietInv, NoGateway, Busy
<1>8. CASE Leave
  BY <1>0, <1>8 DEF Leave, disk, invocation, progress, Go, QuietInv, NoGateway, Busy
<1>9. CASE Unlink
  BY <1>0, <1>9 DEF Unlink, procs, invocation, QuietInv, NoGateway, Busy
<1>10. CASE Spawn
  BY <1>0, <1>10 DEF Spawn, invocation, progress, Go, NoGateway, QuietInv, Busy
<1>11. CASE EnterTry
  BY <1>0, <1>11 DEF EnterTry, disk, procs, invocation, progress, Go, QuietInv, NoGateway, Busy
<1>12. CASE RuncRun
  BY <1>0, <1>12 DEF RuncRun, disk, invocation, progress, Go, Deleted, QuietInv, NoGateway, Busy
<1>13. CASE Fail
  BY <1>0, <1>13 DEF Fail, disk, procs, invocation, progress, Go, QuietInv, NoGateway, Busy
<1>14. CASE SeeStopped
  BY <1>0, <1>14 DEF SeeStopped, disk, invocation, progress, Go, QuietInv, NoGateway, Busy
<1>15. CASE JoinSampler
  BY <1>0, <1>15 DEF JoinSampler, disk, procs, invocation, progress, Go, QuietInv, NoGateway,
     Busy
<1>16. CASE WaitMonitor
  BY <1>0, <1>16 DEF WaitMonitor, disk, procs, invocation, progress, Go, QuietInv, NoGateway,
     Busy
<1>17. CASE TerminateGateway
  BY <1>0, <1>17 DEF TerminateGateway, disk, invocation, progress, Go, Terminated, NoGateway,
     QuietInv, Busy
<1>18. CASE WaitGateway
  BY <1>0, <1>18 DEF WaitGateway, disk, procs, invocation, progress, Go, QuietInv, NoGateway,
     Busy
<1>19. CASE Count
  BY <1>0, <1>19 DEF Count, disk, procs, invocation, Go, QuietInv, NoGateway, Busy
<1>20. CASE TearResult
  BY <1>0, <1>20 DEF TearResult, procs, invocation, progress, Go, QuietInv, NoGateway, Busy
<1>21. CASE WriteResult
  BY <1>0, <1>21 DEF WriteResult, procs, invocation, Go, Counts, QuietInv, NoGateway, Busy
<1>22. CASE Finally
  BY <1>0, <1>22 DEF Finally, disk, invocation, Go, Deleted, Terminated, NoGateway, QuietInv,
     Busy
<1>23. CASE Reap
  BY <1>0, <1>23 DEF Reap, disk, invocation, Go, EndRun, NoGateway, QuietInv, Busy
<1>24. CASE InterruptBetween
  BY <1>0, <1>24 DEF InterruptBetween, disk, invocation, progress, Go, QuietInv, NoGateway, Busy
<1>25. CASE InterruptRun
  BY <1>0, <1>25 DEF InterruptRun, disk, invocation, progress, Go, Terminated, NoGateway,
     QuietInv, Busy
<1>26. CASE InterruptCleanUp
  BY <1>0, <1>26 DEF InterruptCleanUp, disk, invocation, progress, Go, EndRun, NoGateway,
     QuietInv, Busy
<1>27. CASE PowerOff
  BY <1>0, <1>27 DEF PowerOff, disk, invocation, progress, Go, NoGateway, QuietInv, Busy
<1>28. CASE GatewayBinds
  BY <1>0, <1>28 DEF GatewayBinds, disk, invocation, progress, QuietInv, NoGateway, Busy
<1>29. CASE Send
  BY <1>0, <1>29 DEF Send, disk, invocation, progress, Deleted, QuietInv, NoGateway, Busy
<1>30. CASE Accept
  BY <1>0, <1>30 DEF Accept, disk, invocation, progress, QuietInv, NoGateway, Busy
<1>31. CASE Serve
  BY <1>0, <1>31 DEF Serve, invocation, progress, QuietInv, NoGateway, Busy
<1>32. CASE GatewayExits
  BY <1>0, <1>32 DEF GatewayExits, invocation, progress, NoGateway, QuietInv, Busy
<1>33. CASE ContainerStops
  BY <1>0, <1>33 DEF ContainerStops, disk, invocation, progress, QuietInv, NoGateway, Busy
<1>34. CASE Sample
  BY <1>0, <1>34 DEF Sample, procs, invocation, progress, QuietInv, NoGateway, Busy
<1>35. CASE SamplerEnds
  BY <1>0, <1>35 DEF SamplerEnds, disk, invocation, progress, QuietInv, NoGateway, Busy
<1>36. CASE MonitorStarts
  BY <1>0, <1>36 DEF MonitorStarts, disk, invocation, progress, QuietInv, NoGateway, Busy
<1>37. CASE MonitorEnds
  BY <1>0, <1>37 DEF MonitorEnds, disk, invocation, progress, QuietInv, NoGateway, Busy
<1>38. ASSUME NEW p \in left, LeftServes(p) PROVE QuietInv'
  BY <1>0, <1>38 DEF LeftServes, procs, invocation, progress, QuietInv, NoGateway, Busy
<1>39. ASSUME NEW p \in left, LeftEnds(p) PROVE QuietInv'
  BY <1>0, <1>39 DEF LeftEnds, procs, invocation, progress, QuietInv, NoGateway, Busy
<1>40. CASE UNCHANGED vars
  BY <1>0, <1>40 DEF vars, disk, procs, invocation, progress, QuietInv, NoGateway, Busy
<1> QED
  BY <1>1, <1>2, <1>3, <1>4, <1>5, <1>6, <1>7, <1>8, <1>9, <1>10, <1>11, <1>12, <1>13, <1>14,
     <1>15, <1>16, <1>17, <1>18, <1>19, <1>20, <1>21, <1>22, <1>23, <1>24, <1>25, <1>26, <1>27,
     <1>28, <1>29, <1>30, <1>31, <1>32, <1>33, <1>34, <1>35, <1>36, <1>37, <1>38, <1>39, <1>40
     DEF Next, Step, Interrupt, Process

\* The sampler thread of the detection harness is not outlived by it.
LEMMA StepSamplerInv == IInv /\ [Next]_vars => SamplerInv'
<1> SUFFICES ASSUME IInv, [Next]_vars PROVE SamplerInv'
  OBVIOUS
<1>0. SamplerInv /\ QuietInv /\ ControlType /\ RunInv
  BY DEF IInv
<1>1. CASE Start
  BY <1>0, <1>1 DEF Start, disk, procs, Go, SamplerInv, Performance, Busy, QuietInv, RunInv
<1>2. CASE TearSnapshot
  BY <1>0, <1>2 DEF TearSnapshot, procs, invocation, progress, Go, SamplerInv, Performance,
     Busy, QuietInv, RunInv
<1>3. CASE WriteSnapshot
  BY <1>0, <1>3 DEF WriteSnapshot, procs, invocation, progress, Go, SamplerInv, Performance,
     Busy, QuietInv, RunInv
<1>4. CASE Return
  BY <1>0, <1>4 DEF Return, disk, procs, invocation, progress, Go, SamplerInv, Performance,
     Busy, QuietInv, RunInv
<1>5. CASE Skip
  BY <1>0, <1>5 DEF Skip, disk, procs, invocation, SamplerInv, Performance, Busy, QuietInv,
     RunInv
<1>6. CASE Refuse
  BY <1>0, <1>6 DEF Refuse, disk, invocation, progress, Go, SamplerInv, Performance, Busy,
     QuietInv, RunInv
<1>7. CASE Execute
  BY <1>0, <1>7 DEF Execute, disk, procs, invocation, Go, SamplerInv, Performance, Busy,
     QuietInv, RunInv
<1>8. CASE Leave
  BY <1>0, <1>8 DEF Leave, disk, invocation, progress, Go, SamplerInv, Performance, Busy,
     QuietInv, RunInv
<1>9. CASE Unlink
  BY <1>0, <1>9 DEF Unlink, procs, invocation, SamplerInv, Performance, Busy, QuietInv, RunInv
<1>10. CASE Spawn
  BY <1>0, <1>10 DEF Spawn, invocation, progress, Go, NoGateway, SamplerInv, Performance, Busy,
     QuietInv, RunInv
<1>11. CASE EnterTry
  BY <1>0, <1>11 DEF EnterTry, disk, procs, invocation, progress, Go, SamplerInv, Performance,
     Busy, QuietInv, RunInv
<1>12. CASE RuncRun
  BY <1>0, <1>12 DEF RuncRun, disk, invocation, progress, Go, Deleted, SamplerInv, Performance,
     Busy, QuietInv, RunInv
<1>13. CASE Fail
  BY <1>0, <1>13 DEF Fail, disk, procs, invocation, progress, Go, SamplerInv, Performance,
     Busy, QuietInv, RunInv
<1>14. CASE SeeStopped
  BY <1>0, <1>14 DEF SeeStopped, disk, invocation, progress, Go, SamplerInv, Performance, Busy,
     QuietInv, RunInv
<1>15. CASE JoinSampler
  BY <1>0, <1>15 DEF JoinSampler, disk, procs, invocation, progress, Go, SamplerInv,
     Performance, Busy, QuietInv, RunInv, HasMonitor
<1>16. CASE WaitMonitor
  BY <1>0, <1>16 DEF WaitMonitor, disk, procs, invocation, progress, Go, SamplerInv,
     Performance, Busy, QuietInv, RunInv
<1>17. CASE TerminateGateway
  BY <1>0, <1>17 DEF TerminateGateway, disk, invocation, progress, Go, Terminated, NoGateway,
     SamplerInv, Performance, Busy, QuietInv, RunInv
<1>18. CASE WaitGateway
  BY <1>0, <1>18 DEF WaitGateway, disk, procs, invocation, progress, Go, SamplerInv,
     Performance, Busy, QuietInv, RunInv
<1>19. CASE Count
  BY <1>0, <1>19 DEF Count, disk, procs, invocation, Go, SamplerInv, Performance, Busy,
     QuietInv, RunInv
<1>20. CASE TearResult
  BY <1>0, <1>20 DEF TearResult, procs, invocation, progress, Go, SamplerInv, Performance,
     Busy, QuietInv, RunInv
<1>21. CASE WriteResult
  BY <1>0, <1>21 DEF WriteResult, procs, invocation, Go, Counts, SamplerInv, Performance, Busy,
     QuietInv, RunInv
<1>22. CASE Finally
  BY <1>0, <1>22 DEF Finally, disk, invocation, Go, Deleted, Terminated, NoGateway, SamplerInv,
     Performance, Busy, QuietInv, RunInv
<1>23. CASE Reap
  BY <1>0, <1>23 DEF Reap, disk, invocation, Go, EndRun, NoGateway, SamplerInv, Performance,
     Busy, QuietInv, RunInv
<1>24. CASE InterruptBetween
  BY <1>0, <1>24 DEF InterruptBetween, disk, invocation, progress, Go, SamplerInv, Performance,
     Busy, QuietInv, RunInv
<1>25. CASE InterruptRun
  BY <1>0, <1>25 DEF InterruptRun, disk, invocation, progress, Go, Terminated, NoGateway,
     SamplerInv, Performance, Busy, QuietInv, RunInv
<1>26. CASE InterruptCleanUp
  BY <1>0, <1>26 DEF InterruptCleanUp, disk, invocation, progress, Go, EndRun, NoGateway,
     SamplerInv, Performance, Busy, QuietInv, RunInv
<1>27. CASE PowerOff
  BY <1>0, <1>27 DEF PowerOff, disk, invocation, progress, Go, NoGateway, SamplerInv,
     Performance, Busy, QuietInv, RunInv
<1>28. CASE GatewayBinds
  BY <1>0, <1>28 DEF GatewayBinds, disk, invocation, progress, SamplerInv, Performance, Busy,
     QuietInv, RunInv
<1>29. CASE Send
  BY <1>0, <1>29 DEF Send, disk, invocation, progress, Deleted, SamplerInv, Performance, Busy,
     QuietInv, RunInv
<1>30. CASE Accept
  BY <1>0, <1>30 DEF Accept, disk, invocation, progress, SamplerInv, Performance, Busy,
     QuietInv, RunInv
<1>31. CASE Serve
  BY <1>0, <1>31 DEF Serve, invocation, progress, SamplerInv, Performance, Busy, QuietInv,
     RunInv
<1>32. CASE GatewayExits
  BY <1>0, <1>32 DEF GatewayExits, invocation, progress, NoGateway, SamplerInv, Performance,
     Busy, QuietInv, RunInv
<1>33. CASE ContainerStops
  BY <1>0, <1>33 DEF ContainerStops, disk, invocation, progress, SamplerInv, Performance, Busy,
     QuietInv, RunInv
<1>34. CASE Sample
  BY <1>0, <1>34 DEF Sample, procs, invocation, progress, SamplerInv, Performance, Busy,
     QuietInv, RunInv
<1>35. CASE SamplerEnds
  BY <1>0, <1>35 DEF SamplerEnds, disk, invocation, progress, SamplerInv, Performance, Busy,
     QuietInv, RunInv
<1>36. CASE MonitorStarts
  BY <1>0, <1>36 DEF MonitorStarts, disk, invocation, progress, SamplerInv, Performance, Busy,
     QuietInv, RunInv
<1>37. CASE MonitorEnds
  BY <1>0, <1>37 DEF MonitorEnds, disk, invocation, progress, SamplerInv, Performance, Busy,
     QuietInv, RunInv
<1>38. ASSUME NEW p \in left, LeftServes(p) PROVE SamplerInv'
  BY <1>0, <1>38 DEF LeftServes, procs, invocation, progress, SamplerInv, Performance, Busy,
     QuietInv, RunInv
<1>39. ASSUME NEW p \in left, LeftEnds(p) PROVE SamplerInv'
  BY <1>0, <1>39 DEF LeftEnds, procs, invocation, progress, SamplerInv, Performance, Busy,
     QuietInv, RunInv
<1>40. CASE UNCHANGED vars
  BY <1>0, <1>40 DEF vars, disk, procs, invocation, progress, SamplerInv, Performance, Busy,
     QuietInv, RunInv
<1> QED
  BY <1>1, <1>2, <1>3, <1>4, <1>5, <1>6, <1>7, <1>8, <1>9, <1>10, <1>11, <1>12, <1>13, <1>14,
     <1>15, <1>16, <1>17, <1>18, <1>19, <1>20, <1>21, <1>22, <1>23, <1>24, <1>25, <1>26, <1>27,
     <1>28, <1>29, <1>30, <1>31, <1>32, <1>33, <1>34, <1>35, <1>36, <1>37, <1>38, <1>39, <1>40
     DEF Next, Step, Interrupt, Process

\* The lines of a run are the requests its gateway has served.
LEMMA StepGatewayInv == IInv /\ [Next]_vars => GatewayInv'
<1> SUFFICES ASSUME IInv, [Next]_vars PROVE GatewayInv'
  OBVIOUS
<1>0. ControlType /\ DataType /\ GatewayType /\ LeftType /\ QuietInv /\ GatewayInv /\ RemovalInv
      /\ EndedInv /\ LeftInv
  BY DEF IInv
<1>1. CASE Start
  BY <1>0, <1>1 DEF Start, disk, procs, Go, GatewayInv, NoGateway, Busy, Telemetry,
     Performance, GatewayType
<1>2. CASE TearSnapshot
  BY <1>0, <1>2 DEF TearSnapshot, procs, invocation, progress, Go, GatewayInv, NoGateway, Busy,
     Telemetry, Performance, GatewayType
<1>3. CASE WriteSnapshot
  BY <1>0, <1>3 DEF WriteSnapshot, procs, invocation, progress, Go, GatewayInv, NoGateway,
     Busy, Telemetry, Performance, GatewayType
<1>4. CASE Return
  BY <1>0, <1>4 DEF Return, disk, procs, invocation, progress, Go, GatewayInv, NoGateway, Busy,
     Telemetry, Performance, GatewayType
<1>5. CASE Skip
  BY <1>0, <1>5 DEF Skip, disk, procs, invocation, GatewayInv, NoGateway, Busy, Telemetry,
     Performance, GatewayType
<1>6. CASE Refuse
  BY <1>0, <1>6 DEF Refuse, disk, invocation, progress, Go, GatewayInv, NoGateway, Busy,
     Telemetry, Performance, GatewayType
<1>7. CASE Execute
  BY <1>0, <1>7 DEF Execute, disk, procs, invocation, Go, GatewayInv, NoGateway, Busy,
     Telemetry, Performance, GatewayType
<1>8. CASE Leave
  BY <1>0, <1>8 DEF Leave, disk, invocation, progress, Go, GatewayInv, NoGateway, Busy,
     Telemetry, Performance, GatewayType
<1>9. CASE Unlink
  BY <1>0, <1>9 DEF Unlink, procs, invocation, GatewayInv, NoGateway, Busy, Telemetry,
     Performance, GatewayType
<1>10. CASE Spawn
  BY <1>0, <1>10, BoundAssumption DEF Spawn, invocation, progress, Go, ControlType, DataType,
     GatewayInv, RemovalInv, Whole, NoGateway, Busy, Performance, Telemetry, Lines
<1>11. CASE EnterTry
  BY <1>0, <1>11 DEF EnterTry, disk, procs, invocation, progress, Go, GatewayInv, NoGateway,
     Busy, Telemetry, Performance, GatewayType
<1>12. CASE RuncRun
  BY <1>0, <1>12 DEF RuncRun, disk, invocation, progress, Go, Deleted, GatewayInv, NoGateway,
     Busy, Telemetry, Performance, GatewayType
<1>13. CASE Fail
  BY <1>0, <1>13 DEF Fail, disk, procs, invocation, progress, Go, GatewayInv, NoGateway, Busy,
     Telemetry, Performance, GatewayType
<1>14. CASE SeeStopped
  BY <1>0, <1>14 DEF SeeStopped, disk, invocation, progress, Go, GatewayInv, NoGateway, Busy,
     Telemetry, Performance, GatewayType
<1>15. CASE JoinSampler
  BY <1>0, <1>15 DEF JoinSampler, disk, procs, invocation, progress, Go, GatewayInv, NoGateway,
     Busy, Telemetry, Performance, GatewayType
<1>16. CASE WaitMonitor
  BY <1>0, <1>16 DEF WaitMonitor, disk, procs, invocation, progress, Go, GatewayInv, NoGateway,
     Busy, Telemetry, Performance, GatewayType
<1>17. CASE TerminateGateway
  BY <1>0, <1>17, TerminatedGateway DEF TerminateGateway, Go, disk, invocation, progress,
     GatewayInv, Telemetry, Performance, Busy
<1>18. CASE WaitGateway
  BY <1>0, <1>18 DEF WaitGateway, disk, procs, invocation, progress, Go, GatewayInv, NoGateway,
     Busy, Telemetry, Performance, GatewayType
<1>19. CASE Count
  BY <1>0, <1>19 DEF Count, disk, procs, invocation, Go, GatewayInv, NoGateway, Busy,
     Telemetry, Performance, GatewayType
<1>20. CASE TearResult
  BY <1>0, <1>20 DEF TearResult, procs, invocation, progress, Go, GatewayInv, NoGateway, Busy,
     Telemetry, Performance, GatewayType
<1>21. CASE WriteResult
  BY <1>0, <1>21 DEF WriteResult, procs, invocation, Go, Counts, GatewayInv, NoGateway, Busy,
     Telemetry, Performance, GatewayType
<1>22. CASE Finally
  BY <1>0, <1>22, TerminatedGateway DEF Finally, Go, disk, invocation, progress, GatewayInv,
     Telemetry, Performance, Busy
<1>23. CASE Reap
  BY <1>0, <1>23, BoundAssumption DEF Reap, GatewayInv, NoGateway, EndRun
<1>24. CASE InterruptBetween
  BY <1>0, <1>24 DEF InterruptBetween, disk, invocation, progress, Go, GatewayInv, NoGateway,
     Busy, Telemetry, Performance, GatewayType
<1>25. CASE InterruptRun
  BY <1>0, <1>25, TerminatedGateway DEF InterruptRun, Go, disk, invocation, progress,
     GatewayInv, Telemetry, Performance, Busy
<1>26. CASE InterruptCleanUp
  BY <1>0, <1>26, BoundAssumption DEF InterruptCleanUp, GatewayInv, NoGateway, EndRun
<1>27. CASE PowerOff
  BY <1>0, <1>27, BoundAssumption DEF PowerOff, GatewayInv, NoGateway
<1>28. CASE GatewayBinds
  BY <1>0, <1>28 DEF GatewayBinds, disk, invocation, progress, GatewayInv, NoGateway, Busy,
     Telemetry, Performance, GatewayType
<1>29. CASE Send
  <2>1. /\ gateway' = [state |-> "up", inHand |-> gateway.inHand,
                        queued |-> gateway.queued + 1, served |-> gateway.served]
        /\ gateway.state = "up" /\ UNCHANGED <<kind, id, pc, files>>
        /\ gateway.inHand + gateway.queued + gateway.served < MaxRequests
    BY <1>0, <1>29 DEF Send, GatewayType, disk, invocation, progress
  <2>2. /\ gateway.inHand \in Nat /\ gateway.queued \in Nat /\ gateway.served \in Nat
        /\ MaxRequests \in Nat
    BY <1>0, BoundAssumption DEF GatewayType
  <2>3. gateway'.inHand + gateway'.queued + gateway'.served <= MaxRequests
    BY <2>1, <2>2
  <2> QED
    BY <1>0, <2>1, <2>3 DEF GatewayInv, Telemetry, Performance
<1>30. CASE Accept
  BY <1>0, <1>30 DEF Accept, disk, invocation, progress, GatewayInv, NoGateway, Busy,
     Telemetry, Performance, GatewayType
<1>31. CASE Serve
  BY <1>0, <1>31, NoneAssumption, BoundAssumption DEF Serve, invocation, progress, ControlType,
     DataType, GatewayType, GatewayInv, NoGateway, Telemetry, Performance, Lines
<1>32. CASE GatewayExits
  BY <1>0, <1>32, BoundAssumption DEF GatewayExits, GatewayInv, NoGateway
<1>33. CASE ContainerStops
  BY <1>0, <1>33 DEF ContainerStops, disk, invocation, progress, GatewayInv, NoGateway, Busy,
     Telemetry, Performance, GatewayType
<1>34. CASE Sample
  BY <1>0, <1>34 DEF Sample, procs, invocation, progress, GatewayInv, NoGateway, Busy,
     Telemetry, Performance, GatewayType
<1>35. CASE SamplerEnds
  BY <1>0, <1>35 DEF SamplerEnds, disk, invocation, progress, GatewayInv, NoGateway, Busy,
     Telemetry, Performance, GatewayType
<1>36. CASE MonitorStarts
  BY <1>0, <1>36 DEF MonitorStarts, disk, invocation, progress, GatewayInv, NoGateway, Busy,
     Telemetry, Performance, GatewayType
<1>37. CASE MonitorEnds
  BY <1>0, <1>37 DEF MonitorEnds, disk, invocation, progress, GatewayInv, NoGateway, Busy,
     Telemetry, Performance, GatewayType
<1>38. ASSUME NEW p \in left, LeftServes(p) PROVE GatewayInv'
  <2>1. p \in Leftovers /\ UNCHANGED <<kind, pc, id, gateway>>
    BY <1>0, <1>38 DEF LeftServes, LeftType, invocation, progress, procs
  <2>2. pc \in Busy => files'[id] = files[id]
    BY <1>0, <1>38, <2>1 DEF LeftServes, LeftInv, Writes, DataType, Leftovers
  <2> QED
    BY <1>0, <2>1, <2>2 DEF GatewayInv, Telemetry, Performance, NoGateway
<1>39. ASSUME NEW p \in left, LeftEnds(p) PROVE GatewayInv'
  <2>1. p \in Leftovers /\ UNCHANGED <<kind, pc, id, gateway>>
    BY <1>0, <1>39 DEF LeftEnds, LeftType, invocation, progress, procs
  <2>2. pc \in Busy => files'[id].requests = files[id].requests
    BY <1>0, <1>39, <2>1 DEF LeftEnds, DataType, Evidence, ControlType, Leftovers
  <2> QED
    BY <1>0, <2>1, <2>2 DEF GatewayInv, Telemetry, Performance, NoGateway
<1>40. CASE UNCHANGED vars
  BY <1>0, <1>40 DEF vars, disk, procs, invocation, progress, GatewayInv, NoGateway, Busy,
     Telemetry, Performance, GatewayType
<1> QED
  BY <1>1, <1>2, <1>3, <1>4, <1>5, <1>6, <1>7, <1>8, <1>9, <1>10, <1>11, <1>12, <1>13, <1>14,
     <1>15, <1>16, <1>17, <1>18, <1>19, <1>20, <1>21, <1>22, <1>23, <1>24, <1>25, <1>26, <1>27,
     <1>28, <1>29, <1>30, <1>31, <1>32, <1>33, <1>34, <1>35, <1>36, <1>37, <1>38, <1>39, <1>40
     DEF Next, Step, Interrupt, Process

\* When the performance harness counts, its gateway has written everything.
LEMMA StepEndedInv == IInv /\ [Next]_vars => EndedInv'
<1> SUFFICES ASSUME IInv, [Next]_vars PROVE EndedInv'
  OBVIOUS
<1>0. EndedInv /\ RunInv /\ GatewayInv /\ GatewayType /\ QuietInv
  BY DEF IInv
<1>1. CASE Start
  BY <1>0, <1>1 DEF Start, disk, procs, Go, EndedInv, NoGateway, Performance, Busy
<1>2. CASE TearSnapshot
  BY <1>0, <1>2 DEF TearSnapshot, procs, invocation, progress, Go, EndedInv, NoGateway,
     Performance, Busy
<1>3. CASE WriteSnapshot
  BY <1>0, <1>3 DEF WriteSnapshot, procs, invocation, progress, Go, EndedInv, NoGateway,
     Performance, Busy
<1>4. CASE Return
  BY <1>0, <1>4 DEF Return, disk, procs, invocation, progress, Go, EndedInv, NoGateway,
     Performance, Busy
<1>5. CASE Skip
  BY <1>0, <1>5 DEF Skip, disk, procs, invocation, EndedInv, NoGateway, Performance, Busy
<1>6. CASE Refuse
  BY <1>0, <1>6 DEF Refuse, disk, invocation, progress, Go, EndedInv, NoGateway, Performance,
     Busy
<1>7. CASE Execute
  BY <1>0, <1>7 DEF Execute, disk, procs, invocation, Go, EndedInv, NoGateway, Performance, Busy
<1>8. CASE Leave
  BY <1>0, <1>8 DEF Leave, disk, invocation, progress, Go, EndedInv, NoGateway, Performance,
     Busy
<1>9. CASE Unlink
  BY <1>0, <1>9 DEF Unlink, procs, invocation, EndedInv, NoGateway, Performance, Busy
<1>10. CASE Spawn
  BY <1>0, <1>10 DEF Spawn, invocation, progress, Go, NoGateway, EndedInv, Performance, Busy,
     RunInv
<1>11. CASE EnterTry
  BY <1>0, <1>11 DEF EnterTry, disk, procs, invocation, progress, Go, EndedInv, NoGateway,
     Performance, Busy
<1>12. CASE RuncRun
  BY <1>0, <1>12 DEF RuncRun, disk, invocation, progress, Go, Deleted, EndedInv, NoGateway,
     Performance, Busy
<1>13. CASE Fail
  BY <1>0, <1>13 DEF Fail, disk, procs, invocation, progress, Go, EndedInv, NoGateway,
     Performance, Busy
<1>14. CASE SeeStopped
  BY <1>0, <1>14 DEF SeeStopped, disk, invocation, progress, Go, EndedInv, NoGateway,
     Performance, Busy
<1>15. CASE JoinSampler
  BY <1>0, <1>15 DEF JoinSampler, disk, procs, invocation, progress, Go, EndedInv, NoGateway,
     Performance, Busy, HasMonitor
<1>16. CASE WaitMonitor
  BY <1>0, <1>16 DEF WaitMonitor, disk, procs, invocation, progress, Go, EndedInv, NoGateway,
     Performance, Busy
<1>17. CASE TerminateGateway
  BY <1>0, <1>17 DEF TerminateGateway, disk, invocation, progress, Go, Terminated, NoGateway,
     EndedInv, Performance, Busy
<1>18. CASE WaitGateway
  BY <1>0, <1>18 DEF WaitGateway, disk, procs, invocation, progress, Go, EndedInv, NoGateway,
     Performance, Busy, GatewayInv
<1>19. CASE Count
  BY <1>0, <1>19 DEF Count, disk, procs, invocation, Go, EndedInv, NoGateway, Performance, Busy
<1>20. CASE TearResult
  BY <1>0, <1>20 DEF TearResult, procs, invocation, progress, Go, EndedInv, NoGateway,
     Performance, Busy
<1>21. CASE WriteResult
  BY <1>0, <1>21 DEF WriteResult, procs, invocation, Go, Counts, EndedInv, NoGateway,
     Performance, Busy
<1>22. CASE Finally
  BY <1>0, <1>22 DEF Finally, disk, invocation, Go, Deleted, Terminated, NoGateway, EndedInv,
     Performance, Busy
<1>23. CASE Reap
  BY <1>0, <1>23 DEF Reap, disk, invocation, Go, EndRun, NoGateway, EndedInv, Performance, Busy
<1>24. CASE InterruptBetween
  BY <1>0, <1>24 DEF InterruptBetween, disk, invocation, progress, Go, EndedInv, NoGateway,
     Performance, Busy
<1>25. CASE InterruptRun
  BY <1>0, <1>25 DEF InterruptRun, disk, invocation, progress, Go, Terminated, NoGateway,
     EndedInv, Performance, Busy
<1>26. CASE InterruptCleanUp
  BY <1>0, <1>26 DEF InterruptCleanUp, disk, invocation, progress, Go, EndRun, NoGateway,
     EndedInv, Performance, Busy
<1>27. CASE PowerOff
  BY <1>0, <1>27 DEF PowerOff, disk, invocation, progress, Go, NoGateway, EndedInv,
     Performance, Busy
<1>28. CASE GatewayBinds
  BY <1>0, <1>28 DEF GatewayBinds, disk, invocation, progress, EndedInv, NoGateway,
     Performance, Busy
<1>29. CASE Send
  BY <1>0, <1>29 DEF Send, disk, invocation, progress, Deleted, EndedInv, NoGateway,
     Performance, Busy
<1>30. CASE Accept
  BY <1>0, <1>30 DEF Accept, disk, invocation, progress, EndedInv, NoGateway, Performance, Busy
<1>31. CASE Serve
  BY <1>0, <1>31 DEF Serve, invocation, progress, EndedInv, NoGateway, Performance, Busy
<1>32. CASE GatewayExits
  BY <1>0, <1>32 DEF GatewayExits, invocation, progress, NoGateway, EndedInv, Performance, Busy
<1>33. CASE ContainerStops
  BY <1>0, <1>33 DEF ContainerStops, disk, invocation, progress, EndedInv, NoGateway,
     Performance, Busy
<1>34. CASE Sample
  BY <1>0, <1>34 DEF Sample, procs, invocation, progress, EndedInv, NoGateway, Performance, Busy
<1>35. CASE SamplerEnds
  BY <1>0, <1>35 DEF SamplerEnds, disk, invocation, progress, EndedInv, NoGateway, Performance,
     Busy
<1>36. CASE MonitorStarts
  BY <1>0, <1>36 DEF MonitorStarts, disk, invocation, progress, EndedInv, NoGateway,
     Performance, Busy
<1>37. CASE MonitorEnds
  BY <1>0, <1>37 DEF MonitorEnds, disk, invocation, progress, EndedInv, NoGateway, Performance,
     Busy
<1>38. ASSUME NEW p \in left, LeftServes(p) PROVE EndedInv'
  BY <1>0, <1>38 DEF LeftServes, procs, invocation, progress, EndedInv, NoGateway, Performance,
     Busy
<1>39. ASSUME NEW p \in left, LeftEnds(p) PROVE EndedInv'
  BY <1>0, <1>39 DEF LeftEnds, procs, invocation, progress, EndedInv, NoGateway, Performance,
     Busy
<1>40. CASE UNCHANGED vars
  BY <1>0, <1>40 DEF vars, disk, procs, invocation, progress, EndedInv, NoGateway, Performance,
     Busy
<1> QED
  BY <1>1, <1>2, <1>3, <1>4, <1>5, <1>6, <1>7, <1>8, <1>9, <1>10, <1>11, <1>12, <1>13, <1>14,
     <1>15, <1>16, <1>17, <1>18, <1>19, <1>20, <1>21, <1>22, <1>23, <1>24, <1>25, <1>26, <1>27,
     <1>28, <1>29, <1>30, <1>31, <1>32, <1>33, <1>34, <1>35, <1>36, <1>37, <1>38, <1>39, <1>40
     DEF Next, Step, Interrupt, Process

\* The files of an earlier start are removed in order, the result last.
LEMMA StepRemovalInv == IInv /\ [Next]_vars => RemovalInv'
<1> SUFFICES ASSUME IInv, [Next]_vars PROVE RemovalInv'
  OBVIOUS
<1>0. ControlType /\ DataType /\ GatewayType /\ LeftType /\ RemovalInv /\ QuietInv /\ LeftInv
      /\ GatewayInv
  BY DEF IInv
<1>1. CASE Start
  BY <1>0, <1>1 DEF Start, disk, procs, Go, RemovalInv, Performance
<1>2. CASE TearSnapshot
  BY <1>0, <1>2 DEF TearSnapshot, procs, invocation, progress, Go, RemovalInv, Performance
<1>3. CASE WriteSnapshot
  BY <1>0, <1>3 DEF WriteSnapshot, procs, invocation, progress, Go, RemovalInv, Performance
<1>4. CASE Return
  BY <1>0, <1>4 DEF Return, disk, procs, invocation, progress, Go, RemovalInv, Performance
<1>5. CASE Skip
  BY <1>0, <1>5 DEF Skip, disk, procs, invocation, RemovalInv, Performance
<1>6. CASE Refuse
  BY <1>0, <1>6 DEF Refuse, disk, invocation, progress, Go, RemovalInv, Performance
<1>7. CASE Execute
  BY <1>0, <1>7 DEF Execute, disk, procs, invocation, Go, RemovalInv, Performance, Whole
<1>8. CASE Leave
  BY <1>0, <1>8 DEF Leave, disk, invocation, progress, Go, RemovalInv, Performance
<1>9. CASE Unlink
  <2>1. /\ id \in Ids /\ files \in [Ids -> Evidence] /\ id' = id /\ kind' = kind
        /\ todo' = Tail(todo) /\ files' = [files EXCEPT ![id][Head(todo)] = None]
    BY <1>0, <1>9 DEF Unlink, ControlType, DataType, invocation
  <2>2. pc = "unlink" /\ todo # << >>
    BY <1>9 DEF Unlink
  <2>3. Head(todo) \in {"requests", "resources", "summary", "result"}
    BY <1>0, <2>2, NextRemoval, Zenon
  <2>4. /\ files' \in [Ids -> Evidence]
        /\ files'[id] = [files[id] EXCEPT ![Head(todo)] = None]
    BY <2>1, <2>3, OneRemoved, ZenonT(60)
  <2>5. /\ files'[id].requests = IF Head(todo) = "requests" THEN None ELSE files[id].requests
        /\ files'[id].summary = IF Head(todo) = "summary" THEN None ELSE files[id].summary
        /\ files'[id].result = IF Head(todo) = "result" THEN None ELSE files[id].result
    <3>1. CASE Head(todo) = "requests"
      BY <2>1, <2>4, <3>1 DEF Evidence
    <3>2. CASE Head(todo) = "resources"
      BY <2>1, <2>4, <3>2 DEF Evidence
    <3>3. CASE Head(todo) = "summary"
      BY <2>1, <2>4, <3>3 DEF Evidence
    <3>4. CASE Head(todo) = "result"
      BY <2>1, <2>4, <3>4 DEF Evidence
    <3> QED
      BY <2>3, <3>1, <3>2, <3>3, <3>4
  <2>6. CASE todo = <<"requests", "resources", "summary", "result">> /\ Performance
    BY <2>1, <2>5, <2>6 DEF RemovalInv, Whole, Performance
  <2>7. CASE todo = <<"requests", "resources", "result">> /\ ~Performance
    BY <2>1, <2>5, <2>7 DEF RemovalInv, Whole, Performance
  <2>8. CASE todo = <<"resources", "summary", "result">> /\ Performance
    BY <1>0, <2>1, <2>2, <2>5, <2>8 DEF RemovalInv, Whole, Performance
  <2>9. CASE todo = <<"resources", "result">> /\ ~Performance
    BY <1>0, <2>1, <2>2, <2>5, <2>9 DEF RemovalInv, Whole, Performance
  <2>10. CASE todo = <<"summary", "result">> /\ Performance
    BY <1>0, <2>1, <2>2, <2>5, <2>10 DEF RemovalInv, Whole, Performance
  <2>11. CASE todo = <<"result">>
    BY <1>0, <2>1, <2>2, <2>5, <2>11 DEF RemovalInv, Whole, Performance
  <2> QED
    BY <1>0, <2>2, <2>6, <2>7, <2>8, <2>9, <2>10, <2>11, NextRemoval, Zenon
<1>10. CASE Spawn
  BY <1>0, <1>10 DEF Spawn, invocation, progress, Go, NoGateway, RemovalInv, Performance
<1>11. CASE EnterTry
  BY <1>0, <1>11 DEF EnterTry, disk, procs, invocation, progress, Go, RemovalInv, Performance
<1>12. CASE RuncRun
  BY <1>0, <1>12 DEF RuncRun, disk, invocation, progress, Go, Deleted, RemovalInv, Performance
<1>13. CASE Fail
  BY <1>0, <1>13 DEF Fail, disk, procs, invocation, progress, Go, RemovalInv, Performance
<1>14. CASE SeeStopped
  BY <1>0, <1>14 DEF SeeStopped, disk, invocation, progress, Go, RemovalInv, Performance
<1>15. CASE JoinSampler
  BY <1>0, <1>15 DEF JoinSampler, disk, procs, invocation, progress, Go, RemovalInv, Performance
<1>16. CASE WaitMonitor
  BY <1>0, <1>16 DEF WaitMonitor, disk, procs, invocation, progress, Go, RemovalInv, Performance
<1>17. CASE TerminateGateway
  BY <1>0, <1>17 DEF TerminateGateway, disk, invocation, progress, Go, Terminated, NoGateway,
     RemovalInv, Performance
<1>18. CASE WaitGateway
  BY <1>0, <1>18 DEF WaitGateway, disk, procs, invocation, progress, Go, RemovalInv, Performance
<1>19. CASE Count
  BY <1>0, <1>19 DEF Count, disk, procs, invocation, Go, RemovalInv, Performance
<1>20. CASE TearResult
  BY <1>0, <1>20 DEF TearResult, procs, invocation, progress, Go, RemovalInv, Performance
<1>21. CASE WriteResult
  BY <1>0, <1>21 DEF WriteResult, procs, invocation, Go, Counts, RemovalInv, Performance
<1>22. CASE Finally
  BY <1>0, <1>22 DEF Finally, disk, invocation, Go, Deleted, Terminated, NoGateway, RemovalInv,
     Performance
<1>23. CASE Reap
  BY <1>0, <1>23 DEF Reap, disk, invocation, Go, EndRun, NoGateway, RemovalInv, Performance
<1>24. CASE InterruptBetween
  BY <1>0, <1>24 DEF InterruptBetween, disk, invocation, progress, Go, RemovalInv, Performance
<1>25. CASE InterruptRun
  BY <1>0, <1>25 DEF InterruptRun, disk, invocation, progress, Go, Terminated, NoGateway,
     RemovalInv, Performance
<1>26. CASE InterruptCleanUp
  BY <1>0, <1>26 DEF InterruptCleanUp, disk, invocation, progress, Go, EndRun, NoGateway,
     RemovalInv, Performance
<1>27. CASE PowerOff
  BY <1>0, <1>27 DEF PowerOff, disk, invocation, progress, Go, NoGateway, RemovalInv,
     Performance
<1>28. CASE GatewayBinds
  BY <1>0, <1>28 DEF GatewayBinds, disk, invocation, progress, RemovalInv, Performance
<1>29. CASE Send
  BY <1>0, <1>29 DEF Send, disk, invocation, progress, Deleted, RemovalInv, Performance
<1>30. CASE Accept
  BY <1>0, <1>30 DEF Accept, disk, invocation, progress, RemovalInv, Performance
<1>31. CASE Serve
  BY <1>0, <1>31 DEF Serve, invocation, progress, RemovalInv, GatewayInv, Busy, NoGateway
<1>32. CASE GatewayExits
  BY <1>0, <1>32 DEF GatewayExits, invocation, progress, RemovalInv, GatewayInv, Busy, NoGateway
<1>33. CASE ContainerStops
  BY <1>0, <1>33 DEF ContainerStops, disk, invocation, progress, RemovalInv, Performance
<1>34. CASE Sample
  BY <1>0, <1>34 DEF Sample, procs, invocation, progress, RemovalInv, QuietInv, Busy, NoGateway
<1>35. CASE SamplerEnds
  BY <1>0, <1>35 DEF SamplerEnds, disk, invocation, progress, RemovalInv, Performance
<1>36. CASE MonitorStarts
  BY <1>0, <1>36 DEF MonitorStarts, disk, invocation, progress, RemovalInv, Performance
<1>37. CASE MonitorEnds
  BY <1>0, <1>37 DEF MonitorEnds, disk, invocation, progress, RemovalInv, Performance
<1>38. ASSUME NEW p \in left, LeftServes(p) PROVE RemovalInv'
  <2>1. p \in Leftovers /\ UNCHANGED <<kind, pc, id, todo>>
    BY <1>0, <1>38 DEF LeftServes, LeftType, invocation, progress
  <2>2. files'[id].result = files[id].result
    BY <1>0, <1>38, <2>1 DEF LeftServes, DataType, Evidence, Leftovers
  <2>3. pc = "unlink" /\ todo \notin Whole => files'[id].requests = files[id].requests
    BY <1>0, <1>38, <2>1 DEF LeftServes, LeftInv, Writes, DataType, Leftovers
  <2> QED
    BY <1>0, <2>1, <2>2, <2>3 DEF RemovalInv, Performance
<1>39. ASSUME NEW p \in left, LeftEnds(p) PROVE RemovalInv'
  <2>1. p \in Leftovers /\ UNCHANGED <<kind, pc, id, todo>>
    BY <1>0, <1>39 DEF LeftEnds, LeftType, invocation, progress
  <2>2. pc = "unlink" => id \in Ids
    BY <1>0 DEF ControlType
  <2>3. id \in Ids => /\ files'[id].result = files[id].result
                     /\ files'[id].requests = files[id].requests
    BY <1>0, <1>39, <2>1 DEF LeftEnds, DataType, Evidence, Leftovers
  <2> QED
    BY <1>0, <2>1, <2>2, <2>3 DEF RemovalInv, Performance
<1>40. CASE UNCHANGED vars
  BY <1>0, <1>40 DEF vars, disk, procs, invocation, progress, RemovalInv, Performance, Busy,
     NoGateway, Evidence
<1> QED
  BY <1>1, <1>2, <1>3, <1>4, <1>5, <1>6, <1>7, <1>8, <1>9, <1>10, <1>11, <1>12, <1>13, <1>14,
     <1>15, <1>16, <1>17, <1>18, <1>19, <1>20, <1>21, <1>22, <1>23, <1>24, <1>25, <1>26, <1>27,
     <1>28, <1>29, <1>30, <1>31, <1>32, <1>33, <1>34, <1>35, <1>36, <1>37, <1>38, <1>39, <1>40
     DEF Next, Step, Interrupt, Process

\* What is left behind is of a start that was cut short, or kept by runc, and
\* writes nothing that is still to be counted, or has been.
LEMMA StepLeftInv == IInv /\ [Next]_vars => LeftInv'
<1> SUFFICES ASSUME IInv, [Next]_vars PROVE LeftInv'
  OBVIOUS
<1>0. ControlType /\ DataType /\ GatewayType /\ LeftType /\ QuietInv /\ GatewayInv /\ EndedInv
      /\ RemovalInv /\ LeftInv /\ RunInv
  BY DEF IInv
<1>1. CASE Start
  <2>1. pc = "idle" /\ starts' = starts + 1 /\ UNCHANGED <<kind, files, left>>
    BY <1>1 DEF Start, disk
  <2>2. starts' \in 1..MaxStarts /\ starts \in Nat
    BY <1>0, <1>1, BoundAssumption DEF Start, ControlType
  <2>3. pc' \notin Busy \union {"unlink"}
    BY <1>1 DEF Start, Go, Busy
  <2>4. \A p \in left : p.start \in Nat
    BY <1>0 DEF LeftType, Leftovers
  <2> QED
    BY <1>0, <2>1, <2>2, <2>3, <2>4 DEF LeftInv, Writes, Passed, Performance
<1>2. CASE TearSnapshot
  BY <1>0, <1>2 DEF TearSnapshot, procs, invocation, progress, Go, LeftInv, Writes, Passed,
     Performance, Busy
<1>3. CASE WriteSnapshot
  BY <1>0, <1>3 DEF WriteSnapshot, procs, invocation, progress, Go, LeftInv, Writes, Passed,
     Performance, Busy
<1>4. CASE Return
  BY <1>0, <1>4 DEF Return, disk, procs, invocation, progress, Go, LeftInv, Writes, Passed,
     Performance, Busy
<1>5. CASE Skip
  BY <1>0, <1>5 DEF Skip, disk, procs, invocation, LeftInv, Writes, Passed, Performance, Busy
<1>6. CASE Refuse
  BY <1>0, <1>6 DEF Refuse, disk, invocation, progress, Go, LeftInv, Writes, Passed,
     Performance, Busy
<1>7. CASE Execute
  <2>1. /\ UNCHANGED <<kind, starts, files, left, id>> /\ pc' = "unlink" /\ todo' \in Whole
        /\ pc = "next"
    BY <1>7 DEF Execute, disk, invocation, Go, Whole
  <2> QED
    BY <1>0, <2>1 DEF LeftInv, Writes, Passed, Performance, Busy
<1>8. CASE Leave
  BY <1>0, <1>8 DEF Leave, disk, invocation, progress, Go, LeftInv, Writes, Passed,
     Performance, Busy
<1>9. CASE Unlink
  <2> DEFINE Cut(p) == [p EXCEPT !.linked = @ /\ p.run # id]
  <2>1. /\ pc = "unlink" /\ todo # << >> /\ id \in Ids /\ files \in [Ids -> Evidence]
        /\ files' = [files EXCEPT ![id][Head(todo)] = None]
        /\ UNCHANGED <<kind, pc, id, starts>>
    BY <1>0, <1>9 DEF Unlink, ControlType, DataType, invocation
  <2>2. Head(todo) \in {"requests", "resources", "summary", "result"}
    BY <1>0, <2>1, NextRemoval, Zenon
  <2>3. ASSUME NEW p \in left
        PROVE  /\ p \in Leftovers /\ p.run \in Ids
               /\ Cut(p) \in Leftovers /\ Cut(p).linked = (p.linked /\ p.run # id)
               /\ Cut(p).process = p.process /\ Cut(p).run = p.run /\ Cut(p).start = p.start
               /\ Cut(p).served = p.served /\ Cut(p).cut = p.cut
    BY <1>0, <2>3 DEF LeftType, Leftovers
  <2>4. ASSUME NEW i \in Ids \ {id} PROVE files'[i] = files[i]
    BY <2>1, <2>2, <2>4, OneRemoved
  <2>5. CASE Head(todo) = "requests"
    <3>1. left' = {Cut(p) : p \in left}
      BY <1>9, <2>5 DEF Unlink
    <3>2. ASSUME NEW q \in left', q.linked
          PROVE  q \in left /\ q.run # id /\ Writes(q)'
      <4>1. PICK p \in left : q = Cut(p)
        BY <3>1
      <4>2. p.linked /\ p.run # id
        BY <2>3, <3>2, <4>1
      <4>3. Cut(p) = p
        BY <2>3, <4>2 DEF Leftovers
      <4>4. Writes(p) /\ files'[p.run] = files[p.run]
        BY <1>0, <2>3, <2>4, <4>2 DEF LeftInv
      <4> QED
        BY <2>1, <4>1, <4>2, <4>3, <4>4 DEF Writes, Passed, Performance
    <3>3. \A q \in left' : q.start <= starts /\ (q.cut \/ q.process = "kept")
      <4>1. ASSUME NEW p \in left
            PROVE  Cut(p).start <= starts /\ (Cut(p).cut \/ Cut(p).process = "kept")
        BY <1>0, <2>3 DEF LeftInv
      <4> QED
        BY <3>1, <4>1
    <3>4. \A q \in left' : q.cut /\ q.start = starts => pc = "idle"
      <4>1. ASSUME NEW p \in left PROVE Cut(p).cut /\ Cut(p).start = starts => pc = "idle"
        BY <1>0, <2>3 DEF LeftInv
      <4> QED
        BY <3>1, <4>1
    <3> QED
      BY <1>0, <2>1, <3>2, <3>3, <3>4 DEF LeftInv
  <2>6. CASE Head(todo) # "requests"
    <3>1. left' = left
      BY <1>9, <2>6 DEF Unlink
    <3>2. todo \notin Whole
      BY <1>0, <2>1, <2>6, NextRemoval DEF Whole
    <3>3. ASSUME NEW p \in left, p.linked PROVE Writes(p)'
      <4>1. Writes(p) /\ p.run # id /\ files'[p.run] = files[p.run]
        BY <1>0, <2>1, <2>3, <2>4, <3>2, <3>3 DEF LeftInv, Writes
      <4> QED
        BY <2>1, <4>1 DEF Writes, Passed, Performance
    <3> QED
      BY <1>0, <2>1, <3>1, <3>3 DEF LeftInv
  <2> QED
    BY <2>5, <2>6
<1>10. CASE Spawn
  <2>1. /\ id \in Ids /\ files \in [Ids -> Evidence] /\ UNCHANGED <<kind, starts, left, id>>
        /\ pc = "unlink" /\ todo \notin Whole /\ pc' # "idle"
    BY <1>0, <1>10 DEF Spawn, Go, ControlType, DataType, invocation, progress, Whole
  <2>2. \A i \in Ids \ {id} : files'[i] = files[i]
    BY <1>10, <2>1 DEF Spawn
  <2>3. ASSUME NEW p \in left, p.linked PROVE Writes(p)'
    <3>1. Writes(p) /\ p.run # id /\ p.run \in Ids
      BY <1>0, <2>1, <2>3 DEF LeftInv, Writes, LeftType, Leftovers
    <3> QED
      BY <2>1, <2>2, <3>1 DEF Writes, Passed, Performance
  <2> QED
    BY <1>0, <2>1, <2>3 DEF LeftInv
<1>11. CASE EnterTry
  BY <1>0, <1>11 DEF EnterTry, disk, procs, invocation, progress, Go, LeftInv, Writes, Passed,
     Performance, Busy
<1>12. CASE RuncRun
  <2>1. /\ UNCHANGED <<kind, starts, files, id>> /\ left' \subseteq left
        /\ pc \in Busy /\ pc' \in Busy /\ pc # "idle"
    BY <1>12 DEF RuncRun, Go, disk, invocation, progress, Busy
  <2>2. \A p \in left : Writes(p) => Writes(p)'
    BY <2>1 DEF Writes, Passed, Performance
  <2> QED
    BY <1>0, <2>1, <2>2 DEF LeftInv
<1>13. CASE Fail
  BY <1>0, <1>13 DEF Fail, disk, procs, invocation, progress, Go, LeftInv, Writes, Passed,
     Performance, Busy
<1>14. CASE SeeStopped
  BY <1>0, <1>14 DEF SeeStopped, disk, invocation, progress, Go, LeftInv, Writes, Passed,
     Performance, Busy
<1>15. CASE JoinSampler
  BY <1>0, <1>15 DEF JoinSampler, disk, procs, invocation, progress, Go, LeftInv, Writes,
     Passed, Performance, Busy
<1>16. CASE WaitMonitor
  BY <1>0, <1>16 DEF WaitMonitor, disk, procs, invocation, progress, Go, LeftInv, Writes,
     Passed, Performance, Busy
<1>17. CASE TerminateGateway
  BY <1>0, <1>17 DEF TerminateGateway, disk, invocation, progress, Go, Terminated, NoGateway,
     LeftInv, Writes, Passed, Performance, Busy
<1>18. CASE WaitGateway
  BY <1>0, <1>18 DEF WaitGateway, disk, procs, invocation, progress, Go, LeftInv, Writes,
     Passed, Performance, Busy
<1>19. CASE Count
  BY <1>0, <1>19 DEF Count, disk, procs, invocation, Go, LeftInv, Writes, Passed, Performance,
     Busy
<1>20. CASE TearResult
  <2>1. /\ id \in Ids /\ files \in [Ids -> Evidence] /\ UNCHANGED <<kind, starts, left, id>>
        /\ pc \in Busy /\ pc' # "idle"
    BY <1>0, <1>20 DEF TearResult, Go, ControlType, DataType, invocation, progress, Busy
  <2>2. \A i \in Ids \ {id} : files'[i] = files[i]
    BY <1>20, <2>1 DEF TearResult
  <2>3. ASSUME NEW p \in left, p.linked PROVE Writes(p)'
    <3>1. Writes(p) /\ p.run # id /\ p.run \in Ids
      BY <1>0, <2>1, <2>3 DEF LeftInv, Writes, LeftType, Leftovers
    <3> QED
      BY <2>1, <2>2, <3>1 DEF Writes, Passed, Performance
  <2> QED
    BY <1>0, <2>1, <2>3 DEF LeftInv, Busy
<1>21. CASE WriteResult
  <2>1. /\ id \in Ids /\ files \in [Ids -> Evidence] /\ UNCHANGED <<kind, starts, left, id>>
        /\ pc \in Busy /\ pc' # "idle"
    BY <1>0, <1>21 DEF WriteResult, Go, ControlType, DataType, invocation, progress, Busy
  <2>2. \A i \in Ids \ {id} : files'[i] = files[i]
    BY <1>21, <2>1 DEF WriteResult
  <2>3. ASSUME NEW p \in left, p.linked PROVE Writes(p)'
    <3>1. Writes(p) /\ p.run # id /\ p.run \in Ids
      BY <1>0, <2>1, <2>3 DEF LeftInv, Writes, LeftType, Leftovers
    <3> QED
      BY <2>1, <2>2, <3>1 DEF Writes, Passed, Performance
  <2> QED
    BY <1>0, <2>1, <2>3 DEF LeftInv, Busy
<1>22. CASE Finally
  <2>1. /\ UNCHANGED <<kind, starts, files, id>> /\ left' \subseteq left
        /\ pc \in Busy /\ pc' \in Busy /\ pc # "idle"
    BY <1>22 DEF Finally, Go, disk, invocation, progress, Busy
  <2>2. \A p \in left : Writes(p) => Writes(p)'
    BY <2>1 DEF Writes, Passed, Performance
  <2> QED
    BY <1>0, <2>1, <2>2 DEF LeftInv
<1>23. CASE Reap
  <2>1. /\ UNCHANGED <<kind, starts, files>> /\ pc \in Busy /\ pc' \notin Busy \union {"unlink"}
        /\ left' = left \union Remains(NoGateway, container, monitor, FALSE)
    BY <1>23 DEF Reap, Go, EndRun, disk, invocation, Busy
  <2>2. \A p \in Remains(NoGateway, container, monitor, FALSE) :
          p.process = "kept" /\ ~p.linked /\ ~p.cut /\ p.start = starts
    BY <1>0, <1>23 DEF Reap, Remains, Left, NoGateway, QuietInv, ControlType
  <2>3. starts \in 1..MaxStarts
    BY <1>0, <2>1 DEF LeftInv, Busy
  <2>4. \A p \in left : Writes(p) => Writes(p)'
    BY <2>1 DEF Writes, Passed, Performance
  <2>5. starts \in Nat /\ starts <= starts
    BY <2>3
  <2>6. \A p \in left' : p.linked => p \in left /\ Writes(p)'
    BY <1>0, <2>1, <2>2, <2>4 DEF LeftInv
  <2>7. \A p, q \in left' : p.linked /\ q.linked /\ p.run = q.run => p = q
    BY <1>0, <2>6 DEF LeftInv
  <2>8. \A p \in left' : p.start <= starts' /\ (p.cut \/ p.process = "kept")
    BY <1>0, <2>1, <2>2, <2>5 DEF LeftInv
  <2>9. ASSUME NEW p \in left', p.cut, p.start = starts' PROVE FALSE
    <3>1. p \in left /\ p.cut /\ p.start = starts /\ pc # "idle"
      BY <2>1, <2>2, <2>9 DEF Busy
    <3> QED
      BY <1>0, <3>1 DEF LeftInv
  <2> QED
    BY <2>1, <2>3, <2>6, <2>7, <2>8, <2>9 DEF LeftInv
<1>24. CASE InterruptBetween
  BY <1>0, <1>24 DEF InterruptBetween, disk, invocation, progress, Go, LeftInv, Writes, Passed,
     Performance, Busy
<1>25. CASE InterruptRun
  BY <1>0, <1>25 DEF InterruptRun, disk, invocation, progress, Go, Terminated, NoGateway,
     LeftInv, Writes, Passed, Performance, Busy
<1>26. CASE InterruptCleanUp
  <2>1. PICK c \in {container, "none"} : EndRun(gateway, c, monitor, TRUE)
    BY <1>26 DEF InterruptCleanUp
  <2>2. /\ UNCHANGED <<kind, starts, files, id>> /\ pc' = "idle"
        /\ pc \in {"spawned", "finally", "reap"} /\ pc \in Busy /\ id \in Ids
        /\ left' = left \union Remains(gateway, c, monitor, TRUE)
    BY <1>0, <1>26, <2>1 DEF InterruptCleanUp, Go, EndRun, disk, invocation, progress, Busy,
       ControlType
  <2>3. starts \in 1..MaxStarts
    BY <1>0, <2>2 DEF LeftInv, Busy
  <2>4. ASSUME NEW p \in Remains(gateway, c, monitor, TRUE)
        PROVE  /\ p.cut /\ p.start = starts
               /\ p.linked => /\ p = Left("gateway", gateway.served, TRUE, TRUE)
                              /\ gateway.state # "none" /\ Telemetry
    <3>1. Telemetry \in BOOLEAN
      BY DEF Telemetry, Performance
    <3> QED
      BY <2>4, <3>1 DEF Remains, Left
  <2>5. ASSUME NEW p \in Remains(gateway, c, monitor, TRUE), p.linked
        PROVE  Writes(p)' /\ p.run = id
    <3>1. /\ p.process = "gateway" /\ p.run = id /\ p.served = gateway.served
          /\ gateway.state # "none" /\ Telemetry
      <4>1. p = Left("gateway", gateway.served, TRUE, TRUE) /\ gateway.state # "none" /\ Telemetry
        BY <2>4, <2>5
      <4> QED
        BY ONLY <4>1 DEF Left
    <3>2. Lines(files[id].requests) = p.served
      BY <1>0, <3>1 DEF GatewayInv
    <3>3. Performance => ~Passed(id)
      <4>1. Performance => ~passing
        BY <1>0, <3>1 DEF EndedInv, NoGateway
      <4> QED
        BY <1>0, <2>2, <4>1 DEF RunInv, Passed, Busy
    <3>4. ~Performance /\ Passed(id) => files[id].requests # None
      BY <1>0, <2>2 DEF RunInv, Passed, Busy
    <3> QED
      BY <2>2, <3>1, <3>2, <3>3, <3>4 DEF Writes, Passed, Performance, Busy
  <2>6. ASSUME NEW p \in left, p.linked PROVE Writes(p)' /\ p.run # id
    BY <1>0, <2>2, <2>6 DEF LeftInv, Writes, Passed, Performance, Busy
  <2>7. starts \in Nat /\ starts <= starts
    BY <2>3
  <2>8. \A p \in left' : p.linked => Writes(p)'
    BY <2>2, <2>5, <2>6
  <2>9. \A p, q \in left' : p.linked /\ q.linked /\ p.run = q.run => p = q
    BY <1>0, <2>2, <2>4, <2>5, <2>6 DEF LeftInv
  <2>10. \A p \in left' : p.start <= starts' /\ (p.cut \/ p.process = "kept")
    BY <1>0, <2>2, <2>4, <2>7 DEF LeftInv
  <2> QED
    BY <2>2, <2>8, <2>9, <2>10 DEF LeftInv
<1>27. CASE PowerOff
  BY <1>0, <1>27 DEF PowerOff, Go, LeftInv
<1>28. CASE GatewayBinds
  BY <1>0, <1>28 DEF GatewayBinds, disk, invocation, progress, LeftInv, Writes, Passed,
     Performance, Busy
<1>29. CASE Send
  BY <1>0, <1>29 DEF Send, disk, invocation, progress, Deleted, LeftInv, Writes, Passed,
     Performance, Busy
<1>30. CASE Accept
  BY <1>0, <1>30 DEF Accept, disk, invocation, progress, LeftInv, Writes, Passed, Performance,
     Busy
<1>31. CASE Serve
  <2>1. /\ id \in Ids /\ files \in [Ids -> Evidence]
        /\ UNCHANGED <<kind, starts, left, id, pc, todo>> /\ pc \in Busy
    BY <1>0, <1>31 DEF Serve, ControlType, DataType, invocation, progress, GatewayInv, QuietInv,
       NoGateway
  <2>2. \A i \in Ids \ {id} : files'[i] = files[i]
    BY <1>31, <2>1 DEF Serve
  <2>3. ASSUME NEW p \in left, p.linked PROVE Writes(p)'
    <3>1. Writes(p) /\ p.run # id /\ p.run \in Ids
      BY <1>0, <2>1, <2>3 DEF LeftInv, Writes, LeftType, Leftovers
    <3> QED
      BY <2>1, <2>2, <3>1 DEF Writes, Passed, Performance
  <2> QED
    BY <1>0, <2>1, <2>3 DEF LeftInv
<1>32. CASE GatewayExits
  <2>1. /\ id \in Ids /\ files \in [Ids -> Evidence]
        /\ UNCHANGED <<kind, starts, left, id, pc, todo>> /\ pc \in Busy
    BY <1>0, <1>32 DEF GatewayExits, ControlType, DataType, invocation, progress, GatewayInv,
       QuietInv,
       NoGateway
  <2>2. \A i \in Ids \ {id} : files'[i] = files[i]
    BY <1>32, <2>1 DEF GatewayExits
  <2>3. ASSUME NEW p \in left, p.linked PROVE Writes(p)'
    <3>1. Writes(p) /\ p.run # id /\ p.run \in Ids
      BY <1>0, <2>1, <2>3 DEF LeftInv, Writes, LeftType, Leftovers
    <3> QED
      BY <2>1, <2>2, <3>1 DEF Writes, Passed, Performance
  <2> QED
    BY <1>0, <2>1, <2>3 DEF LeftInv
<1>33. CASE ContainerStops
  BY <1>0, <1>33 DEF ContainerStops, disk, invocation, progress, LeftInv, Writes, Passed,
     Performance, Busy
<1>34. CASE Sample
  <2>1. /\ id \in Ids /\ files \in [Ids -> Evidence]
        /\ UNCHANGED <<kind, starts, left, id, pc, todo>> /\ pc \in Busy
    BY <1>0, <1>34 DEF Sample, ControlType, DataType, invocation, progress, GatewayInv, QuietInv,
       NoGateway
  <2>2. \A i \in Ids \ {id} : files'[i] = files[i]
    BY <1>34, <2>1 DEF Sample
  <2>3. ASSUME NEW p \in left, p.linked PROVE Writes(p)'
    <3>1. Writes(p) /\ p.run # id /\ p.run \in Ids
      BY <1>0, <2>1, <2>3 DEF LeftInv, Writes, LeftType, Leftovers
    <3> QED
      BY <2>1, <2>2, <3>1 DEF Writes, Passed, Performance
  <2> QED
    BY <1>0, <2>1, <2>3 DEF LeftInv
<1>35. CASE SamplerEnds
  BY <1>0, <1>35 DEF SamplerEnds, disk, invocation, progress, LeftInv, Writes, Passed,
     Performance, Busy
<1>36. CASE MonitorStarts
  BY <1>0, <1>36 DEF MonitorStarts, disk, invocation, progress, LeftInv, Writes, Passed,
     Performance, Busy
<1>37. CASE MonitorEnds
  BY <1>0, <1>37 DEF MonitorEnds, disk, invocation, progress, LeftInv, Writes, Passed,
     Performance, Busy
<1>38. ASSUME NEW p \in left, LeftServes(p) PROVE LeftInv'
  <2> DEFINE q == [p EXCEPT !.served = @ + 1]
  <2>1. /\ p \in Leftovers /\ p.served \in Nat /\ q.served \in Nat
        /\ q.process = p.process /\ q.run = p.run /\ q.start = p.start /\ q.linked = p.linked
        /\ q.cut = p.cut /\ q.served = p.served + 1 /\ p.run \in Ids
    BY <1>0, <1>38, BoundAssumption DEF LeftServes, LeftType, Leftovers
  <2>2. /\ p.process = "gateway" /\ left' = (left \ {p}) \union {q}
        /\ files' = IF p.linked THEN [files EXCEPT ![p.run].requests = q.served] ELSE files
        /\ UNCHANGED <<kind, starts, id, pc, todo>> /\ files \in [Ids -> Evidence]
    BY <1>0, <1>38 DEF LeftServes, DataType, invocation, progress
  <2>3. ASSUME NEW r \in left \ {p}, r.linked PROVE Writes(r)'
    <3>1. Writes(r) /\ r.run \in Ids /\ (p.linked => r.run # p.run)
      BY <1>0, <2>3 DEF LeftInv, LeftType, Leftovers
    <3>2. files'[r.run] = files[r.run]
      BY <2>1, <2>2, <3>1
    <3> QED
      BY <2>2, <3>1, <3>2 DEF Writes, Passed, Performance
  <2>4. ASSUME p.linked PROVE Writes(q)'
    <3>1. Writes(p)
      BY <1>0, <2>4 DEF LeftInv
    <3>2. /\ files'[p.run].requests = q.served /\ files'[p.run].result = files[p.run].result
          /\ q.served # None
      BY <2>1, <2>2, <2>4, NoneAssumption DEF Evidence
    <3> QED
      BY <2>1, <2>2, <3>1, <3>2 DEF Writes, Passed, Performance, Lines
  <2>5. \A r \in left \ {p} : r.linked /\ q.linked => r.run # q.run
    BY <1>0, <2>1 DEF LeftInv
  <2>6. \A r \in left' : r.linked => Writes(r)'
    BY <2>1, <2>2, <2>3, <2>4
  <2>7. ASSUME NEW r \in left', NEW t \in left', r.linked, t.linked, r.run = t.run
        PROVE  r = t
    <3>1. r \in left \ {p} \/ r = q
      BY <2>2
    <3>2. t \in left \ {p} \/ t = q
      BY <2>2
    <3>3. CASE r # q /\ t # q
      BY <1>0, <2>7, <3>1, <3>2, <3>3 DEF LeftInv
    <3> HIDE DEF q
    <3> QED
      BY <2>5, <2>7, <3>1, <3>2, <3>3
  <2>8. \A r \in left' : \E t \in left :
          r.start = t.start /\ r.cut = t.cut /\ r.process = t.process
    BY <2>1, <2>2
  <2> QED
    BY <1>0, <2>2, <2>6, <2>7, <2>8 DEF LeftInv
<1>39. ASSUME NEW p \in left, LeftEnds(p) PROVE LeftInv'
  <2>1. /\ left' \subseteq left /\ UNCHANGED <<kind, starts, id, pc, todo>> /\ p.run \in Ids
        /\ files \in [Ids -> Evidence]
    BY <1>0, <1>39 DEF LeftEnds, LeftType, Leftovers, DataType, invocation, progress
  <2>2. \A i \in Ids : /\ files'[i].requests = files[i].requests
                      /\ files'[i].result = files[i].result
    BY <1>39, <2>1 DEF LeftEnds, Evidence
  <2>3. \A r \in left : r.run \in Ids
    BY <1>0 DEF LeftType, Leftovers
  <2> QED
    BY <1>0, <2>1, <2>2, <2>3 DEF LeftInv, Writes, Passed, Performance
<1>40. CASE UNCHANGED vars
  BY <1>0, <1>40 DEF vars, disk, procs, invocation, progress, LeftInv, Writes, Passed,
     Performance, Busy
<1> QED
  BY <1>1, <1>2, <1>3, <1>4, <1>5, <1>6, <1>7, <1>8, <1>9, <1>10, <1>11, <1>12, <1>13, <1>14,
     <1>15, <1>16, <1>17, <1>18, <1>19, <1>20, <1>21, <1>22, <1>23, <1>24, <1>25, <1>26, <1>27,
     <1>28, <1>29, <1>30, <1>31, <1>32, <1>33, <1>34, <1>35, <1>36, <1>37, <1>38, <1>39, <1>40
     DEF Next, Step, Interrupt, Process

\* A run under way has no result before its own.
LEMMA StepRunInv == IInv /\ [Next]_vars => RunInv'
<1> SUFFICES ASSUME IInv, [Next]_vars PROVE RunInv'
  OBVIOUS
<1>0. ControlType /\ DataType /\ LeftType /\ RunInv /\ RemovalInv /\ LeftInv /\ QuietInv
      /\ CountInv /\ GatewayInv
  BY DEF IInv
<1>1. CASE Start
  BY <1>0, <1>1 DEF Start, disk, procs, Go, RunInv, Passed, Performance, Busy
<1>2. CASE TearSnapshot
  BY <1>0, <1>2 DEF TearSnapshot, procs, invocation, progress, Go, RunInv, Passed, Performance,
     Busy
<1>3. CASE WriteSnapshot
  BY <1>0, <1>3 DEF WriteSnapshot, procs, invocation, progress, Go, RunInv, Passed,
     Performance, Busy
<1>4. CASE Return
  BY <1>0, <1>4 DEF Return, disk, procs, invocation, progress, Go, RunInv, Passed, Performance,
     Busy
<1>5. CASE Skip
  BY <1>0, <1>5 DEF Skip, disk, procs, invocation, RunInv, Passed, Performance, Busy
<1>6. CASE Refuse
  BY <1>0, <1>6 DEF Refuse, disk, invocation, progress, Go, RunInv, Passed, Performance, Busy
<1>7. CASE Execute
  BY <1>0, <1>7 DEF Execute, disk, procs, invocation, Go, RunInv, Passed, Performance, Busy
<1>8. CASE Leave
  BY <1>0, <1>8 DEF Leave, disk, invocation, progress, Go, RunInv, Passed, Performance, Busy
<1>9. CASE Unlink
  BY <1>0, <1>9 DEF Unlink, procs, invocation, RunInv, Passed, Performance, Busy
<1>10. CASE Spawn
  BY <1>0, <1>10 DEF Spawn, invocation, progress, Go, NoGateway, RunInv, Passed, Performance,
     Busy, DataType, RemovalInv, Evidence
<1>11. CASE EnterTry
  BY <1>0, <1>11 DEF EnterTry, disk, procs, invocation, progress, Go, RunInv, Passed,
     Performance, Busy
<1>12. CASE RuncRun
  BY <1>0, <1>12 DEF RuncRun, disk, invocation, progress, Go, Deleted, RunInv, Passed,
     Performance, Busy
<1>13. CASE Fail
  BY <1>0, <1>13 DEF Fail, disk, procs, invocation, progress, Go, RunInv, Passed, Performance,
     Busy
<1>14. CASE SeeStopped
  BY <1>0, <1>14 DEF SeeStopped, disk, invocation, progress, Go, RunInv, Passed, Performance,
     Busy
<1>15. CASE JoinSampler
  BY <1>0, <1>15 DEF JoinSampler, disk, procs, invocation, progress, Go, RunInv, Passed,
     Performance, Busy
<1>16. CASE WaitMonitor
  BY <1>0, <1>16 DEF WaitMonitor, disk, procs, invocation, progress, Go, RunInv, Passed,
     Performance, Busy
<1>17. CASE TerminateGateway
  BY <1>0, <1>17 DEF TerminateGateway, disk, invocation, progress, Go, Terminated, NoGateway,
     RunInv, Passed, Performance, Busy
<1>18. CASE WaitGateway
  BY <1>0, <1>18 DEF WaitGateway, disk, procs, invocation, progress, Go, RunInv, Passed,
     Performance, Busy
<1>19. CASE Count
  BY <1>0, <1>19 DEF Count, disk, procs, invocation, Go, RunInv, Passed, Performance, Busy
<1>20. CASE TearResult
  BY <1>0, <1>20 DEF TearResult, procs, invocation, progress, Go, RunInv, Passed, Performance,
     Busy, ControlType, DataType
<1>21. CASE WriteResult
  <2>1. /\ pc' = "finally" /\ passing' /\ id' = id /\ id \in Ids /\ files \in [Ids -> Evidence]
        /\ files'[id].requests = files[id].requests /\ kind' = kind /\ pc = "resulting"
    BY <1>0, <1>21 DEF WriteResult, Go, ControlType, DataType, Evidence, Busy, invocation
  <2>2. ~Performance => files[id].requests # None
    BY <1>0, <2>1, BoundAssumption
    DEF CountInv, Telemetry, Lines, ControlType, DataType, Tallies, Evidence
  <2> QED
    BY <2>1, <2>2 DEF RunInv, Busy, Performance
<1>22. CASE Finally
  BY <1>0, <1>22 DEF Finally, disk, invocation, Go, Deleted, Terminated, NoGateway, RunInv,
     Passed, Performance, Busy
<1>23. CASE Reap
  BY <1>0, <1>23 DEF Reap, disk, invocation, Go, EndRun, NoGateway, RunInv, Passed,
     Performance, Busy
<1>24. CASE InterruptBetween
  BY <1>0, <1>24 DEF InterruptBetween, disk, invocation, progress, Go, RunInv, Passed,
     Performance, Busy, ControlType
<1>25. CASE InterruptRun
  BY <1>0, <1>25 DEF InterruptRun, disk, invocation, progress, Go, Terminated, NoGateway,
     RunInv, Passed, Performance, Busy, ControlType
<1>26. CASE InterruptCleanUp
  BY <1>0, <1>26 DEF InterruptCleanUp, disk, invocation, progress, Go, EndRun, NoGateway,
     RunInv, Passed, Performance, Busy
<1>27. CASE PowerOff
  BY <1>0, <1>27 DEF PowerOff, disk, invocation, progress, Go, NoGateway, RunInv, Passed,
     Performance, Busy
<1>28. CASE GatewayBinds
  BY <1>0, <1>28 DEF GatewayBinds, disk, invocation, progress, RunInv, Passed, Performance, Busy
<1>29. CASE Send
  BY <1>0, <1>29 DEF Send, disk, invocation, progress, Deleted, RunInv, Passed, Performance,
     Busy
<1>30. CASE Accept
  BY <1>0, <1>30 DEF Accept, disk, invocation, progress, RunInv, Passed, Performance, Busy
<1>31. CASE Serve
  <2>1. pc' = pc /\ id' = id /\ UNCHANGED <<kind, asked, passing>>
    BY <1>31 DEF Serve, invocation, progress
  <2>2. gateway.state # "none" /\ id \in Ids /\ files \in [Ids -> Evidence]
    BY <1>0, <1>31 DEF Serve, GatewayInv, NoGateway, ControlType, DataType
  <2>3. /\ files'[id].result = files[id].result
        /\ files'[id].requests \in {files[id].requests, Lines(files[id].requests) + 1}
    BY <1>31, <2>2 DEF Serve, Evidence
  <2>4. Lines(files[id].requests) + 1 # None
    BY <2>2, NoneAssumption, BoundAssumption DEF Evidence, Lines
  <2> QED
    BY <1>0, <2>1, <2>2, <2>3, <2>4 DEF RunInv, Passed, Performance, GatewayInv, Busy
<1>32. CASE GatewayExits
  BY <1>0, <1>32 DEF GatewayExits, invocation, progress, NoGateway, RunInv, Passed,
     Performance, Busy
<1>33. CASE ContainerStops
  BY <1>0, <1>33 DEF ContainerStops, disk, invocation, progress, RunInv, Passed, Performance,
     Busy
<1>34. CASE Sample
  BY <1>0, <1>34 DEF Sample, procs, invocation, progress, RunInv, Passed, Performance, Busy
<1>35. CASE SamplerEnds
  BY <1>0, <1>35 DEF SamplerEnds, disk, invocation, progress, RunInv, Passed, Performance, Busy
<1>36. CASE MonitorStarts
  BY <1>0, <1>36 DEF MonitorStarts, disk, invocation, progress, RunInv, Passed, Performance,
     Busy
<1>37. CASE MonitorEnds
  BY <1>0, <1>37 DEF MonitorEnds, disk, invocation, progress, RunInv, Passed, Performance, Busy
<1>38. ASSUME NEW p \in left, LeftServes(p) PROVE RunInv'
  <2>1. p \in Leftovers /\ UNCHANGED <<kind, asked, pc, id, passing>>
    BY <1>0, <1>38 DEF LeftServes, LeftType, invocation, progress
  <2>2. /\ files'[id].result = files[id].result
        /\ pc \in Busy => files'[id] = files[id]
    BY <1>0, <1>38, <2>1 DEF LeftServes, LeftInv, Writes, DataType, Evidence, Leftovers
  <2> QED
    BY <1>0, <2>1, <2>2 DEF RunInv, Passed, Performance, Busy
<1>39. ASSUME NEW p \in left, LeftEnds(p) PROVE RunInv'
  <2>1. p \in Leftovers /\ UNCHANGED <<kind, asked, pc, id, passing>>
    BY <1>0, <1>39 DEF LeftEnds, LeftType, invocation, progress
  <2>2. pc \in {"unlink"} \union Busy => id \in Ids
    BY <1>0 DEF ControlType
  <2>3. id \in Ids => /\ files'[id].result = files[id].result
                     /\ files'[id].requests = files[id].requests
    BY <1>0, <1>39, <2>1 DEF LeftEnds, DataType, Evidence, Leftovers
  <2> QED
    BY <1>0, <2>1, <2>2, <2>3 DEF RunInv, Passed, Performance, Busy
<1>40. CASE UNCHANGED vars
  BY <1>0, <1>40 DEF vars, disk, procs, invocation, progress, RunInv, Passed, Performance,
     Busy, Evidence
<1> QED
  BY <1>1, <1>2, <1>3, <1>4, <1>5, <1>6, <1>7, <1>8, <1>9, <1>10, <1>11, <1>12, <1>13, <1>14,
     <1>15, <1>16, <1>17, <1>18, <1>19, <1>20, <1>21, <1>22, <1>23, <1>24, <1>25, <1>26, <1>27,
     <1>28, <1>29, <1>30, <1>31, <1>32, <1>33, <1>34, <1>35, <1>36, <1>37, <1>38, <1>39, <1>40
     DEF Next, Step, Interrupt, Process

\* What has been counted stays true of the files until it is written.
LEMMA StepCountInv == IInv /\ [Next]_vars => CountInv'
<1> SUFFICES ASSUME IInv, [Next]_vars PROVE CountInv'
  OBVIOUS
<1>0. ControlType /\ DataType /\ GatewayType /\ LeftType /\ CountInv /\ EndedInv /\ LeftInv
  BY DEF IInv
<1>1. CASE Start
  BY <1>0, <1>1 DEF Start, disk, procs, Go, CountInv, Telemetry, Performance
<1>2. CASE TearSnapshot
  BY <1>0, <1>2 DEF TearSnapshot, procs, invocation, progress, Go, CountInv, Telemetry,
     Performance
<1>3. CASE WriteSnapshot
  BY <1>0, <1>3 DEF WriteSnapshot, procs, invocation, progress, Go, CountInv, Telemetry,
     Performance
<1>4. CASE Return
  BY <1>0, <1>4 DEF Return, disk, procs, invocation, progress, Go, CountInv, Telemetry,
     Performance
<1>5. CASE Skip
  BY <1>0, <1>5 DEF Skip, disk, procs, invocation, CountInv, Telemetry, Performance
<1>6. CASE Refuse
  BY <1>0, <1>6 DEF Refuse, disk, invocation, progress, Go, CountInv, Telemetry, Performance
<1>7. CASE Execute
  BY <1>0, <1>7 DEF Execute, disk, procs, invocation, Go, CountInv, Telemetry, Performance
<1>8. CASE Leave
  BY <1>0, <1>8 DEF Leave, disk, invocation, progress, Go, CountInv, Telemetry, Performance
<1>9. CASE Unlink
  BY <1>0, <1>9 DEF Unlink, procs, invocation, CountInv, Telemetry, Performance
<1>10. CASE Spawn
  BY <1>0, <1>10 DEF Spawn, invocation, progress, Go, NoGateway, CountInv, Telemetry,
     Performance
<1>11. CASE EnterTry
  BY <1>0, <1>11 DEF EnterTry, disk, procs, invocation, progress, Go, CountInv, Telemetry,
     Performance
<1>12. CASE RuncRun
  BY <1>0, <1>12 DEF RuncRun, disk, invocation, progress, Go, Deleted, CountInv, Telemetry,
     Performance
<1>13. CASE Fail
  BY <1>0, <1>13 DEF Fail, disk, procs, invocation, progress, Go, CountInv, Telemetry,
     Performance
<1>14. CASE SeeStopped
  BY <1>0, <1>14 DEF SeeStopped, disk, invocation, progress, Go, CountInv, Telemetry,
     Performance
<1>15. CASE JoinSampler
  BY <1>0, <1>15 DEF JoinSampler, disk, procs, invocation, progress, Go, CountInv, Telemetry,
     Performance
<1>16. CASE WaitMonitor
  BY <1>0, <1>16 DEF WaitMonitor, disk, procs, invocation, progress, Go, CountInv, Telemetry,
     Performance
<1>17. CASE TerminateGateway
  BY <1>0, <1>17 DEF TerminateGateway, disk, invocation, progress, Go, Terminated, NoGateway,
     CountInv, Telemetry, Performance
<1>18. CASE WaitGateway
  BY <1>0, <1>18 DEF WaitGateway, disk, procs, invocation, progress, Go, CountInv, Telemetry,
     Performance
<1>19. CASE Count
  <2> SUFFICES ASSUME pc' = "result" PROVE CountInv'
    BY <1>19 DEF Count, CountInv, Go
  <2> DEFINE lines == Lines(files[id].requests)
             requests == IF Performance THEN Lines(files[id].summary) ELSE lines
  <2>1. /\ counted' = [lines |-> lines, requests |-> requests,
                        resources |-> Lines(files[id].resources)]
        /\ requests > 0 /\ (Telemetry => lines = requests)
        /\ UNCHANGED <<kind, id, files>>
    BY <1>19 DEF Count, Go, invocation, disk
  <2>2. /\ lines \in 0..MaxRequests /\ requests \in 0..MaxRequests
        /\ Lines(files[id].resources) \in {0, 1}
    BY <1>0, <1>19, BoundAssumption DEF Count, ControlType, DataType, Busy, Evidence, Lines
  <2>3. counted' # None
    <3>1. counted' \in Tallies
      BY <2>1, <2>2 DEF Tallies
    <3> QED
      BY <3>1, ContentAssumption
  <2> QED
    BY <2>1, <2>2, <2>3 DEF CountInv, Telemetry, Performance, Lines
<1>20. CASE TearResult
  BY <1>0, <1>20 DEF TearResult, procs, invocation, progress, Go, CountInv, Telemetry,
     Performance
<1>21. CASE WriteResult
  BY <1>0, <1>21 DEF WriteResult, procs, invocation, Go, Counts, CountInv, Telemetry,
     Performance
<1>22. CASE Finally
  BY <1>0, <1>22 DEF Finally, disk, invocation, Go, Deleted, Terminated, NoGateway, CountInv,
     Telemetry, Performance
<1>23. CASE Reap
  BY <1>0, <1>23 DEF Reap, disk, invocation, Go, EndRun, NoGateway, CountInv, Telemetry,
     Performance
<1>24. CASE InterruptBetween
  BY <1>0, <1>24 DEF InterruptBetween, disk, invocation, progress, Go, CountInv, Telemetry,
     Performance
<1>25. CASE InterruptRun
  BY <1>0, <1>25 DEF InterruptRun, disk, invocation, progress, Go, Terminated, NoGateway,
     CountInv, Telemetry, Performance
<1>26. CASE InterruptCleanUp
  BY <1>0, <1>26 DEF InterruptCleanUp, disk, invocation, progress, Go, EndRun, NoGateway,
     CountInv, Telemetry, Performance
<1>27. CASE PowerOff
  BY <1>0, <1>27 DEF PowerOff, disk, invocation, progress, Go, NoGateway, CountInv, Telemetry,
     Performance
<1>28. CASE GatewayBinds
  BY <1>0, <1>28 DEF GatewayBinds, disk, invocation, progress, CountInv, Telemetry, Performance
<1>29. CASE Send
  BY <1>0, <1>29 DEF Send, disk, invocation, progress, Deleted, CountInv, Telemetry, Performance
<1>30. CASE Accept
  BY <1>0, <1>30 DEF Accept, disk, invocation, progress, CountInv, Telemetry, Performance
<1>31. CASE Serve
  <2> SUFFICES ASSUME pc \in {"result", "resulting"} PROVE CountInv'
    BY <1>31 DEF Serve, CountInv
  <2>1. ~Performance /\ CountInv /\ id \in Ids /\ files \in [Ids -> Evidence]
    BY <1>0, <1>31 DEF Serve, EndedInv, NoGateway, ControlType, DataType, Busy
  <2>2. files'[id].requests \in {files[id].requests, Lines(files[id].requests) + 1}
    BY <1>31, <2>1 DEF Serve, Evidence
  <2>3. /\ Lines(files[id].requests) \in Nat
        /\ Lines(files[id].requests) + 1 # None
    BY <2>1, NoneAssumption, BoundAssumption DEF Evidence, Lines
  <2>4. Lines(files[id].requests) <= Lines(files'[id].requests)
    BY <2>2, <2>3 DEF Lines
  <2>5. counted # None /\ counted \in Tallies
    BY <1>0, <2>1 DEF CountInv, DataType
  <2>6. UNCHANGED <<kind, counted, id>>
    BY <1>31 DEF Serve, invocation, progress
  <2>7. counted.lines <= Lines(files'[id].requests)
    <3>1. /\ counted.lines \in Nat /\ counted.lines <= Lines(files[id].requests)
          /\ Lines(files'[id].requests) \in Nat
      BY <2>1, <2>2, <2>3, <2>5, BoundAssumption DEF CountInv, Tallies, Lines
    <3> QED
      BY <2>3, <2>4, <3>1
  <2> QED
    BY <2>1, <2>5, <2>6, <2>7 DEF CountInv, Telemetry, Performance, Lines
<1>32. CASE GatewayExits
  BY <1>0, <1>32 DEF GatewayExits, invocation, progress, CountInv, EndedInv, Telemetry,
     Performance, NoGateway
<1>33. CASE ContainerStops
  BY <1>0, <1>33 DEF ContainerStops, disk, invocation, progress, CountInv, Telemetry,
     Performance
<1>34. CASE Sample
  BY <1>0, <1>34 DEF Sample, procs, invocation, progress, CountInv, Telemetry, Performance
<1>35. CASE SamplerEnds
  BY <1>0, <1>35 DEF SamplerEnds, disk, invocation, progress, CountInv, Telemetry, Performance
<1>36. CASE MonitorStarts
  BY <1>0, <1>36 DEF MonitorStarts, disk, invocation, progress, CountInv, Telemetry, Performance
<1>37. CASE MonitorEnds
  BY <1>0, <1>37 DEF MonitorEnds, disk, invocation, progress, CountInv, Telemetry, Performance
<1>38. ASSUME NEW p \in left, LeftServes(p) PROVE CountInv'
  <2> SUFFICES ASSUME pc \in {"result", "resulting"} PROVE CountInv'
    BY <1>38 DEF LeftServes, CountInv
  <2>1. p \in Leftovers /\ pc \in Busy /\ UNCHANGED <<kind, pc, id, counted, foreign>>
    BY <1>0, <1>38 DEF LeftServes, LeftType, invocation, progress, Busy
  <2>2. files'[id] = files[id]
    BY <1>0, <1>38, <2>1 DEF LeftServes, LeftInv, Writes, DataType, Leftovers
  <2> QED
    BY <1>0, <2>1, <2>2 DEF CountInv, Telemetry, Performance
<1>39. ASSUME NEW p \in left, LeftEnds(p) PROVE CountInv'
  <2> SUFFICES ASSUME pc \in {"result", "resulting"} PROVE CountInv'
    BY <1>39 DEF LeftEnds, CountInv
  <2>1. /\ p \in Leftovers /\ files \in [Ids -> Evidence] /\ id \in Ids
        /\ UNCHANGED <<kind, pc, id, counted>>
    BY <1>0, <1>39 DEF LeftEnds, LeftType, DataType, ControlType, Busy, invocation, progress
  <2>2. /\ files'[id].requests = files[id].requests
        /\ id \notin foreign' => id \notin foreign /\ files'[id].summary = files[id].summary
    BY <1>39, <2>1 DEF LeftEnds, Evidence, Leftovers
  <2> QED
    BY <1>0, <2>1, <2>2 DEF CountInv, Telemetry, Performance
<1>40. CASE UNCHANGED vars
  BY <1>0, <1>40 DEF vars, disk, procs, invocation, progress, CountInv, Telemetry, Performance,
     Lines, Evidence, NoGateway, Busy
<1> QED
  BY <1>1, <1>2, <1>3, <1>4, <1>5, <1>6, <1>7, <1>8, <1>9, <1>10, <1>11, <1>12, <1>13, <1>14,
     <1>15, <1>16, <1>17, <1>18, <1>19, <1>20, <1>21, <1>22, <1>23, <1>24, <1>25, <1>26, <1>27,
     <1>28, <1>29, <1>30, <1>31, <1>32, <1>33, <1>34, <1>35, <1>36, <1>37, <1>38, <1>39, <1>40
     DEF Next, Step, Interrupt, Process

\* The runs behind the harness have results of what it was asked for.
LEMMA StepCollectionInv == IInv /\ [Next]_vars => CollectionInv'
<1> SUFFICES ASSUME IInv, [Next]_vars PROVE CollectionInv'
  OBVIOUS
<1>0. ControlType /\ DataType /\ LeftType /\ CountInv /\ CollectionInv /\ SnapshotInv /\ RunInv
      /\ QuietInv
  BY DEF IInv
<1>1. CASE Start
  BY <1>0, <1>1, ContentAssumption DEF Start, disk, procs, Go, CollectionInv, Answers, Ids
<1>2. CASE TearSnapshot
  BY <1>0, <1>2 DEF TearSnapshot, procs, invocation, progress, Go, CollectionInv, Answers,
     Passed
<1>3. CASE WriteSnapshot
  BY <1>0, <1>3 DEF WriteSnapshot, procs, invocation, progress, Go, CollectionInv, Answers,
     Passed
<1>4. CASE Return
  BY <1>0, <1>4 DEF Return, disk, procs, invocation, progress, Go, CollectionInv, Answers,
     Passed
<1>5. CASE Skip
  <2>1. /\ pc = "next" /\ pc' = "next" /\ id \in Ids /\ id' = id + 1 /\ asked' = asked
        /\ files' = files /\ files[id].result # None /\ Reusable(id) /\ asked \in Asked
    BY <1>0, <1>5 DEF Skip, invocation, disk, ControlType, CollectionInv
  <2>2. Passed(id) /\ files[id].result \in Results /\ files[id].result.duration = asked.duration
    BY <1>0, <2>1 DEF Passed, Reusable, ReusablePassedRun, ResultIsReusable, DataType, Evidence
  <2>3. Canonical(files[id].result) = Canonical(asked)
    <3>1. Canonical(asked) # Torn
      BY <2>1, CanonicalType DEF Asked
    <3> QED
      BY <1>0, <2>1, <2>2, <3>1 DEF SnapshotInv
  <2>4. Answers(id)
    BY <2>2, <2>3 DEF Answers, Canonical
  <2>5. ASSUME NEW i \in Ids, i < id + 1 PROVE Answers(i)
    BY <1>0, <2>1, <2>4, <2>5, MatrixAssumption DEF CollectionInv, Ids
  <2> QED
    BY <1>0, <2>1, <2>5, MatrixAssumption DEF CollectionInv, Answers, Passed, Ids
<1>6. CASE Refuse
  BY <1>0, <1>6 DEF Refuse, disk, invocation, progress, Go, CollectionInv, Answers, Passed
<1>7. CASE Execute
  BY <1>0, <1>7 DEF Execute, disk, procs, invocation, Go, CollectionInv, Answers, Passed
<1>8. CASE Leave
  BY <1>0, <1>8 DEF Leave, disk, invocation, progress, Go, CollectionInv, Answers, Passed
<1>9. CASE Unlink
  BY <1>0, <1>9 DEF Unlink, procs, invocation, CollectionInv, Answers, Passed, Ids
<1>10. CASE Spawn
  BY <1>0, <1>10 DEF Spawn, invocation, progress, Go, NoGateway, CollectionInv, Answers,
     Passed, DataType
<1>11. CASE EnterTry
  BY <1>0, <1>11 DEF EnterTry, disk, procs, invocation, progress, Go, CollectionInv, Answers,
     Passed
<1>12. CASE RuncRun
  BY <1>0, <1>12 DEF RuncRun, disk, invocation, progress, Go, Deleted, CollectionInv, Answers,
     Passed
<1>13. CASE Fail
  BY <1>0, <1>13 DEF Fail, disk, procs, invocation, progress, Go, CollectionInv, Answers,
     Passed, RunInv, Busy
<1>14. CASE SeeStopped
  BY <1>0, <1>14 DEF SeeStopped, disk, invocation, progress, Go, CollectionInv, Answers, Passed
<1>15. CASE JoinSampler
  BY <1>0, <1>15 DEF JoinSampler, disk, procs, invocation, progress, Go, CollectionInv,
     Answers, Passed, RunInv, Busy
<1>16. CASE WaitMonitor
  BY <1>0, <1>16 DEF WaitMonitor, disk, procs, invocation, progress, Go, CollectionInv,
     Answers, Passed, RunInv, Busy
<1>17. CASE TerminateGateway
  BY <1>0, <1>17 DEF TerminateGateway, disk, invocation, progress, Go, Terminated, NoGateway,
     CollectionInv, Answers, Passed
<1>18. CASE WaitGateway
  BY <1>0, <1>18 DEF WaitGateway, disk, procs, invocation, progress, Go, CollectionInv,
     Answers, Passed, RunInv, Busy
<1>19. CASE Count
  BY <1>0, <1>19 DEF Count, disk, procs, invocation, Go, CollectionInv, Answers, Passed,
     RunInv, Busy
<1>20. CASE TearResult
  BY <1>0, <1>20 DEF TearResult, procs, invocation, progress, Go, CollectionInv, Answers,
     Passed, Ids
<1>21. CASE WriteResult
  <2>1. id \in Ids /\ files \in [Ids -> Evidence] /\ asked # None /\ id # 0 /\ pc = "resulting"
    BY <1>0, <1>21 DEF WriteResult, ControlType, DataType, CollectionInv, Busy
  <2>2. Counts \in Results
    BY <1>0, <1>21 DEF WriteResult, ControlType, DataType, CountInv, CollectionInv, Counts,
       Results, Tallies, Asked
  <2>3. /\ files'[id].result = Counts /\ \A i \in Ids \ {id} : files'[i] = files[i]
        /\ pc' = "finally" /\ id' = id /\ asked' = asked
    BY <1>21, <2>1 DEF WriteResult, Go, invocation, Evidence
  <2>4. Answers(id)'
    BY <2>2, <2>3, ContentAssumption DEF Answers, Passed, Counts
  <2>5. \A i \in Ids : i < id => i # id /\ Answers(i)
    BY <1>0, <2>1 DEF CollectionInv, ControlType, Ids
  <2> QED
    BY <2>1, <2>3, <2>4, <2>5 DEF CollectionInv, Answers, Passed
<1>22. CASE Finally
  BY <1>0, <1>22 DEF Finally, disk, invocation, Go, Deleted, Terminated, NoGateway,
     CollectionInv, Answers, Passed
<1>23. CASE Reap
  BY <1>0, <1>23 DEF Reap, disk, invocation, Go, EndRun, NoGateway, CollectionInv, Answers,
     Passed, ControlType, Ids
<1>24. CASE InterruptBetween
  BY <1>0, <1>24 DEF InterruptBetween, disk, invocation, progress, Go, CollectionInv, Answers,
     Passed, ControlType
<1>25. CASE InterruptRun
  BY <1>0, <1>25 DEF InterruptRun, disk, invocation, progress, Go, Terminated, NoGateway,
     CollectionInv, Answers, Passed, ControlType, RunInv, Busy
<1>26. CASE InterruptCleanUp
  BY <1>0, <1>26 DEF InterruptCleanUp, disk, invocation, progress, Go, EndRun, NoGateway,
     CollectionInv, Answers, Passed
<1>27. CASE PowerOff
  BY <1>0, <1>27 DEF PowerOff, disk, invocation, progress, Go, NoGateway, CollectionInv,
     Answers, Passed
<1>28. CASE GatewayBinds
  BY <1>0, <1>28 DEF GatewayBinds, disk, invocation, progress, CollectionInv, Answers, Passed
<1>29. CASE Send
  BY <1>0, <1>29 DEF Send, disk, invocation, progress, Deleted, CollectionInv, Answers, Passed
<1>30. CASE Accept
  BY <1>0, <1>30 DEF Accept, disk, invocation, progress, CollectionInv, Answers, Passed
<1>31. CASE Serve
  BY <1>0, <1>31 DEF Serve, invocation, progress, CollectionInv, Answers, Passed
<1>32. CASE GatewayExits
  BY <1>0, <1>32 DEF GatewayExits, invocation, progress, NoGateway, CollectionInv, Answers,
     Passed
<1>33. CASE ContainerStops
  BY <1>0, <1>33 DEF ContainerStops, disk, invocation, progress, CollectionInv, Answers, Passed
<1>34. CASE Sample
  BY <1>0, <1>34 DEF Sample, procs, invocation, progress, CollectionInv, Answers, Passed
<1>35. CASE SamplerEnds
  BY <1>0, <1>35 DEF SamplerEnds, disk, invocation, progress, CollectionInv, Answers, Passed
<1>36. CASE MonitorStarts
  BY <1>0, <1>36 DEF MonitorStarts, disk, invocation, progress, CollectionInv, Answers, Passed
<1>37. CASE MonitorEnds
  BY <1>0, <1>37 DEF MonitorEnds, disk, invocation, progress, CollectionInv, Answers, Passed
<1>38. ASSUME NEW p \in left, LeftServes(p) PROVE CollectionInv'
  <2>1. /\ p.run \in Ids /\ files \in [Ids -> Evidence] /\ UNCHANGED <<asked, pc, id, passing>>
    BY <1>0, <1>38 DEF LeftServes, LeftType, Leftovers, DataType, invocation, progress
  <2>2. \A i \in Ids : files'[i].result = files[i].result
    BY <1>38, <2>1 DEF LeftServes, Evidence
  <2> QED
    BY <1>0, <2>1, <2>2 DEF CollectionInv, Answers, Passed, ControlType, Busy
<1>39. ASSUME NEW p \in left, LeftEnds(p) PROVE CollectionInv'
  <2>1. /\ p.run \in Ids /\ files \in [Ids -> Evidence] /\ UNCHANGED <<asked, pc, id, passing>>
    BY <1>0, <1>39 DEF LeftEnds, LeftType, Leftovers, DataType, invocation, progress
  <2>2. \A i \in Ids : files'[i].result = files[i].result
    BY <1>39, <2>1 DEF LeftEnds, Evidence
  <2> QED
    BY <1>0, <2>1, <2>2 DEF CollectionInv, Answers, Passed, ControlType, Busy
<1>40. CASE UNCHANGED vars
  BY <1>0, <1>40 DEF vars, disk, procs, invocation, progress, CollectionInv, Answers, Passed,
     Canonical, Performance, Evidence, Results, Ids, Busy
<1> QED
  BY <1>1, <1>2, <1>3, <1>4, <1>5, <1>6, <1>7, <1>8, <1>9, <1>10, <1>11, <1>12, <1>13, <1>14,
     <1>15, <1>16, <1>17, <1>18, <1>19, <1>20, <1>21, <1>22, <1>23, <1>24, <1>25, <1>26, <1>27,
     <1>28, <1>29, <1>30, <1>31, <1>32, <1>33, <1>34, <1>35, <1>36, <1>37, <1>38, <1>39, <1>40
     DEF Next, Step, Interrupt, Process

\* A result is of the configuration the directory has a copy of.
LEMMA StepSnapshotInv == IInv /\ [Next]_vars => SnapshotInv'
<1> SUFFICES ASSUME IInv, [Next]_vars PROVE SnapshotInv'
  OBVIOUS
<1>0. ControlType /\ DataType /\ LeftType /\ SnapshotInv /\ CollectionInv
  BY DEF IInv
<1>1. CASE Start
  BY <1>0, <1>1 DEF Start, disk, procs, Go, SnapshotInv, Passed, Canonical, Performance
<1>2. CASE TearSnapshot
  <2>1. asked \in Asked /\ pc = "snapshot" /\ snapshot \in {None, Canonical(asked)}
    BY <1>0, <1>2 DEF TearSnapshot, ControlType, CollectionInv, SnapshotInv
  <2>2. snapshot # Torn
    BY <2>1, CanonicalType, NoneAssumption DEF Asked
  <2>3. ASSUME NEW i \in Ids, Passed(i) PROVE Canonical(files[i].result) = Canonical(asked)
    <3>1. files[i].result \in Results
      BY <1>0, <2>3 DEF DataType, Evidence, Passed
    <3>2. Canonical(files[i].result) # None
      BY <3>1, CanonicalType DEF Results
    <3> QED
      BY <1>0, <2>1, <2>2, <2>3, <3>2 DEF SnapshotInv
  <2>4. /\ pc' = "snapshotting" /\ snapshot' = Torn /\ asked' = asked
        /\ kind' = kind /\ files' = files
    BY <1>2 DEF TearSnapshot, Go, invocation
  <2> QED
    BY <2>3, <2>4 DEF SnapshotInv, Passed, Canonical, Performance
<1>3. CASE WriteSnapshot
  <2>1. pc = "snapshotting" /\ snapshot = Torn
    BY <1>0, <1>3 DEF WriteSnapshot, SnapshotInv
  <2>2. ASSUME NEW i \in Ids, Passed(i) PROVE Canonical(files[i].result) = Canonical(asked)
    <3>1. files[i].result \in Results
      BY <1>0, <2>2 DEF DataType, Evidence, Passed
    <3>2. Canonical(files[i].result) # Torn
      BY <3>1, CanonicalType DEF Results
    <3> QED
      BY <1>0, <2>1, <2>2, <3>2 DEF SnapshotInv
  <2>3. /\ pc' = "next" /\ snapshot' = Canonical(asked) /\ asked' = asked
        /\ kind' = kind /\ files' = files
    BY <1>3 DEF WriteSnapshot, Go, invocation
  <2> QED
    BY <2>2, <2>3 DEF SnapshotInv, Passed, Canonical, Performance
<1>4. CASE Return
  BY <1>0, <1>4 DEF Return, disk, procs, invocation, progress, Go, SnapshotInv, Passed,
     Canonical, Performance
<1>5. CASE Skip
  BY <1>0, <1>5 DEF Skip, disk, procs, invocation, SnapshotInv, Passed, Canonical, Performance
<1>6. CASE Refuse
  BY <1>0, <1>6 DEF Refuse, disk, invocation, progress, Go, SnapshotInv, Passed, Canonical,
     Performance
<1>7. CASE Execute
  BY <1>0, <1>7 DEF Execute, disk, procs, invocation, Go, SnapshotInv, Passed, Canonical,
     Performance
<1>8. CASE Leave
  BY <1>0, <1>8 DEF Leave, disk, invocation, progress, Go, SnapshotInv, Passed, Canonical,
     Performance
<1>9. CASE Unlink
  BY <1>0, <1>9 DEF Unlink, procs, invocation, SnapshotInv, Passed, Canonical, Performance
<1>10. CASE Spawn
  BY <1>0, <1>10 DEF Spawn, invocation, progress, Go, NoGateway, SnapshotInv, Passed,
     Canonical, Performance, DataType
<1>11. CASE EnterTry
  BY <1>0, <1>11 DEF EnterTry, disk, procs, invocation, progress, Go, SnapshotInv, Passed,
     Canonical, Performance
<1>12. CASE RuncRun
  BY <1>0, <1>12 DEF RuncRun, disk, invocation, progress, Go, Deleted, SnapshotInv, Passed,
     Canonical, Performance
<1>13. CASE Fail
  BY <1>0, <1>13 DEF Fail, disk, procs, invocation, progress, Go, SnapshotInv, Passed,
     Canonical, Performance
<1>14. CASE SeeStopped
  BY <1>0, <1>14 DEF SeeStopped, disk, invocation, progress, Go, SnapshotInv, Passed,
     Canonical, Performance
<1>15. CASE JoinSampler
  BY <1>0, <1>15 DEF JoinSampler, disk, procs, invocation, progress, Go, SnapshotInv, Passed,
     Canonical, Performance
<1>16. CASE WaitMonitor
  BY <1>0, <1>16 DEF WaitMonitor, disk, procs, invocation, progress, Go, SnapshotInv, Passed,
     Canonical, Performance
<1>17. CASE TerminateGateway
  BY <1>0, <1>17 DEF TerminateGateway, disk, invocation, progress, Go, Terminated, NoGateway,
     SnapshotInv, Passed, Canonical, Performance
<1>18. CASE WaitGateway
  BY <1>0, <1>18 DEF WaitGateway, disk, procs, invocation, progress, Go, SnapshotInv, Passed,
     Canonical, Performance
<1>19. CASE Count
  BY <1>0, <1>19 DEF Count, disk, procs, invocation, Go, SnapshotInv, Passed, Canonical,
     Performance
<1>20. CASE TearResult
  BY <1>0, <1>20 DEF TearResult, procs, invocation, progress, Go, SnapshotInv, Passed,
     Canonical, Performance
<1>21. CASE WriteResult
  BY <1>0, <1>21 DEF WriteResult, procs, invocation, Go, Counts, SnapshotInv, Passed,
     Canonical, Performance
<1>22. CASE Finally
  BY <1>0, <1>22 DEF Finally, disk, invocation, Go, Deleted, Terminated, NoGateway,
     SnapshotInv, Passed, Canonical, Performance
<1>23. CASE Reap
  BY <1>0, <1>23 DEF Reap, disk, invocation, Go, EndRun, NoGateway, SnapshotInv, Passed,
     Canonical, Performance
<1>24. CASE InterruptBetween
  BY <1>0, <1>24 DEF InterruptBetween, disk, invocation, progress, Go, SnapshotInv, Passed,
     Canonical, Performance
<1>25. CASE InterruptRun
  BY <1>0, <1>25 DEF InterruptRun, disk, invocation, progress, Go, Terminated, NoGateway,
     SnapshotInv, Passed, Canonical, Performance
<1>26. CASE InterruptCleanUp
  BY <1>0, <1>26 DEF InterruptCleanUp, disk, invocation, progress, Go, EndRun, NoGateway,
     SnapshotInv, Passed, Canonical, Performance
<1>27. CASE PowerOff
  BY <1>0, <1>27 DEF PowerOff, disk, invocation, progress, Go, NoGateway, SnapshotInv, Passed,
     Canonical, Performance
<1>28. CASE GatewayBinds
  BY <1>0, <1>28 DEF GatewayBinds, disk, invocation, progress, SnapshotInv, Passed, Canonical,
     Performance
<1>29. CASE Send
  BY <1>0, <1>29 DEF Send, disk, invocation, progress, Deleted, SnapshotInv, Passed, Canonical,
     Performance
<1>30. CASE Accept
  BY <1>0, <1>30 DEF Accept, disk, invocation, progress, SnapshotInv, Passed, Canonical,
     Performance
<1>31. CASE Serve
  <2>1. /\ \A i \in Ids : files'[i].result = files[i].result
        /\ UNCHANGED <<kind, asked, pc, snapshot>>
    BY <1>0, <1>31 DEF Serve, invocation, DataType, Evidence
  <2> QED
    BY <1>0, <2>1 DEF SnapshotInv, Passed, Canonical, Performance
<1>32. CASE GatewayExits
  <2>1. /\ \A i \in Ids : files'[i].result = files[i].result
        /\ UNCHANGED <<kind, asked, pc, snapshot>>
    BY <1>0, <1>32 DEF GatewayExits, invocation, DataType, Evidence
  <2> QED
    BY <1>0, <2>1 DEF SnapshotInv, Passed, Canonical, Performance
<1>33. CASE ContainerStops
  BY <1>0, <1>33 DEF ContainerStops, disk, invocation, progress, SnapshotInv, Passed,
     Canonical, Performance
<1>34. CASE Sample
  BY <1>0, <1>34 DEF Sample, procs, invocation, progress, SnapshotInv, Passed, Canonical,
     Performance
<1>35. CASE SamplerEnds
  BY <1>0, <1>35 DEF SamplerEnds, disk, invocation, progress, SnapshotInv, Passed, Canonical,
     Performance
<1>36. CASE MonitorStarts
  BY <1>0, <1>36 DEF MonitorStarts, disk, invocation, progress, SnapshotInv, Passed, Canonical,
     Performance
<1>37. CASE MonitorEnds
  BY <1>0, <1>37 DEF MonitorEnds, disk, invocation, progress, SnapshotInv, Passed, Canonical,
     Performance
<1>38. ASSUME NEW p \in left, LeftServes(p) PROVE SnapshotInv'
  <2>1. /\ p.run \in Ids /\ files \in [Ids -> Evidence] /\ UNCHANGED <<kind, asked, pc, snapshot>>
    BY <1>0, <1>38 DEF LeftServes, LeftType, Leftovers, DataType, invocation, progress
  <2>2. \A i \in Ids : files'[i].result = files[i].result
    BY <1>38, <2>1 DEF LeftServes, Evidence
  <2> QED
    BY <1>0, <2>1, <2>2 DEF SnapshotInv, Passed, Canonical, Performance
<1>39. ASSUME NEW p \in left, LeftEnds(p) PROVE SnapshotInv'
  <2>1. /\ p.run \in Ids /\ files \in [Ids -> Evidence] /\ UNCHANGED <<kind, asked, pc, snapshot>>
    BY <1>0, <1>39 DEF LeftEnds, LeftType, Leftovers, DataType, invocation, progress
  <2>2. \A i \in Ids : files'[i].result = files[i].result
    BY <1>39, <2>1 DEF LeftEnds, Evidence
  <2> QED
    BY <1>0, <2>1, <2>2 DEF SnapshotInv, Passed, Canonical, Performance
<1>40. CASE UNCHANGED vars
  BY <1>0, <1>40 DEF vars, disk, procs, invocation, progress, SnapshotInv, Passed, Canonical,
     Performance, Evidence, Results, Busy
<1> QED
  BY <1>1, <1>2, <1>3, <1>4, <1>5, <1>6, <1>7, <1>8, <1>9, <1>10, <1>11, <1>12, <1>13, <1>14,
     <1>15, <1>16, <1>17, <1>18, <1>19, <1>20, <1>21, <1>22, <1>23, <1>24, <1>25, <1>26, <1>27,
     <1>28, <1>29, <1>30, <1>31, <1>32, <1>33, <1>34, <1>35, <1>36, <1>37, <1>38, <1>39, <1>40
     DEF Next, Step, Interrupt, Process

\* A result agrees with its evidence also while processes still write.
LEMMA StepResultMatchesEvidence == IInv /\ [Next]_vars => ResultMatchesEvidence'
<1> SUFFICES ASSUME IInv, [Next]_vars PROVE ResultMatchesEvidence'
  OBVIOUS
<1>0. ControlType /\ DataType /\ GatewayType /\ LeftType /\ ResultMatchesEvidence /\ RunInv
      /\ RemovalInv /\ LeftInv /\ QuietInv /\ EndedInv /\ GatewayInv /\ CountInv
  BY DEF IInv
<1>1. CASE Start
  BY <1>0, <1>1 DEF Start, disk, procs, Go, ResultMatchesEvidence, Passed, Performance
<1>2. CASE TearSnapshot
  BY <1>0, <1>2 DEF TearSnapshot, procs, invocation, progress, Go, ResultMatchesEvidence,
     Passed, Performance
<1>3. CASE WriteSnapshot
  BY <1>0, <1>3 DEF WriteSnapshot, procs, invocation, progress, Go, ResultMatchesEvidence,
     Passed, Performance
<1>4. CASE Return
  BY <1>0, <1>4 DEF Return, disk, procs, invocation, progress, Go, ResultMatchesEvidence,
     Passed, Performance
<1>5. CASE Skip
  BY <1>0, <1>5 DEF Skip, disk, procs, invocation, ResultMatchesEvidence, Passed, Performance
<1>6. CASE Refuse
  BY <1>0, <1>6 DEF Refuse, disk, invocation, progress, Go, ResultMatchesEvidence, Passed,
     Performance
<1>7. CASE Execute
  BY <1>0, <1>7 DEF Execute, disk, procs, invocation, Go, ResultMatchesEvidence, Passed,
     Performance
<1>8. CASE Leave
  BY <1>0, <1>8 DEF Leave, disk, invocation, progress, Go, ResultMatchesEvidence, Passed,
     Performance
<1>9. CASE Unlink
  <2>1. /\ id \in Ids /\ files \in [Ids -> Evidence] /\ kind' = kind
        /\ files' = [files EXCEPT ![id][Head(todo)] = None]
        /\ pc = "unlink" /\ todo # << >>
    BY <1>0, <1>9 DEF Unlink, ControlType, DataType, invocation
  <2>2. Head(todo) \in {"requests", "resources", "summary", "result"}
    BY <1>0, <2>1, NextRemoval
  <2>3. ASSUME NEW i \in Ids
        PROVE  /\ files'[i].result \in {None, files[i].result}
               /\ files'[i].requests \in {None, files[i].requests}
               /\ files'[i].summary \in {None, files[i].summary}
    BY <2>1, <2>2, OneRemoved
  <2>4. ASSUME NEW i \in Ids, i \notin foreign' PROVE i \notin foreign \/ files'[i].summary = None
    <3>1. CASE Head(todo) = "summary" /\ i = id
      <4>1. [files EXCEPT ![id]["summary"] = None][id]["summary"] = None
        BY <2>1, OneRemoved
      <4> QED
        BY <2>1, <3>1, <4>1
    <3>2. CASE ~(Head(todo) = "summary" /\ i = id)
      BY <1>9, <2>4, <3>2 DEF Unlink
    <3> QED
      BY <3>1, <3>2
  <2> QED
    BY <1>0, <2>1, <2>3, <2>4 DEF ResultMatchesEvidence, Passed, Performance
<1>10. CASE Spawn
  <2>1. id \in Ids /\ files \in [Ids -> Evidence] /\ files[id].result = None
    BY <1>0, <1>10 DEF Spawn, ControlType, DataType, RemovalInv
  <2>2. /\ files'[id].result = None /\ \A i \in Ids \ {id} : files'[i] = files[i]
        /\ kind' = kind /\ foreign' = foreign
    BY <1>10, <2>1 DEF Spawn, Evidence, invocation
  <2> QED
    BY <1>0, <2>2 DEF ResultMatchesEvidence, Passed, Performance
<1>11. CASE EnterTry
  BY <1>0, <1>11 DEF EnterTry, disk, procs, invocation, progress, Go, ResultMatchesEvidence,
     Passed, Performance
<1>12. CASE RuncRun
  BY <1>0, <1>12 DEF RuncRun, disk, invocation, progress, Go, Deleted, ResultMatchesEvidence,
     Passed, Performance
<1>13. CASE Fail
  BY <1>0, <1>13 DEF Fail, disk, procs, invocation, progress, Go, ResultMatchesEvidence,
     Passed, Performance
<1>14. CASE SeeStopped
  BY <1>0, <1>14 DEF SeeStopped, disk, invocation, progress, Go, ResultMatchesEvidence, Passed,
     Performance
<1>15. CASE JoinSampler
  BY <1>0, <1>15 DEF JoinSampler, disk, procs, invocation, progress, Go, ResultMatchesEvidence,
     Passed, Performance
<1>16. CASE WaitMonitor
  BY <1>0, <1>16 DEF WaitMonitor, disk, procs, invocation, progress, Go, ResultMatchesEvidence,
     Passed, Performance
<1>17. CASE TerminateGateway
  BY <1>0, <1>17 DEF TerminateGateway, disk, invocation, progress, Go, Terminated, NoGateway,
     ResultMatchesEvidence, Passed, Performance
<1>18. CASE WaitGateway
  BY <1>0, <1>18 DEF WaitGateway, disk, procs, invocation, progress, Go, ResultMatchesEvidence,
     Passed, Performance
<1>19. CASE Count
  BY <1>0, <1>19 DEF Count, disk, procs, invocation, Go, ResultMatchesEvidence, Passed,
     Performance
<1>20. CASE TearResult
  BY <1>0, <1>20 DEF TearResult, procs, invocation, progress, Go, ResultMatchesEvidence,
     Passed, Performance
<1>21. CASE WriteResult
  BY <1>0, <1>21 DEF WriteResult, procs, invocation, Go, ResultMatchesEvidence, ControlType,
     DataType, CountInv, Passed, Performance, Telemetry, Lines, Counts, Busy
<1>22. CASE Finally
  BY <1>0, <1>22 DEF Finally, disk, invocation, Go, Deleted, Terminated, NoGateway,
     ResultMatchesEvidence, Passed, Performance
<1>23. CASE Reap
  BY <1>0, <1>23 DEF Reap, disk, invocation, Go, EndRun, NoGateway, ResultMatchesEvidence,
     Passed, Performance
<1>24. CASE InterruptBetween
  BY <1>0, <1>24 DEF InterruptBetween, disk, invocation, progress, Go, ResultMatchesEvidence,
     Passed, Performance
<1>25. CASE InterruptRun
  BY <1>0, <1>25 DEF InterruptRun, disk, invocation, progress, Go, Terminated, NoGateway,
     ResultMatchesEvidence, Passed, Performance
<1>26. CASE InterruptCleanUp
  BY <1>0, <1>26 DEF InterruptCleanUp, disk, invocation, progress, Go, EndRun, NoGateway,
     ResultMatchesEvidence, Passed, Performance
<1>27. CASE PowerOff
  BY <1>0, <1>27 DEF PowerOff, disk, invocation, progress, Go, NoGateway,
     ResultMatchesEvidence, Passed, Performance
<1>28. CASE GatewayBinds
  BY <1>0, <1>28 DEF GatewayBinds, disk, invocation, progress, ResultMatchesEvidence, Passed,
     Performance
<1>29. CASE Send
  BY <1>0, <1>29 DEF Send, disk, invocation, progress, Deleted, ResultMatchesEvidence, Passed,
     Performance
<1>30. CASE Accept
  BY <1>0, <1>30 DEF Accept, disk, invocation, progress, ResultMatchesEvidence, Passed,
     Performance
<1>31. CASE Serve
  <2>1. gateway.state # "none" /\ kind' = kind /\ foreign' = foreign
    BY <1>0, <1>31 DEF Serve, GatewayInv, NoGateway, invocation
  <2>2. id \in Ids /\ files \in [Ids -> Evidence]
    BY <1>0, <2>1 DEF ControlType, GatewayInv, DataType
  <2>3. Performance => ~Passed(id)
    BY <1>0, <2>1 DEF GatewayInv, EndedInv, RunInv, Busy, NoGateway, Passed
  <2>4. /\ \A i \in Ids \ {id} : files'[i] = files[i]
        /\ files'[id].result = files[id].result
        /\ files'[id].requests \in {files[id].requests, Lines(files[id].requests) + 1}
    BY <1>31, <2>2 DEF Serve, Evidence
  <2>5. CASE Performance
    BY <1>0, <2>1, <2>3, <2>4, <2>5 DEF ResultMatchesEvidence, Passed, Performance
  <2>6. CASE ~Performance
    <3>1. ASSUME Passed(id)
          PROVE  files'[id].requests # None => files[id].result.lines <= files'[id].requests
      <4>1. /\ files[id].result.lines \in 0..MaxRequests
            /\ files[id].requests \in {None} \union (0..MaxRequests)
        BY <1>0, <2>2, <3>1 DEF Evidence, Results, Passed
      <4>2. files[id].requests # None
        BY <1>0, <2>1, <2>6, <3>1 DEF GatewayInv, RunInv, Passed, Busy
      <4> QED
        BY <1>0, <2>2, <2>4, <2>6, <3>1, <4>1, <4>2, BoundAssumption DEF ResultMatchesEvidence,
           Lines
    <3> QED
      BY <1>0, <2>1, <2>4, <2>6, <3>1 DEF ResultMatchesEvidence, Passed, Performance
  <2> QED
    BY <2>5, <2>6
<1>32. CASE GatewayExits
  <2>1. /\ id \in Ids /\ files \in [Ids -> Evidence] /\ kind' = kind /\ gateway.state # "none"
    BY <1>0, <1>32 DEF GatewayExits, GatewayInv, ControlType, DataType, invocation
  <2>2. Performance => ~Passed(id)
    BY <1>0, <2>1 DEF GatewayInv, EndedInv, RunInv, Busy, NoGateway, Passed
  <2>3. /\ \A i \in Ids \ {id} : files'[i] = files[i] /\ (i \in foreign' <=> i \in foreign)
        /\ files'[id].result = files[id].result
        /\ ~Performance => files' = files
    BY <1>32, <2>1 DEF GatewayExits, Evidence
  <2> QED
    BY <1>0, <2>1, <2>2, <2>3 DEF ResultMatchesEvidence, Passed, Performance
<1>33. CASE ContainerStops
  BY <1>0, <1>33 DEF ContainerStops, disk, invocation, progress, ResultMatchesEvidence, Passed,
     Performance
<1>34. CASE Sample
  BY <1>0, <1>34 DEF Sample, procs, invocation, progress, ResultMatchesEvidence, Passed,
     Performance
<1>35. CASE SamplerEnds
  BY <1>0, <1>35 DEF SamplerEnds, disk, invocation, progress, ResultMatchesEvidence, Passed,
     Performance
<1>36. CASE MonitorStarts
  BY <1>0, <1>36 DEF MonitorStarts, disk, invocation, progress, ResultMatchesEvidence, Passed,
     Performance
<1>37. CASE MonitorEnds
  BY <1>0, <1>37 DEF MonitorEnds, disk, invocation, progress, ResultMatchesEvidence, Passed,
     Performance
<1>38. ASSUME NEW p \in left, LeftServes(p) PROVE ResultMatchesEvidence'
  <2>1. /\ p.run \in Ids /\ p.served \in 0..MaxRequests /\ files \in [Ids -> Evidence]
        /\ [p EXCEPT !.served = @ + 1].served = p.served + 1
        /\ UNCHANGED <<kind, foreign>>
    BY <1>0, <1>38 DEF LeftServes, LeftType, Leftovers, DataType, invocation
  <2>2. CASE p.linked
    <3>1. Writes(p)
      BY <1>0, <2>2 DEF LeftInv
    <3>2. /\ \A i \in Ids \ {p.run} : files'[i] = files[i]
          /\ files'[p.run].result = files[p.run].result
          /\ files'[p.run].requests = p.served + 1
      BY <1>38, <2>1, <2>2 DEF LeftServes, Evidence
    <3>3. CASE Performance
      BY <1>0, <2>1, <3>1, <3>2, <3>3 DEF ResultMatchesEvidence, Writes, Passed, Performance
    <3>4. CASE ~Performance
      <4>1. ASSUME Passed(p.run) PROVE files[p.run].result.lines <= p.served + 1
        <5>1. files[p.run].result.lines <= p.served
          BY <1>0, <2>1, <3>1, <3>4, <4>1 DEF ResultMatchesEvidence, Writes, Lines
        <5>2. files[p.run].result.lines \in 0..MaxRequests
          BY <2>1, <4>1 DEF Evidence, Results, Passed
        <5> QED
          BY <2>1, <5>1, <5>2, BoundAssumption
      <4> QED
        BY <1>0, <2>1, <3>2, <3>4, <4>1 DEF ResultMatchesEvidence, Passed, Performance
    <3> QED
      BY <3>3, <3>4
  <2>3. CASE ~p.linked
    BY <1>0, <1>38, <2>1, <2>3 DEF LeftServes, ResultMatchesEvidence, Passed, Performance
  <2> QED
    BY <2>2, <2>3
<1>39. ASSUME NEW p \in left, LeftEnds(p) PROVE ResultMatchesEvidence'
  <2>1. p.run \in Ids /\ files \in [Ids -> Evidence] /\ kind' = kind
    BY <1>0, <1>39 DEF LeftEnds, LeftType, Leftovers, DataType, invocation
  <2>2. CASE UNCHANGED <<files, foreign>>
    BY <1>0, <2>1, <2>2 DEF ResultMatchesEvidence, Passed, Performance
  <2>3. CASE /\ Performance
             /\ files' = [files EXCEPT ![p.run].summary = p.served]
             /\ foreign' = foreign \union {p.run}
    <3>1. /\ \A i \in Ids : /\ files'[i].result = files[i].result
                            /\ files'[i].requests = files[i].requests
          /\ \A i \in Ids \ {p.run} : files'[i].summary = files[i].summary
      BY <2>1, <2>3 DEF Evidence
    <3>2. p.run \in foreign' /\ foreign \subseteq foreign'
      BY <2>3
    <3> QED
      BY <1>0, <2>1, <2>3, <3>1, <3>2 DEF ResultMatchesEvidence, Passed, Performance
  <2> QED
    BY <1>39, <2>2, <2>3 DEF LeftEnds
<1>40. CASE UNCHANGED vars
  BY <1>0, <1>40 DEF vars, disk, procs, invocation, progress, ResultMatchesEvidence, Passed,
     Performance, Telemetry, Lines, Evidence, Results, Busy, NoGateway
<1> QED
  BY <1>1, <1>2, <1>3, <1>4, <1>5, <1>6, <1>7, <1>8, <1>9, <1>10, <1>11, <1>12, <1>13, <1>14,
     <1>15, <1>16, <1>17, <1>18, <1>19, <1>20, <1>21, <1>22, <1>23, <1>24, <1>25, <1>26, <1>27,
     <1>28, <1>29, <1>30, <1>31, <1>32, <1>33, <1>34, <1>35, <1>36, <1>37, <1>38, <1>39, <1>40
     DEF Next, Step, Interrupt, Process

\* The invariant holds of a new directory.
LEMMA InitIInv == Init => IInv
<1> SUFFICES ASSUME Init PROVE IInv
  OBVIOUS
<1>1. ControlType
  <2>1. todo \in Seq({"requests", "resources", "summary", "result"})
    BY DEF Init
  <2>2. kind \in Kinds /\ starts \in 0..MaxStarts /\ asked \in {None} \union Asked
    BY BoundAssumption DEF Init
  <2>3. pc = "idle" /\ id \in Nat
    BY DEF Init
  <2>4. passing \in BOOLEAN /\ doneFile \in BOOLEAN
    BY DEF Init
  <2>5. container = "none" /\ sampler = "none" /\ monitor = "none"
    BY DEF Init
  <2> QED
    BY <2>1, <2>2, <2>3, <2>4, <2>5 DEF ControlType, Busy
<1>2. DataType
  <2>1. NoEvidence \in Evidence
    BY DEF NoEvidence, Evidence
  <2>2. files \in [Ids -> Evidence]
    BY <2>1 DEF Init
  <2> QED
    BY <2>2 DEF Init, DataType
<1>3. GatewayType /\ LeftType /\ QuietInv /\ SamplerInv /\ GatewayInv /\ LeftInv
  BY BoundAssumption DEF Init, GatewayType, LeftType, QuietInv, SamplerInv, GatewayInv, LeftInv,
     NoGateway, Busy
<1>4. \A i \in Ids : files[i].result = None
  BY DEF Init, NoEvidence
<1>5. EndedInv /\ RemovalInv /\ RunInv /\ CountInv /\ CollectionInv
  BY DEF Init, EndedInv, RemovalInv, RunInv, CountInv, CollectionInv, Busy
<1>6. SnapshotInv /\ ResultMatchesEvidence
  BY <1>4 DEF Init, SnapshotInv, ResultMatchesEvidence, Passed
<1> QED
  BY <1>1, <1>2, <1>3, <1>5, <1>6 DEF IInv

\* Whatever the directory holds and wherever the harness and its processes are,
\* a step of any of them, an interrupt or a power-off keeps the invariant.
THEOREM Invariant == Spec => []IInv
<1>1. Init => IInv
  BY InitIInv
<1>2. IInv /\ [Next]_vars => IInv'
  BY StepControlType, StepDataType, StepGatewayType, StepLeftType, StepQuietInv, StepSamplerInv,
     StepGatewayInv, StepEndedInv, StepRemovalInv, StepLeftInv, StepRunInv, StepCountInv,
     StepCollectionInv, StepSnapshotInv, StepResultMatchesEvidence, Zenon DEF IInv
<1> QED
  BY <1>1, <1>2, PTL DEF Spec

\* Type correctness: the files and processes of the harness keep their types.
THEOREM TypeCorrect == Spec => []TypeOK
<1>1. IInv => TypeOK
  BY TypeParts DEF IInv
<1> QED
  BY <1>1, Invariant, PTL

\* A result agrees with the files it counts, whichever step a start was cut short
\* at and whatever its processes did after the result was written.
THEOREM MatchesEvidence == Spec => []ResultMatchesEvidence
<1>1. IInv => ResultMatchesEvidence
  BY DEF IInv
<1> QED
  BY <1>1, Invariant, PTL

\* A start that returns has a result of what it was asked for under every run.
THEOREM Complete == Spec => []CollectionComplete
<1>1. IInv => CollectionComplete
  <2> SUFFICES ASSUME IInv, pc = "returned", NEW i \in Ids PROVE Answers(i)
    BY DEF CollectionComplete, Answers
  <2>1. i < id
    BY MatrixAssumption DEF IInv, ControlType, CollectionInv, Ids
  <2> QED
    BY <2>1 DEF IInv, CollectionInv
<1> QED
  BY <1>1, Invariant, PTL

\* Only an interrupted clean-up, or a container that runc could not delete, leaves
\* a process of a run; a start whose clean-up was interrupted is over.
THEOREM NothingLeft == Spec => []NothingLeftRunning
<1>1. IInv => NothingLeftRunning
  <2>1. ASSUME IInv PROVE (\A p \in left : p.cut \/ p.process = "kept")
                         /\ (\A p \in left : p.cut /\ p.start = starts => pc = "idle")
    BY <2>1 DEF IInv, LeftInv
  <2>2. ASSUME IInv, pc \in {"idle", "next", "returned", "unlink"}
        PROVE  /\ gateway = NoGateway /\ container = "none" /\ monitor = "none" /\ ~doneFile
               /\ sampler = "alive" => Performance /\ pc # "idle"
    BY <2>2 DEF IInv, QuietInv, SamplerInv, Busy
  <2> QED
    BY <2>1, <2>2, Zenon DEF NothingLeftRunning
<1> QED
  BY <1>1, Invariant, PTL

\* A start that resumes, at whichever step, leaves the results it finds.
THEOREM ResumeKeeps == Spec => ResumeKeepsResults
<1> DEFINE Kept ==
      asked # None /\ asked.resume /\ pc \notin {"idle", "resulting"} =>
        \A i \in Ids : files[i].result # None => files'[i].result = files[i].result
<1>1. IInv /\ [Next]_vars => Kept
  <2> SUFFICES ASSUME IInv, [Next]_vars, asked.resume, pc \notin {"idle", "resulting"},
                      NEW i \in Ids, files[i].result # None
               PROVE  files'[i].result = files[i].result
    BY Zenon
  <2>1. /\ files \in [Ids -> Evidence] /\ (pc \in {"unlink"} \union Busy => id \in Ids)
        /\ RunInv /\ GatewayInv /\ QuietInv /\ RemovalInv /\ LeftType
    BY DEF IInv, ControlType, DataType
  <2>2. CASE Unlink
    <3>1. /\ id \in Ids /\ pc = "unlink" /\ todo # << >>
          /\ files' = [files EXCEPT ![id][Head(todo)] = None]
      BY <2>1, <2>2 DEF Unlink
    <3>2. Head(todo) \in {"requests", "resources", "summary", "result"}
      BY <2>1, <3>1, NextRemoval, Zenon
    <3>3. i # id
      BY <2>1, <3>1 DEF RunInv
    <3> QED
      BY <2>1, <3>1, <3>2, <3>3, OneRemoved
  <2>3. CASE Spawn
    BY <2>1, <2>3 DEF Spawn, Evidence
  <2>4. CASE TearResult
    BY <2>1, <2>4 DEF TearResult, RunInv, Busy, Evidence
  <2>5. CASE WriteResult
    BY <2>5 DEF WriteResult
  <2>6. CASE Serve
    <3>1. id \in Ids
      BY <2>1, <2>6 DEF Serve, GatewayInv, NoGateway
    <3> QED
      BY <2>1, <2>6, <3>1 DEF Serve, Evidence
  <2>7. CASE GatewayExits
    <3>1. id \in Ids
      BY <2>1, <2>7 DEF GatewayExits, GatewayInv
    <3> QED
      BY <2>1, <2>7, <3>1 DEF GatewayExits, Evidence
  <2>8. CASE Sample
    <3>1. id \in Ids
      BY <2>1, <2>8 DEF Sample, QuietInv, NoGateway
    <3> QED
      BY <2>1, <2>8, <3>1 DEF Sample, Evidence
  <2>9. ASSUME NEW p \in left, LeftServes(p) \/ LeftEnds(p) PROVE files'[i].result = files[i].result
    <3>1. p.run \in Ids
      BY <2>1, <2>9 DEF LeftType, Leftovers
    <3> QED
      BY <2>1, <2>9, <3>1 DEF LeftServes, LeftEnds, Evidence
  <2>10. CASE UNCHANGED files
    BY <2>10
  <2> QED
    BY <2>2, <2>3, <2>4, <2>5, <2>6, <2>7, <2>8, <2>9, <2>10
    DEF Next, Step, Process, Start, TearSnapshot, WriteSnapshot, Return, Skip, Refuse, Execute,
        Leave, EnterTry, RuncRun, Fail, SeeStopped, JoinSampler, WaitMonitor, TerminateGateway,
        WaitGateway,
        Count, Finally, Reap, Interrupt, InterruptBetween, InterruptRun, InterruptCleanUp,
        PowerOff, GatewayBinds, Send, Accept, ContainerStops, SamplerEnds, MonitorStarts, MonitorEnds,
        disk, procs, progress, invocation, vars
<1>2. IInv /\ [Next]_vars => [Kept]_vars
  BY <1>1
<1> QED
  BY <1>2, Invariant, PTL DEF Spec, ResumeKeepsResults

==============================================================================
