--------------------------- MODULE OnlineMonitor ---------------------------
(***************************************************************************)
(* The online monitor, scripts/guest-online-monitor.py, beside the two     *)
(* writers of its inputs: the gateway, one line to a request, and the      *)
(* resource sampler of the harness.  A window of telemetry is scored once, *)
(* some slack after its end; what arrives later is never scored.  Whether  *)
(* anything can arrive later is a question of time, so the clock is part   *)
(* of the state.                                                           *)
(*                                                                         *)
(* Lines are read whole: each writer writes each with one flush.           *)
(*                                                                         *)
(* The harness's samples name no event_type, and the monitor takes a line  *)
(* that names none for a request: each line may begin the warm-up.         *)
(***************************************************************************)
EXTENDS Naturals, Sequences

CONSTANTS
  Window,        \* length of a window
  Warmup,        \* time from the first request that is not scored
  Slack,         \* time after the end of a window before it is scored
  Sleep,         \* pause between two rounds of reading
  QuietRounds,   \* rounds without a new event before the end
  WriteDelay,    \* at most this long from the stamp of a request or sample to its line
  ReadDelay,     \* at most this long from reading requests to the clock
  Drain,         \* the gateway stamps requests this long after the done file
  None,          \* no time
  MaxTime,       \* bound on the clock
  MaxRequests,   \* bound on requests
  MaxSamples     \* bound on samples

ASSUME WindowAssumption == Window \in Nat \ {0}
ASSUME DelayAssumption ==
  /\ Warmup \in Nat /\ Slack \in Nat /\ Sleep \in Nat
  /\ WriteDelay \in Nat /\ ReadDelay \in Nat /\ Drain \in Nat
ASSUME QuietAssumption == QuietRounds \in Nat \ {0}
ASSUME NoneAssumption == None \notin Nat
ASSUME BoundAssumption == MaxTime \in Nat /\ MaxRequests \in Nat /\ MaxSamples \in Nat

VARIABLES
  now,           \* the clock of the guest
  requests,      \* the stamps of the requests the gateway has handled, in order
  written,       \* how many of them are lines of the request file
  samples,       \* the stamps of the samples the harness has taken, in order
  sampled,       \* how many of them are lines of the resource file
  done,          \* whether the done file exists
  doneAt,        \* when the harness created it
  pc,            \* where the monitor is
  readRequests,  \* lines read of the request file
  readSamples,   \* lines read of the resource file
  timer,         \* when the request file was read to its end, or the pause ends
  first,         \* first_request_ns
  buckets,       \* the events kept for scoring
  added,         \* whether this round has kept any
  quiet,         \* quiet_after_done
  ready,         \* the windows still to be scored in this round
  final,         \* whether the round is the last, forced one
  processed,     \* the windows scored
  rows,          \* history: the rows given to the model
  chain,         \* history: the windows of the alerts the Audit TA has appended
  records,       \* the windows of the alerts in memory
  alerts,        \* the alerts file
  summary        \* the number of alerts the summary reports

files == <<requests, written, samples, sampled, done, doneAt>>
inputs == <<readRequests, readSamples, timer, first, buckets, added, quiet>>
scoring == <<ready, final, processed, rows, chain, records>>
outputs == <<alerts, summary>>
vars == <<now, files, pc, inputs, scoring, outputs>>

Init ==
  /\ now = 0
  /\ requests = << >> /\ written = 0 /\ samples = << >> /\ sampled = 0
  /\ done = FALSE /\ doneAt = None
  /\ pc = "start"
  /\ readRequests = 0 /\ readSamples = 0
  /\ timer = 0 /\ first = None
  /\ buckets = {} /\ added = FALSE /\ quiet = 0
  /\ ready = {} /\ final = FALSE /\ processed = {} /\ rows = {}
  /\ chain = << >> /\ records = << >>
  /\ alerts = << >> /\ summary = None

-----------------------------------------------------------------------------
(* The clock, the gateway, the sampler and the harness *)

Tick ==
  /\ now < MaxTime
  /\ written < Len(requests) => now < requests[Len(requests)] + WriteDelay
  /\ sampled < Len(samples) => now < samples[Len(samples)] + WriteDelay
  /\ pc = "samples" => now < timer + ReadDelay
  /\ now' = now + 1
  /\ UNCHANGED <<files, pc, inputs, scoring, outputs>>

\* log_event takes the time; the line is in the file only after the flush.
StampRequest ==
  /\ written = Len(requests)
  /\ Len(requests) < MaxRequests
  /\ doneAt # None => now <= doneAt + Drain
  /\ requests' = Append(requests, now)
  /\ UNCHANGED <<now, written, samples, sampled, done, doneAt, pc, inputs, scoring, outputs>>

WriteRequest ==
  /\ written < Len(requests)
  /\ written' = written + 1
  /\ UNCHANGED <<now, requests, samples, sampled, done, doneAt, pc, inputs, scoring, outputs>>

StampSample ==
  /\ sampled = Len(samples)
  /\ Len(samples) < MaxSamples
  /\ samples' = Append(samples, now)
  /\ UNCHANGED <<now, requests, written, sampled, done, doneAt, pc, inputs, scoring, outputs>>

WriteSample ==
  /\ sampled < Len(samples)
  /\ sampled' = sampled + 1
  /\ UNCHANGED <<now, requests, written, samples, done, doneAt, pc, inputs, scoring, outputs>>

\* The container has stopped: the harness creates the done file, once.
TouchDone ==
  /\ doneAt = None
  /\ done' = TRUE
  /\ doneAt' = now
  /\ UNCHANGED <<now, requests, written, samples, sampled, pc, inputs, scoring, outputs>>

-----------------------------------------------------------------------------
(* Ingestion *)

Event == [source : {"gateway", "sampler"}, line : Nat \ {0}]

StampOf(e) == IF e.source = "gateway" THEN requests[e.line] ELSE samples[e.line]

StartOf(t) == t - (t % Window)

\* A done file that is there already is removed.
Start ==
  /\ pc = "start"
  /\ done' = FALSE
  /\ pc' = "requests"
  /\ UNCHANGED <<now, requests, written, samples, sampled, doneAt, inputs, scoring, outputs>>

\* The first line read begins the warm-up: no line is of another type.
Ingest(e) ==
  /\ first' = IF first = None THEN StampOf(e) ELSE first
  /\ IF StampOf(e) < first' + Warmup
     THEN UNCHANGED <<buckets, added>>
     ELSE buckets' = buckets \union {e} /\ added' = TRUE

ReadRequest ==
  /\ pc = "requests"
  /\ readRequests < written
  /\ readRequests' = readRequests + 1
  /\ Ingest([source |-> "gateway", line |-> readRequests + 1])
  /\ UNCHANGED <<now, files, pc, readSamples, timer, quiet, scoring, outputs>>

EndOfRequests ==
  /\ pc = "requests"
  /\ readRequests = written
  /\ timer' = now
  /\ pc' = "samples"
  /\ UNCHANGED <<now, files, readRequests, readSamples, first, buckets, added, quiet, scoring,
                 outputs>>

ReadSample ==
  /\ pc = "samples"
  /\ readSamples < sampled
  /\ readSamples' = readSamples + 1
  /\ Ingest([source |-> "sampler", line |-> readSamples + 1])
  /\ UNCHANGED <<now, files, pc, readRequests, timer, quiet, scoring, outputs>>

-----------------------------------------------------------------------------
(* Scoring *)

Unscored == {StartOf(StampOf(e)) : e \in buckets} \ processed

\* Slip: a window is ready as soon as it is over.
ReadyWithoutSlack == {w \in Unscored : w + Window <= now}

Ready == {w \in Unscored : w + Window + Slack <= now}

\* The end of the resource file and the clock: a sample in between is read in
\* the next round, like one that is later than the clock.
ReadClock ==
  /\ pc = "samples"
  /\ readSamples = sampled
  /\ ready' = Ready
  /\ pc' = "score"
  /\ UNCHANGED <<now, files, inputs, final, processed, rows, chain, records, outputs>>

\* Slip: the requests and the samples of a window are aggregated as one run.
CountedTogether(w) == {e \in buckets : StartOf(StampOf(e)) = w}

\* The first row of aggregate_events: rows are of one run each, and the name
\* of a run of the gateway comes before "unknown", the run of a sample, which
\* names none.  There always is one: every line is of type request.
Counted(w) ==
  LET inWindow == {e \in buckets : StartOf(StampOf(e)) = w}
      handled == {e \in inWindow : e.source = "gateway"}
  IN  IF handled # {} THEN handled ELSE inWindow

\* Slip: the windows are not sorted.
InAnyTurn(w) == w \in ready

\* The windows are taken in order of their start.
InTurn(w) == w \in ready /\ \A v \in ready : w <= v

Processing(w) ==
  /\ pc = "score"
  /\ InTurn(w)
  /\ ready' = ready \ {w}
  /\ processed' = processed \union {w}
  /\ rows' = rows \union {[window |-> w, requests |-> Counted(w)]}
  /\ UNCHANGED <<now, files, inputs, final, outputs>>

BelowThreshold(w) ==
  /\ Processing(w)
  /\ UNCHANGED <<pc, chain, records>>

AboveThreshold(w) ==
  /\ Processing(w)
  /\ chain' = Append(chain, w)
  /\ records' = Append(records, w)
  /\ UNCHANGED pc

\* audit-client fails, before or after the TA has appended the alert.
AppendFails(w) ==
  /\ Processing(w)
  /\ chain' \in {chain, Append(chain, w)}
  /\ pc' = "dead"
  /\ UNCHANGED records

-----------------------------------------------------------------------------
(* The main loop and the end *)

Quiet == IF ~done THEN quiet ELSE IF added THEN 0 ELSE quiet + 1

\* Slip: the first quiet round ends the loop.
EnoughAtOnce == done /\ Quiet >= 1

\* Slip: the count of the round before is tested.
EnoughBefore == done /\ quiet >= QuietRounds

Enough == done /\ Quiet >= QuietRounds

Pause ==
  /\ pc = "score" /\ ready = {} /\ ~final
  /\ quiet' = Quiet
  /\ ~Enough
  /\ added' = FALSE
  /\ timer' = now + Sleep
  /\ pc' = "sleep"
  /\ UNCHANGED <<now, files, readRequests, readSamples, first, buckets, scoring, outputs>>

Wake ==
  /\ pc = "sleep"
  /\ now >= timer
  /\ pc' = "requests"
  /\ UNCHANGED <<now, files, inputs, scoring, outputs>>

ScoreRest ==
  /\ pc = "score" /\ ready = {} /\ ~final
  /\ quiet' = Quiet
  /\ Enough
  /\ final' = TRUE
  /\ ready' = Unscored
  /\ UNCHANGED <<now, files, pc, readRequests, readSamples, timer, first, buckets, added,
                 processed, rows, chain, records, outputs>>

OpenAlerts ==
  /\ pc = "score" /\ ready = {} /\ final
  /\ alerts' = << >>
  /\ pc' = "write"
  /\ UNCHANGED <<now, files, inputs, scoring, summary>>

\* Slip: the summary is written while the alerts are in a buffer.
SummariseUnflushed ==
  /\ pc = "write"
  /\ summary' = Len(records)
  /\ pc' = "ended"
  /\ UNCHANGED <<now, files, inputs, scoring, alerts>>

WriteAlerts ==
  /\ pc = "write"
  /\ alerts' = records
  /\ pc' = "summary"
  /\ UNCHANGED <<now, files, inputs, scoring, summary>>

WriteSummary ==
  /\ pc = "summary"
  /\ summary' = Len(records)
  /\ pc' = "ended"
  /\ UNCHANGED <<now, files, inputs, scoring, alerts>>

-----------------------------------------------------------------------------

Score(w) == BelowThreshold(w) \/ AboveThreshold(w) \/ AppendFails(w)

Monitor ==
  \/ Start \/ ReadRequest \/ EndOfRequests \/ ReadSample \/ ReadClock
  \/ \E w \in ready : Score(w)
  \/ Pause \/ Wake \/ ScoreRest \/ OpenAlerts \/ WriteAlerts \/ WriteSummary

Environment == Tick \/ StampRequest \/ WriteRequest \/ StampSample \/ WriteSample \/ TouchDone

\* Nothing that happens after the end concerns the monitor.  One that is
\* killed takes no further step.
Next ==
  /\ pc \notin {"ended", "dead"}
  /\ Environment \/ Monitor

Spec == Init /\ [][Next]_vars

-----------------------------------------------------------------------------
(* Properties *)

\* The delays for which no request is late: what is stamped in a window is
\* read before the clock says that the slack after the window is over, and
\* what is stamped after the container has stopped, in the rounds that follow.
InTime ==
  /\ WriteDelay + ReadDelay <= Slack
  /\ Drain + WriteDelay < (QuietRounds - 1) * Sleep

Time == Nat

TypeOK ==
  /\ now \in Time
  /\ requests \in Seq(Time) /\ written \in 0..Len(requests)
  /\ samples \in Seq(Time) /\ sampled \in 0..Len(samples)
  /\ done \in BOOLEAN /\ doneAt \in Time \union {None}
  /\ pc \in {"start", "requests", "samples", "score", "sleep", "write", "summary",
             "ended", "dead"}
  /\ readRequests \in 0..written /\ readSamples \in 0..sampled
  /\ timer \in Time /\ first \in Time \union {None}
  /\ buckets \subseteq Event
  /\ added \in BOOLEAN /\ quiet \in 0..QuietRounds
  /\ final \in BOOLEAN
  /\ ready \subseteq Time /\ processed \subseteq Time
  /\ rows \subseteq [window : Time, requests : SUBSET Event]
  /\ chain \in Seq(Time) /\ records \in Seq(Time) /\ alerts \in Seq(Time)
  /\ summary \in Nat \union {None}

Handled(i) == [source |-> "gateway", line |-> i]

\* When the warm-up may begin: with the first request, or with the first sample
\* if the first request was not yet a line when the samples were read.
Beginnings ==
  {requests[i] : i \in DOMAIN requests \intersect {1}} \union
  {samples[k] : k \in {j \in DOMAIN samples \intersect {1} :
                         requests # << >> => samples[j] <= requests[1] + WriteDelay + ReadDelay}}

\* The requests that are not of a warm-up that begins then.
After(begin) == {i \in DOMAIN requests : requests[i] >= begin + Warmup}

\* Those of a window.
Due(begin, w) == {Handled(i) : i \in {j \in After(begin) : StartOf(requests[j]) = w}}

\* For one beginning of the warm-up a row is made of the requests stamped in
\* its window after it: of all of them, though it is made once and lines
\* arrive late, and of nothing else.  Only a window without any is made a row
\* of samples (guest-online-monitor.py:84-107).
RowsExact ==
  rows # {} =>
    \E begin \in Beginnings : \A row \in rows :
      IF Due(begin, row.window) # {}
      THEN row.requests = Due(begin, row.window)
      ELSE \A e \in row.requests : e.source = "sampler"

\* When the loop has ended, every request after the warm-up is in a row
\* (guest-online-monitor.py:133-142: three quiet rounds, then the forced one).
EveryRequestScored ==
  pc \in {"write", "summary", "ended"} /\ requests # << >> =>
    \E begin \in Beginnings : \A i \in After(begin) :
      \E row \in rows : Handled(i) \in row.requests

\* A monitor that reports PASS has written every alert it has had the Audit
\* TA append, in the order of the chain (guest-online-monitor.py:123-160: the
\* records are kept in memory until the end).
PassMeansWritten == summary # None => alerts = chain /\ summary = Len(chain)

\* The chain is in the order of the windows, each of which it names at most
\* once (guest-online-monitor.py:97-104).
ChainInOrder == \A i, j \in DOMAIN chain : i < j => chain[i] < chain[j]

\* No resource sample is counted as a request (README.md:25, "telemetry
\* windows"; the samples of run-qemu-performance.py name no event_type).
SamplesAreNotRequests == \A row \in rows : \A e \in row.requests : e.source = "gateway"

=============================================================================
