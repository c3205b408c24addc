------------------------ MODULE OnlineMonitorProofs ------------------------
(***************************************************************************)
(* Theorems about OnlineMonitor, for all lengths of windows, slack, pauses *)
(* and delays.  Those about the rows and the order of the chain assume     *)
(* that the delays are InTime; with longer ones the code is wrong.         *)
(***************************************************************************)
EXTENDS OnlineMonitor, SequenceTheorems, TLAPS

-----------------------------------------------------------------------------
(* Types *)

\* What is kept for scoring has been read.
KeptInv ==
  \A e \in buckets :
    e.line <= (IF e.source = "gateway" THEN readRequests ELSE readSamples)

TypeInv == TypeOK /\ KeptInv /\ (~final => quiet < QuietRounds)

\* A window holds the times it starts with (guest-online-monitor.py:91).
LEMMA StartType ==
  ASSUME NEW t \in Nat
  PROVE  StartOf(t) \in Nat /\ StartOf(t) <= t /\ t < StartOf(t) + Window
BY WindowAssumption DEF StartOf

\* A sequence of times with one more.
LEMMA OneMore ==
  ASSUME NEW s \in Seq(Nat), NEW t \in Nat
  PROVE  /\ Append(s, t) \in Seq(Nat)
         /\ Len(s) \in Nat /\ Len(Append(s, t)) = Len(s) + 1
         /\ \A i \in 1..Len(s) : Append(s, t)[i] = s[i] /\ s[i] \in Nat
         /\ Append(s, t)[Len(s) + 1] = t
BY AppendProperties, LenProperties, ElementOfSeq

\* What is kept has a stamp (guest-online-monitor.py:86).
LEMMA StampType ==
  ASSUME TypeInv, NEW e \in buckets
  PROVE  StampOf(e) \in Nat
<1>1. /\ e.line \in Nat \ {0} /\ e.source \in {"gateway", "sampler"}
      /\ e.line <= (IF e.source = "gateway" THEN readRequests ELSE readSamples)
      /\ requests \in Seq(Nat) /\ samples \in Seq(Nat)
      /\ Len(requests) \in Nat /\ Len(samples) \in Nat
      /\ written \in 0..Len(requests) /\ readRequests \in 0..written
      /\ sampled \in 0..Len(samples) /\ readSamples \in 0..sampled
  BY LenProperties DEF TypeInv, TypeOK, KeptInv, Event, Time
<1>2. CASE e.source = "gateway"
  <2>1. e.line \in 1..Len(requests)
    BY <1>1, <1>2
  <2> QED
    BY <1>1, <1>2, <2>1, ElementOfSeq DEF StampOf
<1>3. CASE e.source = "sampler"
  <2>1. e.line \in 1..Len(samples)
    BY <1>1, <1>3
  <2> QED
    BY <1>1, <1>3, <2>1, ElementOfSeq DEF StampOf
<1> QED
  BY <1>1, <1>2, <1>3

\* The windows still to be scored are times.
LEMMA UnscoredType ==
  ASSUME TypeInv
  PROVE  Unscored \subseteq Nat
BY StampType, StartType DEF Unscored

\* An event that is kept when it is read is an event with its stamp.
LEMMA IngestType ==
  ASSUME TypeOK, NEW e \in Event, StampOf(e) \in Nat, Ingest(e)
  PROVE  /\ first' \in Nat \union {None}
         /\ buckets' \subseteq buckets \union {e}
         /\ added' \in BOOLEAN
BY DEF TypeOK, Time, Ingest

\* The types hold at first.
LEMMA TypeInit == Init => TypeInv
<1> SUFFICES ASSUME Init PROVE TypeInv
  OBVIOUS
<1>1. << >> \in Seq(Nat) /\ Len(<< >>) = 0
  BY EmptySeq
<1>2. KeptInv /\ (~final => quiet < QuietRounds) /\ quiet \in 0..QuietRounds
  BY QuietAssumption DEF Init, KeptInv
<1>3. /\ requests \in Seq(Nat) /\ samples \in Seq(Nat) /\ chain \in Seq(Nat)
      /\ records \in Seq(Nat) /\ alerts \in Seq(Nat)
      /\ written \in 0..Len(requests) /\ sampled \in 0..Len(samples)
      /\ readSamples \in 0..sampled
  BY <1>1 DEF Init
<1>4. done \in BOOLEAN /\ added \in BOOLEAN /\ final \in BOOLEAN
  BY DEF Init
<1> QED
  BY <1>2, <1>3, <1>4 DEF Init, TypeInv, TypeOK, Time

\* Every step keeps the types.
LEMMA TypeNext == TypeInv /\ [Next]_vars => TypeInv'
<1> SUFFICES ASSUME TypeInv, [Next]_vars PROVE TypeInv'
  OBVIOUS
<1>t. /\ requests \in Seq(Nat) /\ samples \in Seq(Nat) /\ now \in Nat
      /\ Len(requests) \in Nat /\ Len(samples) \in Nat
      /\ chain \in Seq(Nat) /\ records \in Seq(Nat) /\ Len(records) \in Nat
      /\ written \in 0..Len(requests) /\ readRequests \in 0..written
      /\ sampled \in 0..Len(samples) /\ readSamples \in 0..sampled
      /\ ready \subseteq Nat /\ Unscored \subseteq Nat
  BY UnscoredType, LenProperties DEF TypeInv, TypeOK, Time
<1> USE <1>t DEF TypeInv, TypeOK, KeptInv, Time, vars, files, inputs, scoring, outputs
<1>1. CASE Tick
  BY <1>1 DEF Tick
<1>2. CASE StampRequest
  <2>1. /\ requests' \in Seq(Nat) /\ written \in 0..Len(requests')
        /\ UNCHANGED <<now, written, samples, sampled, done, doneAt, pc, inputs, scoring,
                       outputs>>
    BY <1>2, OneMore DEF StampRequest
  <2> QED
    BY <2>1
<1>3. CASE WriteRequest
  BY <1>3 DEF WriteRequest
<1>4. CASE StampSample
  <2>1. /\ samples' \in Seq(Nat) /\ sampled \in 0..Len(samples')
        /\ UNCHANGED <<now, requests, written, sampled, done, doneAt, pc, inputs, scoring,
                       outputs>>
    BY <1>4, OneMore DEF StampSample
  <2> QED
    BY <2>1
<1>19. CASE WriteSample
  <2>1. /\ sampled' \in 0..Len(samples) /\ readSamples \in 0..sampled'
        /\ UNCHANGED <<now, requests, written, samples, done, doneAt, pc, inputs, scoring,
                       outputs>>
    BY <1>19 DEF WriteSample
  <2> QED
    BY <2>1
<1>5. CASE TouchDone
  BY <1>5 DEF TouchDone
<1>6. CASE Start
  BY <1>6 DEF Start
<1>7. CASE ReadRequest
  <2> DEFINE e == [source |-> "gateway", line |-> readRequests + 1]
  <2>1. /\ e \in Event /\ e.source = "gateway" /\ e.line = readRequests + 1
        /\ readRequests + 1 \in 1..Len(requests)
    BY <1>7 DEF ReadRequest, Event
  <2>2. StampOf(e) \in Nat
    BY <2>1, ElementOfSeq DEF StampOf
  <2>3. Ingest(e) /\ readRequests' = readRequests + 1 /\ readRequests < written
    BY <1>7 DEF ReadRequest
  <2> HIDE DEF e
  <2>4. /\ first' \in Nat \union {None} /\ buckets' \subseteq buckets \union {e}
        /\ added' \in BOOLEAN
    BY <2>1, <2>2, <2>3, IngestType
  <2>5. UNCHANGED <<now, files, pc, readSamples, timer, quiet, scoring, outputs>>
    BY <1>7 DEF ReadRequest
  <2>6. readRequests' \in 0..written
    BY <2>3
  <2>7. buckets' \subseteq Event
    BY <2>1, <2>4
  <2>8. KeptInv'
    <3> SUFFICES ASSUME NEW f \in buckets'
                 PROVE  f.line <= (IF f.source = "gateway" THEN readRequests' ELSE readSamples')
      OBVIOUS
    <3>1. f \in Event /\ f.line \in Nat /\ f.source \in {"gateway", "sampler"}
      BY <2>7 DEF Event
    <3>2. CASE f = e
      BY <2>1, <2>3, <3>2
    <3>3. CASE f \in buckets
      <4>1. f.line <= (IF f.source = "gateway" THEN readRequests ELSE readSamples)
        BY <3>3
      <4>2. readRequests <= readRequests' /\ readSamples <= readSamples'
        BY <2>3, <2>5
      <4>3. /\ readRequests \in Nat /\ readSamples \in Nat
            /\ readRequests' \in Nat /\ readSamples' \in Nat
        BY <2>3, <2>5
      <4> QED
        BY ONLY <3>1, <4>1, <4>2, <4>3
    <3> QED
      BY <2>4, <3>2, <3>3
  <2> QED
    BY <2>4, <2>5, <2>6, <2>7, <2>8
<1>8. CASE EndOfRequests
  BY <1>8 DEF EndOfRequests
<1>9. CASE ReadSample
  <2> DEFINE e == [source |-> "sampler", line |-> readSamples + 1]
  <2>1. /\ e \in Event /\ e.source = "sampler" /\ e.line = readSamples + 1
        /\ readSamples + 1 \in 1..Len(samples)
    BY <1>9 DEF ReadSample, Event
  <2>2. StampOf(e) \in Nat
    BY <2>1, ElementOfSeq DEF StampOf
  <2>3. Ingest(e) /\ readSamples' = readSamples + 1 /\ readSamples < sampled
    BY <1>9 DEF ReadSample
  <2> HIDE DEF e
  <2>4. /\ first' \in Nat \union {None} /\ buckets' \subseteq buckets \union {e}
        /\ added' \in BOOLEAN
    BY <2>1, <2>2, <2>3, IngestType
  <2>5. UNCHANGED <<now, files, pc, readRequests, timer, quiet, scoring, outputs>>
    BY <1>9 DEF ReadSample
  <2>6. readSamples' \in 0..sampled
    BY <2>3
  <2>7. buckets' \subseteq Event
    BY <2>1, <2>4
  <2>8. KeptInv'
    <3> SUFFICES ASSUME NEW f \in buckets'
                 PROVE  f.line <= (IF f.source = "gateway" THEN readRequests' ELSE readSamples')
      OBVIOUS
    <3>1. f \in Event /\ f.line \in Nat /\ f.source \in {"gateway", "sampler"}
      BY <2>7 DEF Event
    <3>2. CASE f = e
      BY <2>1, <2>3, <3>2
    <3>3. CASE f \in buckets
      <4>1. f.line <= (IF f.source = "gateway" THEN readRequests ELSE readSamples)
        BY <3>3
      <4>2. readRequests <= readRequests' /\ readSamples <= readSamples'
        BY <2>3, <2>5
      <4>3. /\ readRequests \in Nat /\ readSamples \in Nat
            /\ readRequests' \in Nat /\ readSamples' \in Nat
        BY <2>3, <2>5
      <4> QED
        BY ONLY <3>1, <4>1, <4>2, <4>3
    <3> QED
      BY <2>4, <3>2, <3>3
  <2> QED
    BY <2>4, <2>5, <2>6, <2>7, <2>8
<1>10. CASE ReadClock
  BY <1>10 DEF ReadClock, Ready
<1>11. ASSUME NEW w \in ready, Score(w) PROVE TypeInv'
  <2>1. w \in Nat /\ Counted(w) \subseteq buckets
    BY DEF Counted
  <2>2. /\ ready' \subseteq ready /\ processed' = processed \union {w}
        /\ UNCHANGED <<now, files, inputs, final, outputs>>
    BY <1>11 DEF Score, BelowThreshold, AboveThreshold, AppendFails, Processing
  <2>3. rows' = rows \union {[window |-> w, requests |-> Counted(w)]}
    BY <1>11 DEF Score, BelowThreshold, AboveThreshold, AppendFails, Processing
  <2>4. rows' \subseteq [window : Nat, requests : SUBSET Event]
    BY <2>1, <2>3
  <2>5. pc' \in {pc, "dead"} /\ chain' \in Seq(Nat) /\ records' \in Seq(Nat)
    <3>1. Append(chain, w) \in Seq(Nat) /\ Append(records, w) \in Seq(Nat)
      BY <2>1, OneMore
    <3>2. pc' \in {pc, "dead"} /\ chain' \in {chain, Append(chain, w)}
          /\ records' \in {records, Append(records, w)}
      BY <1>11 DEF Score, BelowThreshold, AboveThreshold, AppendFails
    <3> QED
      BY <3>1, <3>2
  <2> QED
    BY <2>1, <2>2, <2>4, <2>5
<1>12. CASE Pause
  <2>1. QuietRounds \in Nat /\ quiet \in Nat /\ quiet < QuietRounds
    BY <1>12, QuietAssumption DEF Pause
  <2>2. quiet' = quiet \/ quiet' = 0 \/ (quiet' = quiet + 1 /\ ~ (quiet' >= QuietRounds))
    BY <1>12 DEF Pause, Quiet, Enough
  <2>3. quiet' \in 0..QuietRounds /\ quiet' < QuietRounds
    <3>1. QuietRounds > 0
      BY QuietAssumption
    <3> QED
      BY ONLY <2>1, <2>2, <3>1
  <2>4. now + Sleep \in Nat
    BY DelayAssumption
  <2> QED
    BY <1>12, <2>3, <2>4 DEF Pause
<1>13. CASE Wake
  BY <1>13 DEF Wake
<1>14. CASE ScoreRest
  <2>1. QuietRounds \in Nat /\ quiet \in Nat /\ quiet < QuietRounds
    BY <1>14, QuietAssumption DEF ScoreRest
  <2>2. quiet' = quiet \/ quiet' = 0 \/ quiet' = quiet + 1
    BY <1>14 DEF ScoreRest, Quiet
  <2>3. quiet' \in 0..QuietRounds
    BY <2>1, <2>2
  <2> QED
    BY <1>14, <2>3 DEF ScoreRest
<1>15. CASE OpenAlerts
  BY <1>15, EmptySeq DEF OpenAlerts
<1>16. CASE WriteAlerts
  BY <1>16 DEF WriteAlerts
<1>17. CASE WriteSummary
  BY <1>17 DEF WriteSummary
<1>18. CASE UNCHANGED vars
  BY <1>18
<1> QED
  BY <1>1, <1>2, <1>3, <1>4, <1>5, <1>6, <1>7, <1>8, <1>9, <1>10, <1>11, <1>12, <1>13,
     <1>14, <1>15, <1>16, <1>17, <1>18, <1>19 DEF Next, Environment, Monitor

\* The types are right whatever the delays are (guest-online-monitor.py as a
\* whole); the count of quiet rounds is never above QuietRounds.
THEOREM TypeCorrect == Spec => []TypeOK
<1>1. TypeInv => TypeOK
  BY DEF TypeInv
<1> QED
  BY TypeInit, TypeNext, <1>1, PTL DEF Spec

-----------------------------------------------------------------------------
(* What is reported *)

\* A record is kept for each alert the Audit TA has appended, unless the
\* monitor has died on the answer; the file and then the summary follow.
WrittenInv ==
  /\ pc # "dead" => records = chain
  /\ pc = "summary" => alerts = records
  /\ summary # None => pc = "ended" /\ alerts = chain /\ summary = Len(chain)

\* No step makes the alerts, the chain and the summary differ.
LEMMA WrittenNext == WrittenInv /\ [Next]_vars => WrittenInv'
<1> SUFFICES ASSUME WrittenInv, [Next]_vars PROVE WrittenInv'
  OBVIOUS
<1> USE DEF WrittenInv, vars, files, inputs, scoring, outputs
<1>1. CASE Next /\ Environment
  BY <1>1 DEF Next, Environment, Tick, StampRequest, WriteRequest, StampSample, WriteSample,
              TouchDone
<1>2. CASE Start \/ ReadRequest \/ EndOfRequests \/ ReadSample \/ ReadClock
  BY <1>2 DEF Start, ReadRequest, EndOfRequests, ReadSample, ReadClock
<1>3. ASSUME NEW w \in ready, Score(w) PROVE WrittenInv'
  <2>1. /\ pc = "score" /\ UNCHANGED outputs
        /\ \/ UNCHANGED <<pc, chain, records>>
           \/ pc' = pc /\ chain' = Append(chain, w) /\ records' = Append(records, w)
           \/ pc' = "dead"
    BY <1>3 DEF Score, BelowThreshold, AboveThreshold, AppendFails, Processing
  <2> QED
    BY <2>1
<1>4. CASE Pause \/ Wake \/ ScoreRest
  BY <1>4 DEF Pause, Wake, ScoreRest
<1>5. CASE OpenAlerts \/ WriteAlerts \/ WriteSummary
  BY <1>5 DEF OpenAlerts, WriteAlerts, WriteSummary
<1>6. CASE UNCHANGED vars
  BY <1>6
<1> QED
  BY <1>1, <1>2, <1>3, <1>4, <1>5, <1>6 DEF Next, Monitor

\* A monitor that reports PASS has written every alert the Audit TA has
\* appended for it, whatever the delays are (guest-online-monitor.py:123-160).
THEOREM ReportExact == Spec => []PassMeansWritten
<1>1. Init => WrittenInv
  BY DEF Init, WrittenInv
<1>2. WrittenInv => PassMeansWritten
  BY DEF WrittenInv, PassMeansWritten
<1> QED
  BY <1>1, <1>2, WrittenNext, PTL DEF Spec

-----------------------------------------------------------------------------
(* The rows.  If the delays are InTime, a row is made of exactly the        *)
(* requests of its window, and every request after the warm-up is in one,  *)
(* for all lengths of windows, slack, pauses, delays.                      *)

Unread == (readRequests + 1)..Len(requests)

SamplesUnread == (readSamples + 1)..Len(samples)

\* One request is handled at a time and written in WriteDelay; none is handled
\* once the gateway has drained.
ClockInv ==
  /\ Len(requests) <= written + 1
  /\ written < Len(requests) => now <= requests[Len(requests)] + WriteDelay
  /\ \A i \in 1..Len(requests) : requests[i] <= now
  /\ done => doneAt # None
  /\ doneAt # None =>
       doneAt <= now /\ \A i \in 1..Len(requests) : requests[i] <= doneAt + Drain

\* One sample is taken at a time and written in WriteDelay.
SampleInv ==
  /\ Len(samples) <= sampled + 1
  /\ sampled < Len(samples) => now <= samples[Len(samples)] + WriteDelay
  /\ \A k \in 1..Len(samples) : samples[k] <= now

\* What is unread after the request file is read is not older than WriteDelay,
\* and the clock is taken in ReadDelay.
DelayInv ==
  /\ pc = "samples" => now <= timer + ReadDelay
  /\ pc \in {"samples", "score"} /\ ~final =>
       timer <= now /\ \A i \in Unread : timer <= requests[i] + WriteDelay

\* Each quiet round has taken a pause.
QuietInv ==
  quiet > 0 /\ ~final =>
    /\ doneAt # None /\ pc # "start"
    /\ pc = "requests" => doneAt + quiet * Sleep <= now
    /\ pc \in {"samples", "score", "sleep"} => doneAt + quiet * Sleep <= timer

\* The forced round begins when the gateway has drained and all is read.
FinalInv ==
  /\ pc \in {"write", "summary", "ended"} => final /\ ready = {}
  /\ final =>
       /\ doneAt # None /\ doneAt + Drain < now /\ Unread = {}
       /\ pc \in {"score", "write", "summary", "ended", "dead"}

\* The requests that are not of the warm-up, once it has begun.
Scorable == {i \in 1..Len(requests) : first # None /\ requests[i] >= first + Warmup}

\* The warm-up begins with the first line that is read.  What is kept of the
\* request file is what is read of it and not of the warm-up.
IngestInv ==
  /\ first = None =>
       readRequests = 0 /\ readSamples = 0 /\ buckets = {} /\ ready \union processed = {}
  /\ first # None => first \in Beginnings
  /\ \A i \in Nat \ {0} :
       Handled(i) \in buckets <=> i \in Scorable /\ i <= readRequests

\* A window that is scored is over before the first line that is unread, if
\* lines are still read.
SettledInv ==
  \A w \in ready \union processed :
    /\ \A i \in Unread : w + Window <= requests[i]
    /\ ~final => w + Window <= now /\ \A k \in SamplesUnread : w + Window <= samples[k]

\* A window of requests that has been taken is in a row.
RowsInv ==
  /\ pc \notin {"score", "dead"} => ready = {}
  /\ \A row \in rows : row.window \in processed
  /\ \A i \in Scorable : i <= readRequests /\ StartOf(requests[i]) \in processed =>
       \E row \in rows : row.window = StartOf(requests[i])
  /\ final /\ pc # "dead" =>
       \A i \in Scorable : StartOf(requests[i]) \in ready \union processed

\* The requests of a window that are not of the warm-up.
RequestsOf(w) == {Handled(i) : i \in {j \in Scorable : StartOf(requests[j]) = w}}

\* A row is of the requests of its window, or of samples if it has none.
ExactInv ==
  \A row \in rows :
    IF RequestsOf(row.window) # {} THEN row.requests = RequestsOf(row.window)
                                   ELSE \A e \in row.requests : e.source = "sampler"

IInv ==
  /\ TypeInv /\ ClockInv /\ SampleInv /\ DelayInv /\ QuietInv /\ FinalInv
  /\ IngestInv /\ SettledInv /\ RowsInv /\ ExactInv

-----------------------------------------------------------------------------
(* Facts about the state and about the steps *)

\* The types of what the steps compare.
LEMMA Basics ==
  ASSUME TypeInv
  PROVE  /\ now \in Nat /\ timer \in Nat /\ quiet \in Nat
         /\ requests \in Seq(Nat) /\ Len(requests) \in Nat
         /\ \A i \in 1..Len(requests) : requests[i] \in Nat
         /\ written \in Nat /\ written <= Len(requests)
         /\ readRequests \in Nat /\ readRequests <= written
         /\ doneAt = None \/ doneAt \in Nat
         /\ ready \subseteq Nat /\ processed \subseteq Nat /\ buckets \subseteq Event
<1>1. /\ now \in Nat /\ timer \in Nat /\ quiet \in 0..QuietRounds
      /\ requests \in Seq(Nat) /\ written \in 0..Len(requests)
      /\ readRequests \in 0..written /\ doneAt \in Nat \union {None}
      /\ ready \subseteq Nat /\ processed \subseteq Nat /\ buckets \subseteq Event
  BY DEF TypeInv, TypeOK, Time
<1>2. Len(requests) \in Nat
  BY <1>1, LenProperties
<1>3. \A i \in 1..Len(requests) : requests[i] \in Nat
  BY <1>1, ElementOfSeq
<1> QED
  BY <1>1, <1>2, <1>3, QuietAssumption

\* Those of the samples and of the beginning of the warm-up.
LEMMA SampleBasics ==
  ASSUME TypeInv
  PROVE  /\ samples \in Seq(Nat) /\ Len(samples) \in Nat
         /\ \A k \in 1..Len(samples) : samples[k] \in Nat
         /\ sampled \in Nat /\ sampled <= Len(samples)
         /\ readSamples \in Nat /\ readSamples <= sampled
         /\ first = None \/ first \in Nat
<1>1. /\ samples \in Seq(Nat) /\ sampled \in 0..Len(samples)
      /\ readSamples \in 0..sampled /\ first \in Nat \union {None}
  BY DEF TypeInv, TypeOK, Time
<1>2. Len(samples) \in Nat
  BY <1>1, LenProperties
<1>3. \A k \in 1..Len(samples) : samples[k] \in Nat
  BY <1>1, ElementOfSeq
<1> QED
  BY <1>1, <1>2, <1>3

\* A request has a stamp of now after those of the others (log_event).
LEMMA StampStep ==
  ASSUME TypeInv, StampRequest
  PROVE  /\ written = Len(requests) /\ Len(requests') = Len(requests) + 1
         /\ \A i \in 1..Len(requests) : requests'[i] = requests[i]
         /\ requests'[Len(requests) + 1] = now
         /\ doneAt # None => now <= doneAt + Drain
         /\ UNCHANGED <<now, written, samples, done, doneAt, pc, inputs, scoring, outputs>>
<1>1. now \in Nat /\ requests \in Seq(Nat) /\ Len(requests) \in Nat
  BY Basics
<1>2. /\ written = Len(requests) /\ requests' = Append(requests, now)
      /\ doneAt # None => now <= doneAt + Drain
      /\ UNCHANGED <<now, written, samples, done, doneAt, pc, inputs, scoring, outputs>>
  BY DEF StampRequest
<1>3. /\ Len(requests') = Len(requests) + 1
      /\ \A i \in 1..Len(requests) : requests'[i] = requests[i]
      /\ requests'[Len(requests) + 1] = now
  BY <1>1, <1>2, OneMore
<1> QED
  BY <1>2, <1>3

\* The times of requests are as if each was handled at its stamp.
LEMMA ClockNext == TypeInv /\ ClockInv /\ [Next]_vars => ClockInv'
<1> SUFFICES ASSUME TypeInv, ClockInv, [Next]_vars PROVE ClockInv'
  OBVIOUS
<1> USE Basics, DelayAssumption, NoneAssumption DEF ClockInv
<1>0. /\ now \in Nat /\ Drain \in Nat
      /\ \A i \in 1..Len(requests) : requests[i] \in Nat /\ requests[i] <= now
  OBVIOUS
<1>1. CASE Tick
  <2>1. /\ now' = now + 1 /\ UNCHANGED <<requests, written, done, doneAt>>
        /\ written < Len(requests) => now < requests[Len(requests)] + WriteDelay
    BY <1>1 DEF Tick, files
  <2>2. written < Len(requests) => now' <= requests[Len(requests)] + WriteDelay
    <3> SUFFICES ASSUME written < Len(requests)
                 PROVE  now' <= requests[Len(requests)] + WriteDelay
      OBVIOUS
    <3>1. requests[Len(requests)] \in Nat /\ WriteDelay \in Nat /\ now \in Nat
      OBVIOUS
    <3> QED
      BY ONLY <2>1, <3>1, written < Len(requests)
  <2>3. \A i \in 1..Len(requests) : requests[i] <= now'
    BY ONLY <1>0, <2>1
  <2>4. doneAt # None => doneAt <= now'
    BY <2>1
  <2> QED
    BY <2>1, <2>2, <2>3, <2>4
<1>2. CASE StampRequest
  <2> DEFINE n == Len(requests)
  <2>1. /\ written = n /\ Len(requests') = n + 1 /\ requests'[n + 1] = now
        /\ \A i \in 1..n : requests'[i] = requests[i]
        /\ doneAt # None => now <= doneAt + Drain
        /\ UNCHANGED <<now, written, done, doneAt>>
    BY <1>2, StampStep
  <2> HIDE DEF n
  <2>2. n \in Nat /\ n = Len(requests)
    BY DEF n
  <2>3. \A i \in 1..Len(requests') : (i = n + 1 /\ requests'[i] = now)
                                     \/ (i \in 1..n /\ requests'[i] = requests[i])
    BY ONLY <2>1, <2>2
  <2>4. ASSUME NEW i \in 1..Len(requests')
        PROVE  requests'[i] <= now' /\ (doneAt # None => requests'[i] <= doneAt + Drain)
    <3>1. CASE i = n + 1 /\ requests'[i] = now
      BY ONLY <1>0, <2>1, <3>1
    <3>2. CASE i \in 1..n /\ requests'[i] = requests[i]
      BY <2>1, <2>2, <3>2
    <3> QED
      BY ONLY <2>3, <3>1, <3>2
  <2>5. written' < Len(requests') => now' <= requests'[Len(requests')] + WriteDelay
    <3>1. requests'[Len(requests')] = now /\ now \in Nat /\ WriteDelay \in Nat /\ now' = now
      BY <1>0, <2>1, DelayAssumption
    <3> QED
      BY ONLY <3>1
  <2>6. Len(requests') <= written' + 1
    BY <2>1, <2>2
  <2> QED
    BY <2>1, <2>4, <2>5, <2>6
<1>3. CASE WriteRequest
  BY <1>3 DEF WriteRequest
<1>4. CASE TouchDone
  <2>1. done' /\ doneAt' = now /\ UNCHANGED <<now, requests, written>>
    BY <1>4 DEF TouchDone
  <2>2. \A i \in 1..Len(requests) : requests[i] <= now /\ requests[i] <= now + Drain
    BY ONLY <1>0
  <2> QED
    BY <2>1, <2>2
<1>5. CASE Start
  BY <1>5 DEF Start
<1>6. CASE UNCHANGED <<now, requests, written, done, doneAt>>
  BY <1>6
<1>7. StampSample \/ WriteSample => UNCHANGED <<now, requests, written, done, doneAt>>
  BY DEF StampSample, WriteSample
<1>8. Monitor => Start \/ UNCHANGED <<now, requests, written, done, doneAt>>
  BY DEF files, Monitor, ReadRequest, EndOfRequests, ReadSample, ReadClock, Score,
         BelowThreshold, AboveThreshold, AppendFails, Processing, Pause, Wake, ScoreRest,
         OpenAlerts, WriteAlerts, WriteSummary
<1> QED
  BY <1>1, <1>2, <1>3, <1>4, <1>5, <1>6, <1>7, <1>8 DEF Next, Environment, vars, files

\* A sample has a stamp of now after those of the others (sample_processes).
LEMMA SampleStep ==
  ASSUME TypeInv, StampSample
  PROVE  /\ sampled = Len(samples) /\ Len(samples') = Len(samples) + 1
         /\ \A k \in 1..Len(samples) : samples'[k] = samples[k]
         /\ samples'[Len(samples) + 1] = now
         /\ UNCHANGED <<now, requests, written, sampled, done, doneAt, pc, inputs, scoring,
                        outputs>>
<1>1. now \in Nat /\ samples \in Seq(Nat)
  BY Basics, SampleBasics
<1>2. /\ sampled = Len(samples) /\ samples' = Append(samples, now)
      /\ UNCHANGED <<now, requests, written, sampled, done, doneAt, pc, inputs, scoring,
                     outputs>>
  BY DEF StampSample
<1> QED
  BY <1>1, <1>2, OneMore

\* The times of samples are as if each was taken at its stamp.
LEMMA SampleNext == TypeInv /\ SampleInv /\ [Next]_vars => SampleInv'
<1> SUFFICES ASSUME TypeInv, SampleInv, [Next]_vars PROVE SampleInv'
  OBVIOUS
<1> USE Basics, SampleBasics, DelayAssumption DEF SampleInv
<1>0. now \in Nat /\ \A k \in 1..Len(samples) : samples[k] \in Nat /\ samples[k] <= now
  OBVIOUS
<1>1. CASE Tick
  <2>1. /\ now' = now + 1 /\ UNCHANGED <<samples, sampled>>
        /\ sampled < Len(samples) => now < samples[Len(samples)] + WriteDelay
    BY <1>1 DEF Tick, files
  <2>2. sampled < Len(samples) => now' <= samples[Len(samples)] + WriteDelay
    <3> SUFFICES ASSUME sampled < Len(samples)
                 PROVE  now' <= samples[Len(samples)] + WriteDelay
      OBVIOUS
    <3>1. samples[Len(samples)] \in Nat /\ WriteDelay \in Nat /\ now \in Nat
      OBVIOUS
    <3> QED
      BY ONLY <2>1, <3>1, sampled < Len(samples)
  <2>3. \A k \in 1..Len(samples) : samples[k] <= now'
    BY ONLY <1>0, <2>1
  <2> QED
    BY <2>1, <2>2, <2>3
<1>2. CASE StampSample
  <2> DEFINE n == Len(samples)
  <2>1. /\ sampled = n /\ Len(samples') = n + 1 /\ samples'[n + 1] = now
        /\ \A k \in 1..n : samples'[k] = samples[k]
        /\ UNCHANGED <<now, sampled>>
    BY <1>2, SampleStep
  <2> HIDE DEF n
  <2>2. n \in Nat /\ n = Len(samples)
    BY DEF n
  <2>3. ASSUME NEW k \in 1..Len(samples') PROVE samples'[k] <= now'
    <3>1. CASE k = n + 1
      BY ONLY <1>0, <2>1, <3>1
    <3>2. CASE k \in 1..n
      BY <2>1, <2>2, <3>2
    <3> QED
      BY <2>1, <2>2, <3>1, <3>2
  <2>4. now <= samples'[Len(samples')] + WriteDelay
    BY <2>1
  <2> QED
    BY <2>1, <2>2, <2>3, <2>4
<1>3. CASE WriteSample
  BY <1>3 DEF WriteSample
<1>4. CASE UNCHANGED <<now, samples, sampled>>
  BY <1>4
<1>5. Environment => \/ Tick \/ StampSample \/ WriteSample
                     \/ UNCHANGED <<now, samples, sampled>>
  BY DEF Environment, StampRequest, WriteRequest, TouchDone
<1>6. Monitor => UNCHANGED <<now, samples, sampled>>
  BY DEF files, Monitor, Start, ReadRequest, EndOfRequests, ReadSample, ReadClock, Score,
         BelowThreshold, AboveThreshold, AppendFails, Processing, Pause, Wake, ScoreRest,
         OpenAlerts, WriteAlerts, WriteSummary
<1> QED
  BY <1>1, <1>2, <1>3, <1>4, <1>5, <1>6 DEF Next, vars, files

\* What is unread was not written when the request file was read to its end.
LEMMA DelayNext == TypeInv /\ ClockInv /\ DelayInv /\ [Next]_vars => DelayInv'
<1> SUFFICES ASSUME TypeInv, ClockInv, DelayInv, [Next]_vars PROVE DelayInv'
  OBVIOUS
<1> USE Basics, DelayAssumption DEF DelayInv, Unread
<1>1. CASE Tick
  BY <1>1 DEF Tick, files, inputs, scoring
<1>2. CASE StampRequest
  <2>1. /\ Len(requests') = Len(requests) + 1 /\ requests'[Len(requests) + 1] = now
        /\ \A i \in 1..Len(requests) : requests'[i] = requests[i]
        /\ UNCHANGED <<now, pc, timer, final, readRequests>>
    BY <1>2, StampStep DEF inputs, scoring
  <2>2. \A i \in Unread' : (i = Len(requests) + 1 /\ requests'[i] = now)
                           \/ (i \in Unread /\ requests'[i] = requests[i])
    BY <2>1
  <2>3. \A i \in Unread' : pc \in {"samples", "score"} /\ ~final =>
          timer <= requests'[i] + WriteDelay
    <3> SUFFICES ASSUME NEW i \in Unread', pc \in {"samples", "score"}, ~final
                 PROVE  timer <= requests'[i] + WriteDelay
      OBVIOUS
    <3> HIDE DEF Unread
    <3>1. CASE i = Len(requests) + 1 /\ requests'[i] = now
      BY <3>1
    <3>2. CASE i \in Unread /\ requests'[i] = requests[i]
      BY <3>2
    <3> QED
      BY <2>2, <3>1, <3>2
  <2> QED
    BY <2>1, <2>3
<1>3. CASE EndOfRequests
  <2>1. readRequests = written /\ timer' = now /\ pc' = "samples"
        /\ UNCHANGED <<now, requests, readRequests>>
    BY <1>3 DEF EndOfRequests, files
  <2>2. \A i \in Unread : i = Len(requests) /\ written < Len(requests)
    BY <2>1 DEF ClockInv
  <2> QED
    BY <2>1, <2>2 DEF ClockInv
<1>4. CASE UNCHANGED <<now, requests, pc, timer, final, readRequests>>
  BY <1>4
<1>5. CASE pc' \notin {"samples", "score"} \/ (pc' = "score" /\ final')
  BY <1>5
<1>6. CASE ReadClock
  BY <1>6 DEF ReadClock, files, inputs
<1>7. Environment => Tick \/ StampRequest
                     \/ UNCHANGED <<now, requests, pc, timer, final, readRequests>>
  BY DEF Environment, WriteRequest, StampSample, WriteSample, TouchDone, inputs, scoring
<1>8. ASSUME NEW w \in ready, Score(w)
      PROVE  pc' = "dead" \/ UNCHANGED <<now, requests, pc, timer, final, readRequests>>
  BY <1>8 DEF Score, BelowThreshold, AboveThreshold, AppendFails, Processing, files,
              inputs
<1>9. Start \/ ReadRequest \/ Pause \/ Wake \/ OpenAlerts \/ WriteAlerts \/ WriteSummary =>
        pc' \in {"requests", "sleep", "write", "summary", "ended"}
  BY DEF Start, ReadRequest, Pause, Wake, OpenAlerts, WriteAlerts, WriteSummary
<1>10. ScoreRest => pc' = "score" /\ final'
  BY DEF ScoreRest
<1>11. ReadSample => UNCHANGED <<now, requests, pc, timer, final, readRequests>>
  BY DEF ReadSample, files, scoring
<1>12. CASE UNCHANGED vars
  BY <1>4, <1>12 DEF vars, files, inputs, scoring
<1> QED
  BY <1>1, <1>2, <1>3, <1>4, <1>5, <1>6, <1>7, <1>8, <1>9, <1>10, <1>11, <1>12
     DEF Next, Monitor

\* A quiet round begins after the pause of the round before.
LEMMA QuietNext == TypeInv /\ ClockInv /\ DelayInv /\ QuietInv /\ [Next]_vars => QuietInv'
<1> SUFFICES ASSUME TypeInv, ClockInv, DelayInv, QuietInv, [Next]_vars PROVE QuietInv'
  OBVIOUS
<1> USE Basics, DelayAssumption, NoneAssumption DEF QuietInv
<1>0. quiet * Sleep \in Nat
  OBVIOUS
<1>1. CASE Tick
  BY <1>0, <1>1 DEF Tick, files, inputs, scoring
<1>2. CASE TouchDone
  BY <1>2 DEF TouchDone, inputs, scoring
<1>3. CASE EndOfRequests
  BY <1>3 DEF EndOfRequests, files, scoring
<1>4. CASE Pause
  <2>1. /\ pc = "score" /\ pc' = "sleep" /\ ~final /\ timer' = now + Sleep
        /\ UNCHANGED <<now, doneAt, final>>
        /\ quiet' = quiet \/ quiet' = 0 \/ (quiet' = quiet + 1 /\ done)
    BY <1>4 DEF Pause, Quiet, files, scoring
  <2>2. timer <= now
    BY <2>1 DEF DelayInv
  <2>3. CASE quiet' = 0
    BY <2>3
  <2>4. CASE quiet' = quiet
    BY <1>0, <2>1, <2>2, <2>4
  <2>5. CASE quiet' = quiet + 1 /\ done
    <3>1. doneAt # None /\ doneAt \in Nat /\ doneAt <= now
      BY <2>5 DEF ClockInv
    <3>2. quiet' * Sleep = quiet * Sleep + Sleep
      BY <2>5
    <3>3. doneAt + quiet * Sleep <= now
      <4>1. CASE quiet = 0
        BY <3>1, <4>1
      <4>2. CASE quiet > 0
        BY <1>0, <2>1, <2>2, <3>1, <4>2
      <4> QED
        BY <4>1, <4>2
    <3>4. doneAt + quiet' * Sleep <= timer'
      <4> DEFINE q == quiet * Sleep
                 p == quiet' * Sleep
      <4>1. p = q + Sleep /\ q \in Nat /\ doneAt + q <= now /\ timer' = now + Sleep
        BY <1>0, <2>1, <3>2, <3>3
      <4> HIDE DEF q, p
      <4>2. doneAt + p <= timer'
        BY <3>1, <4>1
      <4> QED
        BY <4>2 DEF p
    <3> QED
      BY <2>1, <3>1, <3>4
  <2> QED
    BY <2>1, <2>3, <2>4, <2>5
<1>5. CASE Wake
  BY <1>0, <1>5 DEF Wake, files, inputs, scoring
<1>6. CASE final' \/ quiet' = 0
  BY <1>6
<1>7. CASE UNCHANGED <<now, doneAt, pc, timer, quiet, final>>
  BY <1>7
<1>8. CASE /\ UNCHANGED <<now, doneAt, timer, quiet, final>>
           /\ \/ pc' \in {"samples", "score"} /\ pc = "samples"
              \/ pc' = "dead"
  BY <1>8
<1>9. Environment => Tick \/ TouchDone \/ UNCHANGED <<now, doneAt, pc, timer, quiet, final>>
  BY DEF Environment, StampRequest, WriteRequest, StampSample, WriteSample, inputs, scoring
<1>10. ASSUME NEW w \in ready, Score(w)
       PROVE  /\ UNCHANGED <<now, doneAt, timer, quiet, final>>
              /\ pc' = pc \/ pc' = "dead"
  BY <1>10 DEF Score, BelowThreshold, AboveThreshold, AppendFails, Processing, files,
               inputs
<1>11. ReadRequest \/ ReadSample => UNCHANGED <<now, doneAt, pc, timer, quiet, final>>
  BY DEF ReadRequest, ReadSample, files, scoring
<1>12. Start => pc = "start" /\ UNCHANGED <<quiet, final>>
  BY DEF Start, inputs, scoring
<1>13. ReadClock => /\ UNCHANGED <<now, doneAt, timer, quiet, final>>
                     /\ pc' = "score" /\ pc = "samples"
  BY DEF ReadClock, files, inputs
<1>14. ScoreRest => final'
  BY DEF ScoreRest
<1>15. OpenAlerts \/ WriteAlerts \/ WriteSummary =>
         /\ UNCHANGED <<now, doneAt, timer, quiet, final>>
         /\ pc' \in {"write", "summary", "ended"}
  BY DEF OpenAlerts, WriteAlerts, WriteSummary, files, inputs, scoring
<1>16. CASE UNCHANGED vars
  BY <1>7, <1>16 DEF vars, files, inputs, scoring
<1>17. CASE Monitor
  BY <1>3, <1>4, <1>5, <1>6, <1>7, <1>8, <1>10, <1>11, <1>12, <1>13, <1>14, <1>15, <1>17
     DEF Monitor
<1> QED
  BY <1>1, <1>2, <1>7, <1>9, <1>16, <1>17 DEF Next

\* When enough rounds have been quiet the gateway has drained, and everything
\* it has written is read.
LEMMA DrainedInTime ==
  ASSUME InTime, TypeInv, ClockInv, DelayInv, QuietInv, ScoreRest
  PROVE  doneAt # None /\ doneAt + Drain < now /\ Unread = {}
<1>1. /\ now \in Nat /\ timer \in Nat /\ quiet \in Nat /\ Len(requests) \in Nat
      /\ readRequests \in Nat /\ (doneAt = None \/ doneAt \in Nat)
      /\ \A i \in 1..Len(requests) : requests[i] \in Nat
  BY Basics
<1>2. pc = "score" /\ ~final /\ done /\ Quiet >= QuietRounds
  BY DEF ScoreRest, Enough
<1>3. quiet < QuietRounds
  BY <1>2 DEF TypeInv
<1>4. quiet = QuietRounds - 1
  BY <1>1, <1>2, <1>3, QuietAssumption DEF Quiet
<1>5. Drain + WriteDelay < quiet * Sleep
  BY <1>4 DEF InTime
<1>6. quiet > 0
  BY <1>1, <1>5, DelayAssumption
<1>7. doneAt # None /\ \A i \in 1..Len(requests) : requests[i] <= doneAt + Drain
  BY <1>2 DEF ClockInv
<1>8. doneAt + quiet * Sleep <= timer /\ timer <= now
  BY <1>2, <1>6 DEF DelayInv, QuietInv
<1>9. doneAt \in Nat /\ quiet * Sleep \in Nat
  BY <1>1, <1>7, DelayAssumption
<1>10. doneAt + Drain + WriteDelay < timer
  <2> DEFINE pauses == quiet * Sleep
  <2>1. pauses \in Nat /\ Drain + WriteDelay < pauses /\ doneAt + pauses <= timer
    BY <1>5, <1>8, <1>9
  <2> HIDE DEF pauses
  <2> QED
    BY <1>1, <1>9, <2>1, DelayAssumption
<1>11. ASSUME NEW i \in Unread PROVE FALSE
  <2>1. i \in 1..Len(requests)
    BY <1>1 DEF Unread
  <2>2. timer <= requests[i] + WriteDelay
    BY <1>2 DEF DelayInv
  <2>3. requests[i] \in Nat /\ requests[i] <= doneAt + Drain
    BY <1>1, <1>7, <2>1
  <2>4. doneAt \in Nat /\ timer \in Nat
    BY <1>1, <1>9
  <2> QED
    BY <1>10, <2>2, <2>3, <2>4, DelayAssumption
<1>12. doneAt + Drain < now
  <2>1. doneAt \in Nat /\ timer \in Nat /\ now \in Nat /\ timer <= now
    BY <1>1, <1>8, <1>9
  <2> QED
    BY <1>10, <2>1, DelayAssumption
<1> QED
  BY <1>7, <1>11, <1>12

\* The forced round finds everything read, and nothing comes after.
LEMMA FinalNext ==
  ASSUME InTime, TypeInv, ClockInv, DelayInv, QuietInv, FinalInv, [Next]_vars
  PROVE  FinalInv'
<1> USE Basics, DelayAssumption, NoneAssumption DEF FinalInv
<1>1. CASE ScoreRest
  <2>1. doneAt # None /\ doneAt + Drain < now /\ Unread = {}
    BY <1>1, DrainedInTime
  <2> QED
    BY <1>1, <2>1 DEF ScoreRest, files, Unread
<1>2. CASE Tick
  BY <1>2 DEF Tick, files, inputs, scoring, Unread
<1>3. CASE StampRequest
  <2>1. /\ ~final
        /\ UNCHANGED <<pc, final, ready>>
    BY <1>3, StampStep DEF scoring
  <2> QED
    BY <2>1
<1>4. CASE TouchDone
  BY <1>4 DEF TouchDone, scoring
<1>5. CASE UNCHANGED <<now, requests, doneAt, readRequests, final>>
           /\ \/ pc' = pc /\ ready' \subseteq ready
              \/ pc' = "dead"
  BY <1>5 DEF Unread
<1>6. CASE UNCHANGED final /\ pc \in {"start", "requests", "samples", "sleep"}
           /\ pc' \notin {"write", "summary", "ended"}
  BY <1>6
<1>7. CASE Pause
  BY <1>7 DEF Pause, scoring
<1>8. CASE OpenAlerts \/ WriteAlerts \/ WriteSummary
  BY <1>8 DEF OpenAlerts, WriteAlerts, WriteSummary, files, inputs, scoring, Unread
<1>9. WriteRequest \/ StampSample \/ WriteSample =>
        UNCHANGED <<now, requests, doneAt, readRequests, final, pc, ready>>
  BY DEF WriteRequest, StampSample, WriteSample, inputs, scoring
<1>10. ASSUME NEW w \in ready, Score(w)
       PROVE  /\ UNCHANGED <<now, requests, doneAt, readRequests, final>>
              /\ ready' \subseteq ready /\ (pc' = pc \/ pc' = "dead")
  BY <1>10 DEF Score, BelowThreshold, AboveThreshold, AppendFails, Processing, files,
               inputs
<1>11. Start \/ ReadRequest \/ EndOfRequests \/ ReadSample \/ ReadClock \/ Wake =>
         /\ UNCHANGED final /\ pc \in {"start", "requests", "samples", "sleep"}
         /\ pc' \notin {"write", "summary", "ended"}
  BY DEF Start, ReadRequest, EndOfRequests, ReadSample, ReadClock, Wake, scoring
<1>12. CASE UNCHANGED vars
  BY <1>5, <1>12 DEF vars, files, inputs, scoring
<1>13. CASE Monitor
  BY <1>1, <1>5, <1>6, <1>7, <1>8, <1>10, <1>11, <1>13 DEF Monitor
<1> QED
  BY <1>1, <1>2, <1>3, <1>4, <1>5, <1>9, <1>12, <1>13 DEF Next, Environment

-----------------------------------------------------------------------------
(* What is kept and what is settled *)

\* A new request changes nothing of those before it.
LEMMA ScorableStamp ==
  ASSUME TypeInv, StampRequest, NEW i \in 1..Len(requests)
  PROVE  requests'[i] = requests[i] /\ (i \in Scorable' <=> i \in Scorable)
<1>1. /\ Len(requests) \in Nat /\ Len(requests') = Len(requests) + 1
      /\ \A j \in 1..Len(requests) : requests'[j] = requests[j]
  BY Basics, StampStep
<1>2. i \in 1..Len(requests') /\ first' = first
  BY <1>1, StampStep DEF inputs
<1> QED
  BY <1>1, <1>2 DEF Scorable

\* When the warm-up may begin, of files as they are.
BeginningsOf(r, s) ==
  {t \in Nat : \/ Len(r) >= 1 /\ t = r[1]
               \/ /\ Len(s) >= 1 /\ t = s[1]
                  /\ Len(r) >= 1 => t <= r[1] + WriteDelay + ReadDelay}

\* The warm-up begins with the first line of a file (guest-online-monitor.py:84).
LEMMA FirstLines ==
  ASSUME NEW r \in Seq(Nat), NEW s \in Seq(Nat)
  PROVE  {r[i] : i \in DOMAIN r \intersect {1}} \union
         {s[k] : k \in {j \in DOMAIN s \intersect {1} :
                          r # << >> => s[j] <= r[1] + WriteDelay + ReadDelay}}
           = BeginningsOf(r, s)
<1>1. /\ Len(r) \in Nat /\ Len(s) \in Nat /\ DOMAIN r = 1..Len(r) /\ DOMAIN s = 1..Len(s)
      /\ \A i \in 1..Len(r) : r[i] \in Nat
      /\ \A k \in 1..Len(s) : s[k] \in Nat
  BY LenProperties, ElementOfSeq
<1>2. r # << >> <=> Len(r) >= 1
  BY <1>1, EmptySeq
<1>3. /\ DOMAIN r \intersect {1} = IF Len(r) >= 1 THEN {1} ELSE {}
      /\ DOMAIN s \intersect {1} = IF Len(s) >= 1 THEN {1} ELSE {}
  BY <1>1
<1>4. ASSUME NEW t
      PROVE  t \in {r[i] : i \in DOMAIN r \intersect {1}} <=>
               t \in Nat /\ Len(r) >= 1 /\ t = r[1]
  BY <1>1, <1>3
<1>5. ASSUME NEW t
      PROVE  t \in {s[k] : k \in {j \in DOMAIN s \intersect {1} :
                      r # << >> => s[j] <= r[1] + WriteDelay + ReadDelay}}
             <=> /\ t \in Nat /\ Len(s) >= 1 /\ t = s[1]
                 /\ Len(r) >= 1 => t <= r[1] + WriteDelay + ReadDelay
  BY <1>1, <1>2, <1>3
<1> QED
  BY <1>4, <1>5 DEF BeginningsOf

\* The same of the files of a state.
LEMMA BeginningsAre ==
  /\ TypeInv => Beginnings = BeginningsOf(requests, samples)
  /\ TypeInv' => Beginnings' = BeginningsOf(requests', samples')
<1>1. ASSUME TypeInv PROVE Beginnings = BeginningsOf(requests, samples)
  <2>1. requests \in Seq(Nat) /\ samples \in Seq(Nat)
    BY <1>1 DEF TypeInv, TypeOK, Time
  <2> QED
    BY <2>1, FirstLines DEF Beginnings
<1>2. ASSUME TypeInv' PROVE Beginnings' = BeginningsOf(requests', samples')
  <2>1. requests' \in Seq(Nat) /\ samples' \in Seq(Nat)
    BY <1>2 DEF TypeInv, TypeOK, Time
  <2> QED
    BY <2>1, FirstLines DEF Beginnings
<1> QED
  BY <1>1, <1>2

\* A beginning of the warm-up stays one: stamps do not change, and the first
\* request is later than a sample that was there before it.
LEMMA BeginningKept ==
  ASSUME TypeInv, TypeInv', SampleInv, [Next]_vars, NEW t \in Beginnings
  PROVE  t \in Beginnings'
<1> USE Basics, SampleBasics, DelayAssumption
<1>1. CASE StampRequest
  <2>1. /\ Len(requests') = Len(requests) + 1 /\ requests'[Len(requests) + 1] = now
        /\ \A i \in 1..Len(requests) : requests'[i] = requests[i]
        /\ samples' = samples
    BY <1>1, StampStep
  <2>2. CASE Len(requests) >= 1
    <3>1. requests'[1] = requests[1] /\ Len(requests') >= 1
      BY <2>1, <2>2
    <3> QED
      BY <2>1, <2>2, <3>1, BeginningsAre DEF BeginningsOf
  <2>3. CASE Len(requests) = 0
    <3>1. t \in Nat /\ Len(samples) >= 1 /\ t = samples[1] /\ t <= now
      BY <2>3, BeginningsAre DEF SampleInv, BeginningsOf
    <3>2. requests'[1] = now /\ now <= now + WriteDelay + ReadDelay
      BY <2>1, <2>3
    <3>3. t <= requests'[1] + WriteDelay + ReadDelay
      <4>1. t \in Nat /\ now \in Nat /\ WriteDelay \in Nat /\ ReadDelay \in Nat
        BY <3>1
      <4> QED
        BY ONLY <3>1, <3>2, <4>1
    <3> QED
      BY <2>1, <3>1, <3>3, BeginningsAre DEF BeginningsOf
  <2> QED
    BY <2>2, <2>3
<1>2. CASE StampSample
  <2>1. /\ Len(samples') = Len(samples) + 1 /\ requests' = requests
        /\ \A k \in 1..Len(samples) : samples'[k] = samples[k]
    BY <1>2, SampleStep
  <2>2. Len(samples) >= 1 => samples'[1] = samples[1] /\ Len(samples') >= 1
    BY <2>1
  <2> QED
    BY <2>1, <2>2, BeginningsAre DEF BeginningsOf
<1>3. CASE UNCHANGED <<requests, samples>>
  BY <1>3 DEF Beginnings
<1>4. Environment => StampRequest \/ StampSample \/ UNCHANGED <<requests, samples>>
  BY DEF Environment, Tick, WriteRequest, WriteSample, TouchDone, files
<1>5. Monitor => UNCHANGED <<requests, samples>>
  BY DEF files, Monitor, Start, ReadRequest, EndOfRequests, ReadSample, ReadClock, Score,
         BelowThreshold, AboveThreshold, AppendFails, Processing, Pause, Wake, ScoreRest,
         OpenAlerts, WriteAlerts, WriteSummary
<1> QED
  BY <1>1, <1>2, <1>3, <1>4, <1>5 DEF Next, vars, files

\* Reading the first line begins the warm-up; reading another does not.
LEMMA FirstRead ==
  ASSUME TypeInv, ClockInv, SampleInv, DelayInv, FinalInv, IngestInv, ReadRequest \/ ReadSample
  PROVE  /\ first # None => first' = first
         /\ first = None => first' \in Beginnings
         /\ first' \in Nat
<1> USE Basics, SampleBasics, DelayAssumption, NoneAssumption
<1>1. CASE ReadRequest
  <2> DEFINE e == Handled(readRequests + 1)
  <2>1. readRequests < written /\ Ingest(e)
    BY <1>1 DEF ReadRequest, Handled
  <2>2. StampOf(e) = requests[readRequests + 1] /\ readRequests + 1 \in 1..Len(requests)
    BY <2>1 DEF StampOf, Handled
  <2>3. first' = IF first = None THEN requests[readRequests + 1] ELSE first
    BY <2>1, <2>2 DEF Ingest
  <2>4. CASE first = None
    <3>1. readRequests = 0 /\ Len(requests) >= 1 /\ requests[1] \in Nat
      BY <2>2, <2>4 DEF IngestInv
    <3> QED
      BY <2>3, <2>4, <3>1, BeginningsAre DEF BeginningsOf
  <2> QED
    BY <2>3, <2>4
<1>2. CASE ReadSample
  <2> DEFINE e == [source |-> "sampler", line |-> readSamples + 1]
  <2>1. readSamples < sampled /\ Ingest(e) /\ pc = "samples"
    BY <1>2 DEF ReadSample
  <2>2. StampOf(e) = samples[readSamples + 1] /\ readSamples + 1 \in 1..Len(samples)
    BY <2>1 DEF StampOf
  <2>3. first' = IF first = None THEN samples[readSamples + 1] ELSE first
    BY <2>1, <2>2 DEF Ingest
  <2>4. CASE first = None
    <3>1. readRequests = 0 /\ readSamples = 0 /\ Len(samples) >= 1
          /\ samples[1] \in Nat /\ samples[1] <= now
      BY <2>2, <2>4 DEF IngestInv, SampleInv
    <3>2. ASSUME Len(requests) >= 1
          PROVE  samples[1] <= requests[1] + WriteDelay + ReadDelay
      <4>1. 1 \in Unread /\ requests[1] \in Nat
        BY <3>1, <3>2 DEF Unread
      <4>2. timer <= requests[1] + WriteDelay /\ now <= timer + ReadDelay
        BY <2>1, <4>1 DEF DelayInv, FinalInv
      <4>3. /\ samples[1] \in Nat /\ now \in Nat /\ timer \in Nat
            /\ WriteDelay \in Nat /\ ReadDelay \in Nat
        BY <3>1
      <4> QED
        BY ONLY <3>1, <4>1, <4>2, <4>3
    <3> QED
      BY <2>3, <2>4, <3>1, <3>2, BeginningsAre DEF BeginningsOf
  <2> QED
    BY <2>3, <2>4
<1> QED
  BY <1>1, <1>2

\* What is kept is what is read.
LEMMA IngestNext ==
  ASSUME TypeInv, TypeInv', ClockInv, SampleInv, DelayInv, FinalInv, RowsInv, IngestInv,
         [Next]_vars
  PROVE  IngestInv'
<1> USE Basics, SampleBasics, NoneAssumption, DelayAssumption DEF IngestInv
<1>0. ASSUME first # None, first' = first PROVE first' \in Beginnings'
  BY <1>0, BeginningKept
<1>1. CASE StampRequest
  <2>1. /\ UNCHANGED <<first, readRequests, readSamples, buckets, ready, processed>>
        /\ Len(requests') = Len(requests) + 1
    BY <1>1, StampStep DEF inputs, scoring
  <2>2. \A i \in 1..Len(requests) :
          requests'[i] = requests[i] /\ (i \in Scorable' <=> i \in Scorable)
    BY <1>1, ScorableStamp
  <2>4. ASSUME NEW i \in Nat \ {0}
        PROVE  i \in Scorable /\ i <= readRequests <=> i \in Scorable' /\ i <= readRequests'
    <3>1. CASE i <= readRequests
      <4>1. i \in 1..Len(requests)
        BY <3>1
      <4> QED
        BY <2>1, <2>2, <4>1
    <3> QED
      BY <2>1, <3>1
  <2>5. \A i : Handled(i)' = Handled(i)
    BY DEF Handled
  <2> QED
    BY <1>0, <2>1, <2>4, <2>5
<1>2. CASE ReadRequest
  <2> DEFINE r == readRequests + 1
  <2>1. /\ readRequests < written /\ readRequests' = r /\ Ingest(Handled(r))
        /\ requests' = requests
    BY <1>2 DEF ReadRequest, Handled, files
  <2>2. r \in 1..Len(requests) /\ StampOf(Handled(r)) = requests[r]
    BY <2>1 DEF StampOf, Handled
  <2>3. /\ first' \in Nat /\ first' # None /\ first' \in Beginnings'
        /\ first # None => first' = first
    <3>1. /\ first' \in Nat /\ (first # None => first' = first)
          /\ first = None => first' \in Beginnings
      BY <1>2, FirstRead
    <3>2. first = None => first' \in Beginnings'
      BY <3>1, BeginningKept
    <3> QED
      BY <1>0, <3>1, <3>2
  <2>4. r \in Scorable' <=> ~ (StampOf(Handled(r)) < first' + Warmup)
    <3>1. /\ requests[r] \in Nat /\ first' \in Nat /\ Warmup \in Nat
          /\ StampOf(Handled(r)) = requests[r]
      BY <2>2, <2>3
    <3>2. r \in Scorable' <=> requests[r] >= first' + Warmup
      BY <2>1, <2>2, <2>3 DEF Scorable
    <3> HIDE DEF r
    <3> QED
      BY ONLY <3>1, <3>2
  <2>5. buckets' = IF r \in Scorable' THEN buckets \union {Handled(r)} ELSE buckets
    BY <2>1, <2>4 DEF Ingest
  <2>6. \A i \in Nat : Handled(i) = Handled(r) <=> i = r
    BY DEF Handled
  <2>7. \A i : Handled(i)' = Handled(i)
    BY DEF Handled
  <2>8. ASSUME NEW i \in Nat \ {0}
        PROVE  Handled(i) \in buckets' <=> i \in Scorable' /\ i <= r
    <3>1. Handled(i) \in buckets <=> i \in Scorable /\ i <= readRequests
      OBVIOUS
    <3>2. Handled(i) \in buckets' <=> Handled(i) \in buckets \/ (i = r /\ r \in Scorable')
      BY <2>5, <2>6
    <3>3. CASE first # None
      <4>1. Scorable' = Scorable
        BY <2>1, <2>3, <3>3 DEF Scorable
      <4> QED
        BY <3>1, <3>2, <4>1
    <3>4. CASE first = None
      <4>1. readRequests = 0 /\ buckets = {}
        BY <3>4
      <4> QED
        BY <3>2, <4>1
    <3> QED
      BY <3>3, <3>4
  <2> QED
    BY <2>1, <2>3, <2>7, <2>8
<1>3. CASE ReadSample
  <2> DEFINE e == [source |-> "sampler", line |-> readSamples + 1]
  <2>1. Ingest(e) /\ UNCHANGED <<requests, readRequests>>
    BY <1>3 DEF ReadSample, files
  <2>2. /\ first' \in Nat /\ first' # None /\ first' \in Beginnings'
        /\ first # None => first' = first
    <3>1. /\ first' \in Nat /\ (first # None => first' = first)
          /\ first = None => first' \in Beginnings
      BY <1>3, FirstRead
    <3>2. first = None => first' \in Beginnings'
      BY <3>1, BeginningKept
    <3> QED
      BY <1>0, <3>1, <3>2
  <2>3. \A i : Handled(i)' = Handled(i) /\ (Handled(i) \in buckets' <=> Handled(i) \in buckets)
    <3>1. buckets' = buckets \/ buckets' = buckets \union {e}
      BY <2>1 DEF Ingest
    <3>2. \A i : Handled(i)' = Handled(i) /\ Handled(i) # e
      <4>1. \A i : Handled(i).source = "gateway" /\ e.source = "sampler"
        BY DEF Handled
      <4> QED
        BY <4>1 DEF Handled
    <3> QED
      BY <3>1, <3>2
  <2>4. ASSUME NEW i \in Nat \ {0}
        PROVE  i \in Scorable' /\ i <= readRequests <=> i \in Scorable /\ i <= readRequests
    <3>1. CASE first # None
      BY <2>1, <2>2, <3>1 DEF Scorable
    <3>2. CASE first = None
      BY <3>2
    <3> QED
      BY <3>1, <3>2
  <2> QED
    BY <2>1, <2>2, <2>3, <2>4
<1>4. CASE /\ UNCHANGED <<requests, first, readRequests, readSamples, buckets>>
           /\ first = None => ready' \union processed' = {}
  BY <1>0, <1>4 DEF Scorable, Handled
<1>5. Environment => \/ StampRequest
                     \/ UNCHANGED <<requests, first, readRequests, readSamples, buckets,
                                    ready, processed>>
  BY DEF Environment, Tick, WriteRequest, StampSample, WriteSample, TouchDone, files, inputs,
         scoring
<1>6. Monitor => \/ ReadRequest \/ ReadSample
                 \/ UNCHANGED <<requests, first, readRequests, readSamples, buckets>>
  BY DEF Monitor, Start, EndOfRequests, ReadClock, Score, BelowThreshold,
         AboveThreshold, AppendFails, Processing, Pause, Wake, ScoreRest, OpenAlerts,
         WriteAlerts, WriteSummary, files, inputs
<1>7. Monitor => \/ ReadRequest \/ ReadSample
                 \/ ready' \union processed' \subseteq ready \union processed \union Unscored
  BY DEF Monitor, Start, EndOfRequests, ReadClock, Ready, Score, BelowThreshold,
         AboveThreshold, AppendFails, Processing, Pause, Wake, ScoreRest, OpenAlerts,
         WriteAlerts, WriteSummary, scoring
<1>8. first = None => Unscored = {}
  BY DEF Unscored
<1> QED
  BY <1>1, <1>2, <1>3, <1>4, <1>5, <1>6, <1>7, <1>8 DEF Next, vars, files, inputs, scoring

\* When the clock says that a window and the slack are over, no line of it is
\* still to be read; the clock is after the lines.
LEMMA SlackEnough ==
  ASSUME InTime, TypeInv, SampleInv, DelayInv, FinalInv, ReadClock, NEW w \in Ready
  PROVE  /\ w \in Nat /\ w + Window <= now
         /\ \A i \in Unread : w + Window <= requests[i]
         /\ \A k \in SamplesUnread : w + Window <= samples[k]
<1>1. w \in Nat /\ w + Window + Slack <= now
  BY UnscoredType DEF Ready
<1>t. /\ now \in Nat /\ timer \in Nat
      /\ Window \in Nat /\ Slack \in Nat /\ WriteDelay \in Nat /\ ReadDelay \in Nat
  BY Basics, SampleBasics, DelayAssumption, WindowAssumption
<1>2. pc = "samples" /\ ~final
  BY DEF ReadClock, FinalInv
<1>3. now <= timer + ReadDelay /\ WriteDelay + ReadDelay <= Slack
  BY <1>2 DEF DelayInv, InTime
<1>4. ASSUME NEW i \in Unread PROVE w + Window <= requests[i]
  <2>1. timer <= requests[i] + WriteDelay
    BY <1>2 DEF DelayInv
  <2>2. i \in 1..Len(requests)
    BY Basics, SampleBasics DEF Unread
  <2>3. requests[i] \in Nat
    BY <2>2, Basics, SampleBasics
  <2> QED
    BY <1>1, <1>t, <1>3, <2>1, <2>3
<1>5. w + Window <= now
  BY <1>1, <1>t
<1>6. ASSUME NEW k \in SamplesUnread PROVE w + Window <= samples[k]
  <2>1. readSamples = sampled
    BY DEF ReadClock
  <2>2. k = Len(samples) /\ sampled < Len(samples) /\ samples[k] \in Nat
    BY <2>1, Basics, SampleBasics DEF SamplesUnread, SampleInv
  <2>3. now <= samples[k] + WriteDelay
    BY <2>2 DEF SampleInv
  <2> QED
    BY ONLY <1>1, <1>t, <1>3, <2>2, <2>3
<1> QED
  BY <1>1, <1>4, <1>5, <1>6

\* What is scored is over.
LEMMA SettledNext ==
  ASSUME InTime, TypeInv, ClockInv, SampleInv, DelayInv, QuietInv, FinalInv, SettledInv,
         [Next]_vars
  PROVE  SettledInv'
<1> USE Basics, SampleBasics, DelayAssumption, WindowAssumption DEF SettledInv
<1>1. CASE Tick
  BY <1>1 DEF Tick, files, inputs, scoring, Unread, SamplesUnread
<1>2. CASE StampRequest
  <2>1. /\ Len(requests') = Len(requests) + 1 /\ requests'[Len(requests) + 1] = now
        /\ \A i \in 1..Len(requests) : requests'[i] = requests[i]
        /\ ~final
        /\ UNCHANGED <<now, final, ready, processed, readRequests, readSamples, samples>>
    BY <1>2, StampStep DEF FinalInv, inputs, scoring
  <2>2. ASSUME NEW i \in Unread'
        PROVE  (i = Len(requests) + 1 /\ requests'[i] = now)
               \/ (i \in Unread /\ requests'[i] = requests[i])
    BY <2>1 DEF Unread
  <2>3. \A w \in ready \union processed : w + Window <= now
    BY <2>1
  <2>4. ASSUME NEW w \in ready \union processed, NEW i \in Unread'
        PROVE  w + Window <= requests'[i]
    BY <2>2, <2>3
  <2>5. SamplesUnread' = SamplesUnread
    BY <2>1 DEF SamplesUnread
  <2> QED
    BY <2>1, <2>3, <2>4, <2>5
<1>3. CASE ReadRequest
  <2>1. /\ readRequests' = readRequests + 1
        /\ UNCHANGED <<now, requests, samples, readSamples, final, ready, processed>>
    BY <1>3 DEF ReadRequest, files, scoring
  <2>2. Unread' \subseteq Unread /\ SamplesUnread' = SamplesUnread
    BY <2>1 DEF Unread, SamplesUnread
  <2> QED
    BY <2>1, <2>2
<1>4. CASE ReadClock
  <2>1. /\ ready' = Ready
        /\ UNCHANGED <<now, requests, samples, readRequests, readSamples, final, processed>>
    BY <1>4 DEF ReadClock, files, inputs
  <2>2. Unread' = Unread /\ SamplesUnread' = SamplesUnread
    BY <2>1 DEF Unread, SamplesUnread
  <2>3. ASSUME NEW w \in Ready
        PROVE  /\ w + Window <= now
               /\ \A i \in Unread : w + Window <= requests[i]
               /\ \A k \in SamplesUnread : w + Window <= samples[k]
    BY <1>4, SlackEnough
  <2>4. \A w \in ready' \union processed' :
          /\ \A i \in Unread' : w + Window <= requests'[i]
          /\ ~final => w + Window <= now /\ \A k \in SamplesUnread' : w + Window <= samples'[k]
    <3> SUFFICES ASSUME NEW w \in Ready \union processed
                 PROVE  /\ \A i \in Unread : w + Window <= requests[i]
                        /\ ~final => /\ w + Window <= now
                                     /\ \A k \in SamplesUnread : w + Window <= samples[k]
      BY <2>1, <2>2
    <3>1. CASE w \in Ready
      BY ONLY <2>3, <3>1
    <3>2. CASE w \in processed
      BY <3>2
    <3> QED
      BY <3>1, <3>2
  <2> QED
    BY <2>1, <2>4
<1>5. CASE ScoreRest
  <2>1. Unread = {} /\ final' /\ UNCHANGED <<requests, readRequests>>
    BY <1>5, DrainedInTime DEF ScoreRest, files
  <2> QED
    BY <2>1 DEF Unread
<1>6. CASE /\ UNCHANGED <<now, requests, samples, readRequests, readSamples, final>>
           /\ ready' \union processed' \subseteq ready \union processed
  BY <1>6 DEF Unread, SamplesUnread
<1>7. Environment =>
        \/ Tick \/ StampRequest \/ StampSample
        \/ UNCHANGED <<now, requests, samples, readRequests, readSamples, final, ready,
                       processed>>
  BY DEF Environment, WriteRequest, WriteSample, TouchDone, inputs, scoring
<1>8. ASSUME NEW w \in ready, Score(w)
      PROVE  /\ UNCHANGED <<now, requests, samples, readRequests, readSamples, final>>
             /\ ready' \union processed' \subseteq ready \union processed
  BY <1>8 DEF Score, BelowThreshold, AboveThreshold, AppendFails, Processing, files, inputs
<1>9. \/ Start \/ EndOfRequests \/ Pause \/ Wake \/ OpenAlerts \/ WriteAlerts \/ WriteSummary
      => UNCHANGED <<now, requests, samples, readRequests, readSamples, final, ready,
                     processed>>
  BY DEF Start, EndOfRequests, Pause, Wake, OpenAlerts, WriteAlerts, WriteSummary, files,
         inputs, scoring
<1>10. CASE UNCHANGED vars
  BY <1>6, <1>10 DEF vars, files, inputs, scoring
<1>11. CASE StampSample
  <2>1. /\ Len(samples') = Len(samples) + 1 /\ samples'[Len(samples) + 1] = now
        /\ \A k \in 1..Len(samples) : samples'[k] = samples[k]
        /\ UNCHANGED <<now, requests, final, ready, processed, readRequests, readSamples>>
    BY <1>11, SampleStep DEF inputs, scoring
  <2>2. ASSUME NEW k \in SamplesUnread'
        PROVE  (k = Len(samples) + 1 /\ samples'[k] = now)
               \/ (k \in SamplesUnread /\ samples'[k] = samples[k])
    BY <2>1 DEF SamplesUnread
  <2>3. \A w \in ready \union processed : ~final => w + Window <= now
    BY <2>1
  <2>4. ASSUME NEW w \in ready \union processed, NEW k \in SamplesUnread', ~final
        PROVE  w + Window <= samples'[k]
    BY <2>2, <2>3, <2>4
  <2>5. Unread' = Unread
    BY <2>1 DEF Unread
  <2> QED
    BY <2>1, <2>3, <2>4, <2>5
<1>12. CASE ReadSample
  <2>1. /\ readSamples' = readSamples + 1
        /\ UNCHANGED <<now, requests, samples, readRequests, final, ready, processed>>
    BY <1>12 DEF ReadSample, files, scoring
  <2>2. SamplesUnread' \subseteq SamplesUnread /\ Unread' = Unread
    BY <2>1 DEF Unread, SamplesUnread
  <2> QED
    BY <2>1, <2>2
<1> QED
  BY <1>1, <1>2, <1>3, <1>4, <1>5, <1>6, <1>7, <1>8, <1>9, <1>10, <1>11, <1>12
     DEF Next, Monitor

-----------------------------------------------------------------------------
(* The rows *)

\* All the requests of a window are kept when it is scored, and they alone are
\* counted if there are any.
LEMMA CountedExact ==
  ASSUME TypeInv, IngestInv, SettledInv, NEW w \in ready
  PROVE  IF RequestsOf(w) # {} THEN Counted(w) = RequestsOf(w)
                               ELSE \A e \in Counted(w) : e.source = "sampler"
<1> USE Basics
<1> DEFINE handled == {e \in buckets : e.source = "gateway" /\ StartOf(StampOf(e)) = w}
<1>1. Counted(w) = IF handled # {} THEN handled
                                   ELSE {e \in buckets : StartOf(StampOf(e)) = w}
  BY DEF Counted
<1>2. ASSUME NEW e \in buckets, e.source = "gateway"
      PROVE  e.line \in Scorable /\ e = Handled(e.line) /\ StampOf(e) = requests[e.line]
  <2>1. e.line \in Nat \ {0} /\ e = Handled(e.line)
    BY <1>2 DEF Event, Handled
  <2> QED
    BY <1>2, <2>1 DEF IngestInv, StampOf
<1>3. ASSUME NEW j \in Scorable, StartOf(requests[j]) = w
      PROVE  Handled(j) \in buckets /\ Handled(j).source = "gateway"
             /\ StampOf(Handled(j)) = requests[j]
  <2>1. j \in 1..Len(requests) /\ requests[j] \in Nat
    BY DEF Scorable
  <2>2. j <= readRequests
    <3> SUFFICES ASSUME ~ (j <= readRequests) PROVE FALSE
      OBVIOUS
    <3>1. j \in Unread
      BY <2>1 DEF Unread
    <3>2. w + Window <= requests[j]
      BY <3>1 DEF SettledInv
    <3>3. w \in Nat /\ requests[j] < w + Window
      BY <1>3, <2>1, StartType
    <3> QED
      BY <2>1, <3>2, <3>3, WindowAssumption
  <2>3. Handled(j) \in buckets
    BY <2>1, <2>2 DEF IngestInv
  <2> QED
    BY <2>3 DEF Handled, StampOf
<1>4. handled \subseteq RequestsOf(w)
  BY <1>2 DEF RequestsOf
<1>5. RequestsOf(w) \subseteq handled
  BY <1>3 DEF RequestsOf
<1>6. \A e \in buckets : e.source # "gateway" => e.source = "sampler"
  BY DEF Event
<1> QED
  BY <1>1, <1>4, <1>5, <1>6

\* What a step of scoring does to the rows.
LEMMA ScoreStep ==
  ASSUME NEW w \in ready, Score(w)
  PROVE  /\ ready' = ready \ {w} /\ processed' = processed \union {w}
         /\ rows' = rows \union {[window |-> w, requests |-> Counted(w)]}
         /\ pc = "score" /\ pc' \in {"score", "dead"}
         /\ \A v \in ready : w <= v
         /\ chain' = chain \/ chain' = Append(chain, w)
         /\ UNCHANGED <<requests, samples, first, readRequests, readSamples, final, buckets>>
BY DEF Score, BelowThreshold, AboveThreshold, AppendFails, Processing, InTurn,
       files, inputs

\* No request is handled in a window that has been taken.
LEMMA SettledStamp ==
  ASSUME TypeInv, FinalInv, SettledInv, StampRequest, NEW w \in ready \union processed
  PROVE  RequestsOf(w)' = RequestsOf(w)
<1> USE Basics, WindowAssumption
<1>a. /\ Len(requests') = Len(requests) + 1 /\ requests'[Len(requests) + 1] = now
      /\ doneAt # None => now <= doneAt + Drain
  BY StampStep
<1>b. final => doneAt # None /\ doneAt \in Nat /\ doneAt + Drain < now
  BY DEF FinalInv
<1>c. ~final
  BY <1>a, <1>b, DelayAssumption
<1>1. /\ Len(requests') = Len(requests) + 1 /\ requests'[Len(requests) + 1] = now
      /\ ~final
  BY <1>a, <1>c
<1>2. w \in Nat /\ w + Window <= now
  BY <1>1 DEF SettledInv
<1>3. StartOf(now) # w
  <2>1. /\ now \in Nat /\ Window \in Nat /\ StartOf(now) \in Nat
        /\ now < StartOf(now) + Window
    BY StartType
  <2> QED
    BY ONLY <1>2, <2>1
<1>4. ASSUME NEW i
      PROVE  i \in Scorable' /\ StartOf(requests'[i]) = w
             <=> i \in Scorable /\ StartOf(requests[i]) = w
  <2>1. CASE i \in 1..Len(requests)
    BY <2>1, ScorableStamp
  <2>2. CASE i = Len(requests) + 1
    BY <1>1, <1>3, <2>2 DEF Scorable
  <2>3. CASE i \notin 1..Len(requests')
    <3>1. i \notin Scorable' /\ i \notin Scorable
      BY <1>1, <2>3 DEF Scorable
    <3> QED
      BY <3>1
  <2> QED
    BY <1>1, <2>1, <2>2, <2>3
<1>5. {j \in Scorable' : StartOf(requests'[j]) = w} =
      {j \in Scorable : StartOf(requests[j]) = w}
  BY <1>4
<1>6. RequestsOf(w)' = {Handled(i) : i \in {j \in Scorable' : StartOf(requests'[j]) = w}}
  BY DEF RequestsOf, Handled, StartOf
<1> QED
  BY <1>5, <1>6 DEF RequestsOf

\* Every row is made once and for all.
LEMMA ExactNext ==
  ASSUME TypeInv, ClockInv, SampleInv, DelayInv, FinalInv, IngestInv, SettledInv, RowsInv,
         ExactInv, [Next]_vars
  PROVE  ExactInv'
<1>1. CASE StampRequest
  <2>1. rows' = rows
    BY <1>1, StampStep DEF scoring
  <2>2. ASSUME NEW row \in rows PROVE RequestsOf(row.window)' = RequestsOf(row.window)
    BY <1>1, SettledStamp DEF RowsInv
  <2> QED
    BY <2>1, <2>2 DEF ExactInv
<1>2. ASSUME NEW w \in ready, Score(w) PROVE ExactInv'
  <2>1. /\ UNCHANGED <<requests, first>>
        /\ rows' = rows \union {[window |-> w, requests |-> Counted(w)]}
    BY <1>2, ScoreStep
  <2>2. \A v : RequestsOf(v)' = RequestsOf(v)
    BY <2>1 DEF RequestsOf, Scorable, Handled, StartOf
  <2> QED
    BY <2>1, <2>2, CountedExact DEF ExactInv
<1>3. CASE UNCHANGED <<requests, rows, first>>
  BY <1>3 DEF ExactInv, RequestsOf, Scorable, Handled, StartOf
<1>4. Environment => StampRequest \/ UNCHANGED <<requests, rows, first>>
  BY DEF Environment, Tick, WriteRequest, StampSample, WriteSample, TouchDone, files, inputs,
         scoring
<1>5. \/ Start \/ EndOfRequests \/ ReadClock \/ Pause \/ Wake
      \/ ScoreRest \/ OpenAlerts \/ WriteAlerts \/ WriteSummary
      => UNCHANGED <<requests, rows, first>>
  BY DEF Start, EndOfRequests, ReadClock, Pause, Wake, ScoreRest, OpenAlerts, WriteAlerts,
         WriteSummary, files, inputs, scoring
<1>6. CASE ReadRequest \/ ReadSample
  <2>1. UNCHANGED <<requests, rows>>
    BY <1>6 DEF ReadRequest, ReadSample, files, scoring
  <2>2. CASE first # None
    BY <1>3, <1>6, <2>1, <2>2, FirstRead
  <2>3. CASE first = None
    <3>1. rows' = {}
      BY <2>1, <2>3 DEF IngestInv, RowsInv
    <3> QED
      BY <3>1 DEF ExactInv
  <2> QED
    BY <2>2, <2>3
<1> QED
  BY <1>1, <1>2, <1>3, <1>4, <1>5, <1>6 DEF Next, Monitor, vars, files, inputs, scoring

\* A window that has requests gets its row when it is taken.
LEMMA RowsNext ==
  ASSUME InTime, TypeInv, ClockInv, SampleInv, DelayInv, QuietInv, FinalInv, IngestInv,
         SettledInv, RowsInv, [Next]_vars
  PROVE  RowsInv'
<1> USE Basics DEF RowsInv
<1>1. CASE StampRequest
  <2>1. /\ Len(requests') = Len(requests) + 1 /\ ~final
        /\ UNCHANGED <<pc, ready, rows, processed, readRequests, final>>
    BY <1>1, StampStep, DelayAssumption, NoneAssumption DEF FinalInv, inputs, scoring
  <2>2. ASSUME NEW i \in Scorable', i <= readRequests, StartOf(requests'[i]) \in processed
        PROVE  \E row \in rows : row.window = StartOf(requests'[i])
    <3>1. i \in 1..Len(requests)
      BY <2>1, <2>2 DEF Scorable
    <3>2. requests'[i] = requests[i] /\ i \in Scorable
      BY <1>1, <2>2, <3>1, ScorableStamp
    <3> QED
      BY <2>2, <3>2
  <2> QED
    BY <2>1, <2>2 DEF StartOf
<1>2. CASE ReadRequest
  <2>1. /\ pc = "requests" /\ readRequests < written /\ readRequests' = readRequests + 1
        /\ UNCHANGED <<pc, requests, ready, rows, processed, final>>
    BY <1>2 DEF ReadRequest, files, scoring
  <2>2. ~final
    BY <2>1 DEF FinalInv
  <2>3. ASSUME NEW i \in Scorable', i = readRequests + 1
        PROVE  StartOf(requests[i]) \notin processed
    <3>1. i \in Unread /\ requests[i] \in Nat
      BY <2>1, <2>3 DEF Unread, Scorable
    <3>2. \A w \in processed : w \in Nat /\ w + Window <= requests[i]
      BY <3>1 DEF SettledInv
    <3>3. StartOf(requests[i]) \in Nat /\ requests[i] < StartOf(requests[i]) + Window
      BY <3>1, StartType
    <3> QED
      BY <3>1, <3>2, <3>3, WindowAssumption
  <2>4. \A i \in Scorable' :
          i \in Nat /\ (i <= readRequests' => i <= readRequests \/ i = readRequests + 1)
    BY <2>1 DEF Scorable
  <2>5. CASE first # None
    <3>1. Scorable' = Scorable
      BY <1>2, <2>1, <2>5, FirstRead DEF Scorable
    <3> QED
      BY <2>1, <2>2, <2>3, <2>4, <3>1 DEF StartOf
  <2>6. CASE first = None
    <3>1. processed = {} /\ ready = {}
      BY <2>6 DEF IngestInv
    <3> QED
      BY <2>1, <2>2, <3>1
  <2> QED
    BY <2>5, <2>6
<1>3. CASE ReadClock
  <2>1. /\ pc' = "score" /\ ~final
        /\ UNCHANGED <<requests, first, readRequests, rows, processed, final>>
    BY <1>3 DEF ReadClock, FinalInv, files, inputs
  <2> QED
    BY <2>1 DEF Scorable, StartOf
<1>4. ASSUME NEW w \in ready, Score(w) PROVE RowsInv'
  <2>1. /\ ready' = ready \ {w} /\ processed' = processed \union {w}
        /\ rows' = rows \union {[window |-> w, requests |-> Counted(w)]}
        /\ pc = "score" /\ pc' \in {"score", "dead"}
        /\ UNCHANGED <<requests, first, readRequests, final>>
    BY <1>4, ScoreStep
  <2>2. Scorable' = Scorable /\ (\A t : StartOf(t)' = StartOf(t))
    BY <2>1 DEF Scorable, StartOf
  <2>3. \A row \in rows' : row.window \in processed'
    BY <2>1
  <2>4. ASSUME NEW i \in Scorable, i <= readRequests, StartOf(requests[i]) \in processed'
        PROVE  \E row \in rows' : row.window = StartOf(requests[i])
    <3>1. CASE StartOf(requests[i]) \in processed
      BY <2>1, <2>4, <3>1
    <3>2. CASE StartOf(requests[i]) = w
      <4>1. [window |-> w, requests |-> Counted(w)] \in rows'
        BY <2>1
      <4> QED
        BY <3>2, <4>1
    <3> QED
      BY <2>1, <2>4, <3>1, <3>2
  <2>5. ready' \union processed' = ready \union processed
    BY <2>1
  <2>6. (pc' # "dead" => pc # "dead") /\ pc' \in {"score", "dead"}
    BY <2>1
  <2> QED
    BY <2>1, <2>2, <2>3, <2>4, <2>5, <2>6 DEF StartOf
<1>5. CASE ScoreRest
  <2>1. /\ Unread = {} /\ ready' = Unscored /\ pc = "score"
        /\ UNCHANGED <<pc, requests, first, readRequests, rows, processed>>
    BY <1>5, DrainedInTime DEF ScoreRest, files
  <2>2. ASSUME NEW i \in Scorable PROVE StartOf(requests[i]) \in Unscored \union processed
    <3>1. i \in 1..Len(requests) /\ i <= readRequests
      <4>1. i \in 1..Len(requests)
        BY DEF Scorable
      <4>2. i \notin (readRequests + 1)..Len(requests)
        BY <2>1 DEF Unread
      <4> QED
        BY <4>1, <4>2
    <3>2. Handled(i) \in buckets /\ StampOf(Handled(i)) = requests[i]
      BY <3>1 DEF IngestInv, StampOf, Handled
    <3> QED
      BY <3>2 DEF Unscored
  <2>3. Scorable' = Scorable
    BY <2>1 DEF Scorable
  <2> QED
    BY <2>1, <2>2, <2>3 DEF StartOf
<1>6. CASE /\ UNCHANGED <<requests, first, readRequests, rows, processed, ready, final>>
           /\ pc' = pc \/ (pc' # "dead" /\ pc # "dead" /\ ready = {})
  BY <1>6 DEF Scorable, StartOf
<1>7. Environment =>
        \/ StampRequest
        \/ UNCHANGED <<requests, first, readRequests, rows, processed, ready, final, pc>>
  BY DEF Environment, Tick, WriteRequest, StampSample, WriteSample, TouchDone, files, inputs,
         scoring
<1>8. CASE ReadSample
  <2>1. /\ UNCHANGED <<requests, readRequests, rows, processed, ready, final, pc>>
        /\ pc = "samples" /\ ~final
    BY <1>8 DEF ReadSample, FinalInv, files, scoring
  <2>2. CASE first # None
    <3>1. Scorable' = Scorable
      BY <1>8, <2>1, <2>2, FirstRead DEF Scorable
    <3> QED
      BY <2>1, <3>1 DEF StartOf
  <2>3. CASE first = None
    <3>1. processed = {} /\ ready = {}
      BY <2>3 DEF IngestInv
    <3> QED
      BY <2>1, <3>1
  <2> QED
    BY <2>2, <2>3
<1>9. Start \/ EndOfRequests \/ Wake \/ Pause \/ OpenAlerts \/ WriteAlerts \/ WriteSummary =>
        /\ UNCHANGED <<requests, first, readRequests, rows, processed, ready, final>>
        /\ pc # "dead" /\ pc' # "dead" /\ (pc = "score" => ready = {})
  BY DEF Start, EndOfRequests, Wake, Pause, OpenAlerts, WriteAlerts, WriteSummary, files,
         inputs, scoring
<1>10. CASE UNCHANGED vars
  BY <1>6, <1>10 DEF vars, files, inputs, scoring
<1> QED
  BY <1>1, <1>2, <1>3, <1>4, <1>5, <1>6, <1>7, <1>8, <1>9, <1>10 DEF Next, Monitor

-----------------------------------------------------------------------------
(* The theorems *)

\* The invariant holds at first.
LEMMA IInvInit == Init => IInv
<1> SUFFICES ASSUME Init PROVE IInv
  OBVIOUS
<1>1. TypeInv
  BY TypeInit
<1>2. /\ Len(requests) = 0 /\ written = 0 /\ Len(samples) = 0 /\ sampled = 0
      /\ readRequests = 0 /\ readSamples = 0 /\ buckets = {} /\ ready = {} /\ processed = {}
      /\ rows = {} /\ first = None /\ ~final /\ ~done /\ doneAt = None /\ quiet = 0
      /\ pc = "start"
  BY EmptySeq DEF Init
<1>3. ClockInv /\ SampleInv
  BY <1>2 DEF ClockInv, SampleInv
<1>4. Scorable = {}
  BY <1>2 DEF Scorable
<1>5. IngestInv /\ RowsInv /\ ExactInv
  BY <1>2, <1>4 DEF IngestInv, RowsInv, ExactInv
<1>6. DelayInv /\ QuietInv /\ FinalInv /\ SettledInv
  BY <1>2 DEF DelayInv, QuietInv, FinalInv, SettledInv
<1> QED
  BY <1>1, <1>3, <1>5, <1>6 DEF IInv

\* Every step keeps the invariant, if the delays are in time.
LEMMA IInvNext ==
  ASSUME InTime
  PROVE  IInv /\ [Next]_vars => IInv'
<1> SUFFICES ASSUME IInv, [Next]_vars PROVE IInv'
  OBVIOUS
<1>1. /\ TypeInv /\ ClockInv /\ SampleInv /\ DelayInv /\ QuietInv /\ FinalInv
      /\ IngestInv /\ SettledInv /\ RowsInv /\ ExactInv
  BY DEF IInv
<1>2. TypeInv' /\ ClockInv' /\ SampleInv' /\ DelayInv' /\ QuietInv'
  BY <1>1, TypeNext, ClockNext, SampleNext, DelayNext, QuietNext
<1>3. FinalInv' /\ IngestInv' /\ SettledInv'
  BY <1>1, <1>2, FinalNext, IngestNext, SettledNext
<1>4. RowsInv' /\ ExactInv'
  BY <1>1, RowsNext, ExactNext
<1> QED
  BY <1>2, <1>3, <1>4 DEF IInv

\* The warm-up has begun with the first line, whatever it was
\* (guest-online-monitor.py:84-88).
LEMMA BegunWith ==
  ASSUME IInv, first # None
  PROVE  /\ first \in Beginnings /\ After(first) = Scorable
         /\ \A w : Due(first, w) = RequestsOf(w)
<1>1. first \in Beginnings /\ DOMAIN requests = 1..Len(requests)
  BY Basics DEF IInv, IngestInv
<1>2. After(first) = Scorable
  BY <1>1 DEF After, Scorable
<1> QED
  BY <1>1, <1>2 DEF Due, RequestsOf

\* If the delays are in time, a row is made of exactly the requests of its
\* window after the warm-up, or of samples if there are none
\* (guest-online-monitor.py:95-107).
THEOREM RowsCorrect ==
  ASSUME InTime
  PROVE  Spec => []RowsExact
<1>1. ASSUME IInv PROVE RowsExact
  <2> SUFFICES ASSUME rows # {}
               PROVE  \E begin \in Beginnings : \A row \in rows :
                        IF Due(begin, row.window) # {}
                        THEN row.requests = Due(begin, row.window)
                        ELSE \A e \in row.requests : e.source = "sampler"
    BY DEF RowsExact
  <2>1. first # None
    BY <1>1 DEF IInv, IngestInv, RowsInv
  <2>2. first \in Beginnings /\ \A w : Due(first, w) = RequestsOf(w)
    BY <1>1, <2>1, BegunWith
  <2>3. \A row \in rows :
          IF Due(first, row.window) # {}
          THEN row.requests = Due(first, row.window)
          ELSE \A e \in row.requests : e.source = "sampler"
    BY <1>1, <2>2 DEF IInv, ExactInv
  <2> QED
    BY <2>2, <2>3
<1> QED
  BY IInvInit, IInvNext, <1>1, PTL DEF Spec

\* If the delays are in time, every request after the warm-up is in a row when
\* the loop has ended (guest-online-monitor.py:133-142).
THEOREM NothingIsMissed ==
  ASSUME InTime
  PROVE  Spec => []EveryRequestScored
<1>1. ASSUME IInv PROVE EveryRequestScored
  <2> SUFFICES ASSUME pc \in {"write", "summary", "ended"}, requests # << >>
               PROVE  \E begin \in Beginnings : \A i \in After(begin) :
                        \E row \in rows : Handled(i) \in row.requests
    BY DEF EveryRequestScored
  <2>1. final /\ ready = {} /\ Unread = {} /\ pc # "dead"
    BY <1>1 DEF IInv, FinalInv
  <2>2. /\ readRequests \in Nat /\ Len(requests) \in Nat /\ Len(requests) # 0
        /\ TypeInv
    BY <1>1, Basics, EmptySeq DEF IInv
  <2>3. \A i \in 1..Len(requests) : i <= readRequests
    <3>1. \A i \in 1..Len(requests) : i \notin (readRequests + 1)..Len(requests)
      BY <2>1 DEF Unread
    <3> QED
      BY <2>2, <3>1
  <2>4. first # None
    <3>1. readRequests # 0
      BY <2>2, <2>3
    <3> QED
      BY <1>1, <3>1 DEF IInv, IngestInv
  <2>5. first \in Beginnings /\ After(first) = Scorable
    BY <1>1, <2>4, BegunWith
  <2>6. ASSUME NEW i \in Scorable
        PROVE  \E row \in rows : Handled(i) \in row.requests
    <3>1. i \in 1..Len(requests) /\ i <= readRequests
      BY <2>3 DEF Scorable
    <3>2. PICK row \in rows : row.window = StartOf(requests[i])
      BY <1>1, <2>1, <3>1 DEF IInv, RowsInv
    <3>3. Handled(i) \in RequestsOf(row.window)
      BY <3>2 DEF RequestsOf
    <3> QED
      BY <1>1, <3>3 DEF IInv, ExactInv
  <2> QED
    BY <2>5, <2>6
<1> QED
  BY IInvInit, IInvNext, <1>1, PTL DEF Spec

-----------------------------------------------------------------------------
(* The order of the chain *)

\* The windows taken, those ready and those still to come follow each other.
OrderInv ==
  /\ ready \subseteq Unscored
  /\ \A v \in Unscored, w \in processed : w < v
  /\ \A v \in Unscored \ ready, w \in ready : w < v
  /\ \A k \in DOMAIN chain : chain[k] \in processed
  /\ ChainInOrder

\* A line that is read is of a window after all that have been taken
\* (guest-online-monitor.py:91-97).
LEMMA ReadLater ==
  ASSUME IInv, IInv', ReadRequest \/ ReadSample, NEW v \in Unscored' \ Unscored,
         NEW w \in processed
  PROVE  w < v
<1> USE Basics, SampleBasics
<1>i. TypeInv /\ SettledInv /\ FinalInv /\ TypeInv'
  BY DEF IInv
<1>p. UNCHANGED <<requests, samples, processed>> /\ w \in Nat /\ ~final
  BY <1>i DEF ReadRequest, ReadSample, FinalInv, files, scoring
<1>s. \A e : StampOf(e)' = StampOf(e) /\ StartOf(StampOf(e))' = StartOf(StampOf(e))
  BY <1>p DEF StampOf, StartOf
<1>1. PICK e \in buckets' : v = StartOf(StampOf(e)) /\ v \notin processed
  BY <1>p, <1>s DEF Unscored
<1>2. e \notin buckets
  BY <1>1 DEF Unscored
<1>3. StampOf(e) \in Nat /\ w + Window <= StampOf(e)
  <2>1. CASE ReadRequest
    <3>1. e = [source |-> "gateway", line |-> readRequests + 1] /\ readRequests < written
      BY <1>2, <2>1 DEF ReadRequest, Ingest
    <3>2. StampOf(e) = requests[readRequests + 1] /\ readRequests + 1 \in Unread
      BY <1>i, <3>1 DEF StampOf, Unread
    <3>3. readRequests + 1 \in 1..Len(requests)
      BY <1>i, <3>1
    <3> QED
      BY <1>i, <3>2, <3>3 DEF SettledInv
  <2>2. CASE ReadSample
    <3>1. e = [source |-> "sampler", line |-> readSamples + 1] /\ readSamples < sampled
      BY <1>2, <2>2 DEF ReadSample, Ingest
    <3>2. StampOf(e) = samples[readSamples + 1] /\ readSamples + 1 \in SamplesUnread
      BY <1>i, <3>1 DEF StampOf, SamplesUnread
    <3>3. readSamples + 1 \in 1..Len(samples)
      BY <1>i, <3>1
    <3> QED
      BY <1>i, <1>p, <3>2, <3>3 DEF SettledInv
  <2> QED
    BY <2>1, <2>2
<1>4. StartOf(StampOf(e)) \in Nat /\ StampOf(e) < StartOf(StampOf(e)) + Window
  BY <1>3, StartType
<1> QED
  BY <1>1, <1>3, <1>4, <1>p, WindowAssumption

\* Steps keep the windows in order.
LEMMA OrderNext ==
  ASSUME InTime, IInv, IInv', OrderInv, [Next]_vars
  PROVE  OrderInv'
<1>i. TypeInv /\ RowsInv /\ TypeInv'
  BY DEF IInv
<1>b. /\ now \in Nat /\ ready \subseteq Nat /\ processed \subseteq Nat
      /\ Unscored \subseteq Nat /\ chain \in Seq(Nat)
  BY <1>i, Basics, SampleBasics, UnscoredType DEF TypeInv, TypeOK, Time
<1>1. CASE StampRequest \/ StampSample
  <2>1. UNCHANGED <<ready, processed, chain, buckets, readRequests, readSamples>>
    BY <1>1 DEF StampRequest, StampSample, inputs, scoring
  <2>2. \A e \in buckets : StampOf(e)' = StampOf(e)
    <3> SUFFICES ASSUME NEW e \in buckets PROVE StampOf(e)' = StampOf(e)
      OBVIOUS
    <3>1. /\ e.line \in Nat \ {0} /\ e.source \in {"gateway", "sampler"}
          /\ e.line <= (IF e.source = "gateway" THEN readRequests ELSE readSamples)
      BY <1>i, Basics, SampleBasics DEF TypeInv, KeptInv, Event
    <3>2. /\ readRequests \in Nat /\ readRequests <= Len(requests) /\ Len(requests) \in Nat
          /\ readSamples \in Nat /\ readSamples <= Len(samples) /\ Len(samples) \in Nat
      BY <1>i, Basics, SampleBasics
    <3>3. /\ \A i \in 1..Len(requests) : requests'[i] = requests[i]
          /\ \A k \in 1..Len(samples) : samples'[k] = samples[k]
      BY <1>1, <1>i, StampStep, SampleStep
    <3> QED
      BY <3>1, <3>2, <3>3 DEF StampOf
  <2>3. Unscored' = Unscored
    BY <2>1, <2>2 DEF Unscored, StartOf
  <2> QED
    BY <2>1, <2>3 DEF OrderInv, ChainInOrder
<1>2. CASE ReadRequest \/ ReadSample
  <2>1. UNCHANGED <<requests, samples, processed, ready, chain>> /\ ready = {}
    BY <1>2, <1>i DEF ReadRequest, ReadSample, RowsInv, files, scoring
  <2>2. \A v \in Unscored' \ Unscored, w \in processed : w < v
    BY <1>2, ReadLater
  <2> QED
    BY <2>1, <2>2 DEF OrderInv, ChainInOrder
<1>3. ASSUME ReadClock \/ ScoreRest
      PROVE  OrderInv'
  <2>1. /\ UNCHANGED <<requests, samples, buckets, processed, chain>>
        /\ ready' = Ready \/ ready' = Unscored
    BY <1>3 DEF ReadClock, ScoreRest, files, inputs
  <2>2. Unscored' = Unscored /\ ready' \subseteq Unscored
    BY <2>1 DEF Unscored, StampOf, StartOf, Ready
  <2>3. \A v \in Unscored \ Ready, w \in Ready : w < v
    <3>1. Window \in Nat /\ Slack \in Nat
      BY WindowAssumption, DelayAssumption
    <3> QED
      BY <1>b, <3>1 DEF Ready
  <2> QED
    BY <2>1, <2>2, <2>3 DEF OrderInv, ChainInOrder
<1>4. ASSUME NEW w \in ready, Score(w)
      PROVE  OrderInv'
  <2>1. /\ ready' = ready \ {w} /\ processed' = processed \union {w}
        /\ UNCHANGED <<requests, samples, buckets>>
        /\ \A v \in ready : w <= v
        /\ chain' = chain \/ chain' = Append(chain, w)
    BY <1>4, ScoreStep
  <2>2. Unscored' = Unscored \ {w}
    BY <2>1 DEF Unscored, StampOf, StartOf
  <2>3. \A v \in processed : v < w
    BY DEF OrderInv
  <2>4. \A v \in Unscored \ {w} : w < v
    <3>1. \A v \in ready \ {w} : w < v
      BY <1>b, <2>1
    <3> QED
      BY <3>1 DEF OrderInv
  <2>5. (\A k \in DOMAIN chain' : chain'[k] \in processed') /\ ChainInOrder'
    <3>1. CASE chain' = chain
      BY <2>1, <3>1 DEF OrderInv, ChainInOrder
    <3>2. CASE chain' = Append(chain, w)
      <4>1. /\ Len(chain) \in Nat /\ DOMAIN chain = 1..Len(chain)
            /\ DOMAIN chain' = 1..(Len(chain) + 1) /\ chain'[Len(chain) + 1] = w
            /\ \A k \in 1..Len(chain) : chain'[k] = chain[k]
        BY <1>b, <3>2
      <4>2. \A k \in 1..Len(chain) : chain[k] \in processed /\ chain[k] < w
        BY <2>3, <4>1 DEF OrderInv
      <4>3. \A k \in DOMAIN chain' : chain'[k] \in processed'
        BY <2>1, <4>1, <4>2
      <4>4. ASSUME NEW j \in DOMAIN chain', NEW k \in DOMAIN chain', j < k
            PROVE  chain'[j] < chain'[k]
        <5>1. j \in 1..Len(chain)
          BY <4>1, <4>4
        <5>2. CASE k = Len(chain) + 1
          BY <4>1, <4>2, <5>1, <5>2
        <5>3. CASE k \in 1..Len(chain)
          BY <4>1, <4>4, <5>1, <5>3 DEF OrderInv, ChainInOrder
        <5> QED
          BY <4>1, <5>2, <5>3
      <4> QED
        BY <4>3, <4>4 DEF ChainInOrder
    <3> QED
      BY <2>1, <3>1, <3>2
  <2>6. ready' \subseteq Unscored' /\ Unscored' \ ready' = Unscored \ ready
    BY <2>1, <2>2 DEF OrderInv
  <2>7. /\ \A v \in Unscored', u \in processed' : u < v
        /\ \A v \in Unscored' \ ready', u \in ready' : u < v
    BY <2>1, <2>2, <2>4, <2>6 DEF OrderInv
  <2> QED
    BY <2>5, <2>6, <2>7 DEF OrderInv
<1>5. CASE UNCHANGED <<requests, samples, buckets, ready, processed, chain>>
  BY <1>5 DEF OrderInv, ChainInOrder, Unscored, StampOf, StartOf
<1>6. Environment => \/ StampRequest \/ StampSample
                     \/ UNCHANGED <<requests, samples, buckets, ready, processed, chain>>
  BY DEF Environment, Tick, WriteRequest, WriteSample, TouchDone, files, inputs, scoring
<1>7. \/ Start \/ EndOfRequests \/ Pause \/ Wake \/ OpenAlerts \/ WriteAlerts \/ WriteSummary
      => UNCHANGED <<requests, samples, buckets, ready, processed, chain>>
  BY DEF Start, EndOfRequests, Pause, Wake, OpenAlerts, WriteAlerts, WriteSummary, files,
         inputs, scoring
<1>8. UNCHANGED vars => UNCHANGED <<requests, samples, buckets, ready, processed, chain>>
  BY DEF vars, files, inputs, scoring
<1> QED
  BY <1>1, <1>2, <1>3, <1>4, <1>5, <1>6, <1>7, <1>8 DEF Next, Monitor

\* If the delays are in time, the Audit TA gets the alerts in the order of
\* their windows and at most one of each (guest-online-monitor.py:97-104).
THEOREM ChainFollowsWindows ==
  ASSUME InTime
  PROVE  Spec => []ChainInOrder
<1>1. Init => OrderInv
  <2>1. Init => Unscored = {} /\ processed = {} /\ chain = << >> /\ ready = {}
    BY EmptySeq DEF Init, Unscored
  <2> QED
    BY <2>1 DEF OrderInv, ChainInOrder
<1>2. IInv /\ IInv' /\ OrderInv /\ [Next]_vars => OrderInv'
  BY OrderNext
<1>3. OrderInv => ChainInOrder
  BY DEF OrderInv
<1> QED
  BY IInvInit, IInvNext, <1>1, <1>2, <1>3, PTL DEF Spec

=============================================================================
