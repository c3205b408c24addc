------------------------------ MODULE Features ------------------------------
(***************************************************************************)
(* cote3mon/features.py: telemetry is cut into windows, and each window in  *)
(* which a run made requests becomes one row of features.                  *)
(*                                                                         *)
(* An event is a record [kind, run, scenario, attack, ts, op, ok, key,     *)
(* body, lat, cpu]: kind is "request", "resource" or "unmarked" (no        *)
(* event_type, which the reader takes for a request); key and body stand   *)
(* for the two fingerprints, and "" for a missing one.  Runs are numbers,  *)
(* in the order of their names; times are in ticks.  A ratio or a mean is  *)
(* the pair of its two terms.                                              *)
(***************************************************************************)
EXTENDS Integers, Sequences, FiniteSets, TLC, SequencesExt, FiniteSetsExt

CONSTANTS
  Window,   \* window_seconds
  Warmup    \* warmup_seconds

ASSUME LengthsAssumption == Window \in Nat \ {0} /\ Warmup \in Nat

Event == [kind : {"request", "resource", "unmarked"}, run : Nat, scenario : STRING,
          attack : BOOLEAN, ts : Nat, op : STRING, ok : BOOLEAN, key : STRING, body : STRING,
          lat : Nat, cpu : Nat]

\* What F makes of each element (with \o, TLC computes it once).
Each(s, F(_)) == [i \in DOMAIN s |-> F(s[i])] \o << >>

\* sorted() of a set.
Ranked(S, before(_, _)) ==
  [k \in 1 .. Cardinality(S) |->
     CHOOSE x \in S : Cardinality({y \in S : before(y, x)}) = k - 1]

\* sorted() and list.sort() with a key: what has the same key keeps its order.
InOrder(s, key) ==
  LET before(i, j) == key[i] < key[j] \/ (key[i] = key[j] /\ i < j)
  IN  Each(Ranked(DOMAIN s, before), LAMBDA i : s[i])

\* The elements at some places, and those for which P holds, in their order.
At(s, places) == Each(Ranked(places, <), LAMBDA i : s[i])

Chosen(s, P(_)) == At(s, {i \in DOMAIN s : P(s[i])})

SumOver(f) == MapThenSumSet(LAMBDA x : f[x], DOMAIN f)

MeanOf(f) == <<SumOver(f), Cardinality(DOMAIN f)>>

\* What is at place / per of a list in order, in units of 1 / per.
Interpolated(ordered, place, per) ==
  LET lower  == place \div per
      weight == place % per
  IN  IF weight = 0 THEN ordered[lower + 1] * per
      ELSE ordered[lower + 1] * (per - weight) + ordered[lower + 2] * weight

\* percentile(values, of / per), in units of 1 / per.
Percentile(values, of, per) ==
  IF values = << >> THEN 0
  ELSE Interpolated(InOrder(values, values), (Len(values) - 1) * of, per)

\* read_jsonl: the events of the files, one file after the other.
ReadLines(files) == FlattenSeq(files)

IsRequest(e) == e.kind \in {"request", "unmarked"}

\* Where the requests are among the events.
Asked(events) == {i \in DOMAIN events : IsRequest(events[i])}

\* When each run that made a request made its first.
FirstRequest(events) ==
  LET times(r) == {events[i].ts : i \in {j \in Asked(events) : events[j].run = r}}
  IN  [r \in {events[i].run : i \in Asked(events)} |-> Min(times(r))]

\* Slip: the warm-up ends one tick late.
RetainedSlip(e, first) == e.run \in DOMAIN first => e.ts > first[e.run] + Warmup

\* Whether an event is outside the warm-up of its run.
Retained(e, first) == e.run \in DOMAIN first => e.ts >= first[e.run] + Warmup

WindowStart(ts) == ts - (ts % Window)

\* The bucket of an event, and the order of the buckets.
BucketOf(e) == [run |-> e.run, start |-> WindowStart(e.ts)]

Precedes(a, b) == a.run < b.run \/ (a.run = b.run /\ a.start < b.start)

Among(s, P(_)) == Cardinality({i \in DOMAIN s : P(s[i])})

\* One less the share of distinct values among those that are there.
Reuse(values) ==
  LET there == {i \in DOMAIN values : values[i] # ""}
  IN  <<Cardinality(there) - Cardinality({values[i] : i \in there}), Cardinality(there)>>

\* The time from the end of a request to the start of the next, if positive.
Idle(q) ==
  [i \in 1 .. Len(q) - 1 |->
     LET gap == q[i + 1].ts - q[i + 1].lat - q[i].ts IN IF gap > 0 THEN gap ELSE 0]

\* The row of a bucket: its samples are not in order, its requests in order.
RowOf(b, q, samples) ==
  LET count == Len(q)
  IN  [run |-> b.run, scenario |-> q[1].scenario, attack |-> q[1].attack, start |-> b.start,
       requests    |-> count,
       operations  |-> [o \in {e.op : e \in ToSet(q)} |-> Among(q, LAMBDA e : e.op = o)],
       errors      |-> Among(q, LAMBDA e : ~ e.ok),
       latency     |-> Percentile(Each(q, LAMBDA e : e.lat), 95, 100),
       cpu         |-> MeanOf(samples),
       keyReuse    |-> Reuse(Each(q, LAMBDA e : e.key)),
       bodyReuse   |-> Reuse(Each(q, LAMBDA e : e.body)),
       transitions |-> <<Cardinality({i \in 1 .. count - 1 : q[i].op # q[i + 1].op}), count - 1>>,
       idle        |-> MeanOf(Idle(q))]

\* The events at some places by time, those of one time as they were read.
ByTime(events, places) ==
  LET before(i, j) == events[i].ts < events[j].ts \/ (events[i].ts = events[j].ts /\ i < j)
  IN  Each(Ranked(places, before), LAMBDA i : events[i])

\* The row of a bucket that has requests.
Row(events, b, places) ==
  RowOf(b, ByTime(events, places \cap Asked(events)),
        [i \in {j \in places : events[j].kind = "resource"} |-> events[i].cpu])

\* Where the events outside the warm-up of their run are.
Kept(events) ==
  LET first == FirstRequest(events) IN {i \in DOMAIN events : Retained(events[i], first)}

\* aggregate_events: the rows, by run and then by time.
AggregateEvents(events) ==
  LET kept == Kept(events)
      buckets == {BucketOf(events[i]) : i \in kept \cap Asked(events)}
  IN  Each(Ranked(buckets, Precedes),
           LAMBDA b : Row(events, b, {i \in kept : BucketOf(events[i]) = b}))

=============================================================================
