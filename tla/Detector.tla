------------------------------ MODULE Detector ------------------------------
(***************************************************************************)
(* What the analysis scripts compute from the rows of Features: the split   *)
(* of the runs, the two detectors and what is measured of them              *)
(* (cote3mon/training.py, threshold.py, iforest_runtime.py, evaluation.py). *)
(*                                                                         *)
(* Numbers are integers.  A threshold is in hundredths of a score, because  *)
(* percentile() interpolates; a metric is in thousandths, rounded down.     *)
(* What a seeded generator returns is a constant.                          *)
(***************************************************************************)
EXTENDS Features

CONSTANTS
  Permutation,   \* how shuffle() orders n runs: [seeds -> [1 .. n -> 1 .. n]]
  Draws          \* what randrange() returns while resampling: a sequence of sequences

RunIds(rows) == {row.run : row \in ToSet(rows)}

Benign(rows) == Chosen(rows, LAMBDA row : ~ row.attack)

Attacks(rows) == Chosen(rows, LAMBDA row : row.attack)

OfRuns(rows, ids) == Chosen(rows, LAMBDA row : row.run \in ids)

Scenarios(rows) == {row.scenario : row \in ToSet(rows)}

Shuffled(ids, seed) == [k \in DOMAIN ids |-> ids[Permutation[seed][Len(ids)][k]]]

\* Where the validation runs and the test runs begin.
TrainEnd(n) == Max({1, (n * 6) \div 10})

ValidationEnd(n) == Max({TrainEnd(n) + 1, (n * 8) \div 10})

\* Shuffled runs, cut in three.
Thirds(s) ==
  LET n == Len(s)
  IN  [train      |-> {s[i] : i \in 1 .. TrainEnd(n)},
       validation |-> {s[i] : i \in TrainEnd(n) + 1 .. ValidationEnd(n)},
       test       |-> {s[i] : i \in ValidationEnd(n) + 1 .. n}]

Cut(ids, seed) == Thirds(Shuffled(Ranked(ids, <), seed))

Rows3(rows, cut) ==
  [train      |-> OfRuns(Benign(rows), cut.train),
   validation |-> OfRuns(Benign(rows), cut.validation),
   test       |-> OfRuns(Benign(rows), cut.test)]

\* split_benign_runs
CanSplit(rows) == Cardinality(RunIds(Benign(rows))) >= 5

Split(rows) == Rows3(rows, Cut(RunIds(Benign(rows)), "all"))

\* split_benign_runs_stratified
RunsOf(rows, scenario) == {row.run : row \in {q \in ToSet(Benign(rows)) : q.scenario = scenario}}

CanStratify(rows, scenarios) ==
  /\ Scenarios(Benign(rows)) = scenarios
  /\ \A s \in scenarios : LET n == Cardinality(RunsOf(rows, s))
                          IN  n >= 5 /\ ValidationEnd(n) < n

Merged(cuts) ==
  [p \in {"train", "validation", "test"} |-> UNION {cuts[s][p] : s \in DOMAIN cuts}]

Stratified(rows, scenarios) ==
  Rows3(rows, Merged([s \in scenarios |-> Cut(RunsOf(rows, s), s)]))

\* The features that are told apart, and the value of one in a row.
Features == {"request_rate", "error_ratio", "request_reuse_ratio"}

Value(row, feature) ==
  CASE feature = "request_rate"        -> row.requests
    [] feature = "error_ratio"         -> (60 * row.errors) \div row.requests
    [] feature = "request_reuse_ratio" ->
         IF row.bodyReuse[2] = 0 THEN 0 ELSE (60 * row.bodyReuse[1]) \div row.bodyReuse[2]

Column(rows, feature) == Each(rows, LAMBDA row : Value(row, feature))

Absolute(x) == IF x < 0 THEN -x ELSE x

\* A denominator the scales have in common.
CommonUnit(scales) ==
  LET product[i \in 0 .. Len(scales)] == IF i = 0 THEN 1 ELSE scales[i] * product[i - 1]
  IN  product[Len(scales)]

\* PercentileModel.score, over a common denominator.
Deviation(model, row) ==
  LET unit == CommonUnit(model.scales)
  IN  Max({Absolute(100 * Value(row, model.features[i]) - model.centres[i])
             * (unit \div model.scales[i]) : i \in DOMAIN model.features})

\* PercentileModel.fit; a scale is never zero.
FitPercentile(training, validation, features) ==
  LET at(f, p) == Percentile(Column(training, f), p, 100)
      provisional ==
        [kind |-> "percentile", features |-> features, threshold |-> 0,
         centres |-> Each(features, LAMBDA f : at(f, 50)),
         scales  |-> Each(features, LAMBDA f :
                       Max({at(f, 50) - at(f, 1), at(f, 99) - at(f, 50), 1}))]
      scores == Each(validation, LAMBDA row : Deviation(provisional, row))
  IN  [provisional EXCEPT !.threshold = Percentile(scores, 99, 100)]

(***************************************************************************)
(* The Isolation Forest.  The library grows the trees; here one tree stands *)
(* for them, which splits off the least value of each feature that varies.  *)
(***************************************************************************)
Grown(training, features, least, varied) ==
  LET k         == Len(varied)
      inner(n)  == n % 2 = 0 /\ n < 2 * k
      place(f)  == CHOOSE i \in DOMAIN features : features[i] = f
      onward(j) == {i \in DOMAIN training : \A h \in 1 .. j :
                      Value(training[i], varied[h]) > least[varied[h]]}
      nodes     == 0 .. 2 * k
  IN  [left      |-> [n \in nodes |-> IF inner(n) THEN n + 1 ELSE -1],
       right     |-> [n \in nodes |-> IF inner(n) THEN n + 2 ELSE -1],
       feature   |-> [n \in nodes |-> IF inner(n) THEN place(varied[n \div 2 + 1]) ELSE 0],
       threshold |-> [n \in nodes |-> IF inner(n) THEN least[varied[n \div 2 + 1]] ELSE 0],
       samples   |-> [n \in nodes |-> IF n % 2 = 0
                                      THEN Cardinality(onward(n \div 2))
                                      ELSE Cardinality(onward(n \div 2) \ onward(n \div 2 + 1))]]

Forest(training, features) ==
  LET least == [f \in ToSet(features) |-> Min({Value(row, f) : row \in ToSet(training)})]
  IN  Grown(training, features, least,
            Chosen(features, LAMBDA f : \E row \in ToSet(training) : Value(row, f) > least[f]))

\* average_path_length, in hundredths, up to twelve samples.
PathLengths == <<0, 100, 121, 185, 233, 271, 302, 329, 353, 374, 393, 410>>

AveragePath(n) == IF n = 0 THEN 0 ELSE PathLengths[Min({n, Len(PathLengths)})]

Child(tree, values, n) ==
  IF values[tree.feature[n]] <= tree.threshold[n] THEN tree.left[n] ELSE tree.right[n]

Values(row, features) == Each(features, LAMBDA f : Value(row, f))

\* A long path is a low score.
ScoreOfPath(tree, path) == 100 * Cardinality(DOMAIN tree.left) - path

\* The library's own score: the length of the path, edge by edge.
SampleScore(tree, values) ==
  LET path[n \in DOMAIN tree.left] ==
        IF tree.left[n] = -1 THEN AveragePath(tree.samples[n])
                             ELSE 100 + path[Child(tree, values, n)]
  IN  ScoreOfPath(tree, path[0])

\* The depths the export adds: a walk with a stack, one node popped at a time.
Depths(tree) ==
  LET nodes == DOMAIN tree.left
      walk[k \in 0 .. Cardinality(nodes)] ==
        IF k = 0 THEN [stack |-> << <<0, 0>> >>, depth |-> [n \in nodes |-> 0]]
        ELSE LET s == walk[k - 1]
                 node == Last(s.stack)[1]
                 depth == Last(s.stack)[2]
             IN  [stack |-> Front(s.stack) \o
                    IF tree.left[node] = -1 THEN << >>
                    ELSE << <<tree.left[node], depth + 1>>, <<tree.right[node], depth + 1>> >>,
                  depth |-> [s.depth EXCEPT ![node] = depth]]
  IN  walk[Cardinality(nodes)].depth

\* export_isolation_forest
ExportForest(tree, validation, features) ==
  LET scores == Each(validation, LAMBDA row : SampleScore(tree, Values(row, features)))
  IN  [kind |-> "iforest", features |-> features, tree |-> tree, depth |-> Depths(tree),
       threshold |-> Percentile(scores, 99, 100)]

\* IsolationForestRuntime.score: down to a leaf, whose depth the file gives.
RuntimeScore(model, row) ==
  LET tree == model.tree
      values == Values(row, model.features)
      leaf[n \in DOMAIN tree.left] ==
        IF tree.left[n] = -1 THEN n ELSE leaf[Child(tree, values, n)]
  IN  ScoreOfPath(tree, 100 * model.depth[leaf[0]] + AveragePath(tree.samples[leaf[0]]))

Score(model, row) == IF model.kind = "percentile" THEN Deviation(model, row)
                                                  ELSE RuntimeScore(model, row)

\* Slip: a score on the threshold alerts.
AlertsSlip(model, row) == 100 * Score(model, row) >= model.threshold

Alerts(model, row) == 100 * Score(model, row) > model.threshold

(***************************************************************************)
(* evaluation.py                                                           *)
(***************************************************************************)
Share(a, b) == IF b = 0 THEN 0 ELSE (1000 * a) \div b

\* average_precision: the precision at each attack window, in falling order
\* of score; windows with one score keep the order of the rows.
AveragePrecision(labels, scores) ==
  LET ranked == InOrder(labels, Each(scores, LAMBDA x : - x))
      hits == {r \in DOMAIN ranked : ranked[r]}
  IN  IF hits = {} THEN 0
      ELSE MapThenSumSet(LAMBDA r : Share(Cardinality({h \in hits : h <= r}), r), hits)
             \div Cardinality(hits)

\* The metrics of the four tallies.
Rates(tp, fp, tn, fn, auprc) ==
  [tp |-> tp, fp |-> fp, tn |-> tn, fn |-> fn,
   precision |-> Share(tp, tp + fp), recall |-> Share(tp, tp + fn),
   f1 |-> Share(2 * tp, 2 * tp + fp + fn), fpr |-> Share(fp, tn + fp), auprc |-> auprc]

\* classification_metrics
Classify(labels, scores, threshold) ==
  LET alert(i) == 100 * scores[i] > threshold
      count(attack, alerted) ==
        Cardinality({i \in DOMAIN labels : labels[i] = attack /\ alert(i) = alerted})
  IN  Rates(count(TRUE, TRUE), count(FALSE, TRUE), count(FALSE, FALSE), count(TRUE, FALSE),
            AveragePrecision(labels, scores))

Metrics == {"precision", "recall", "f1", "auprc"}

\* The windows of one resampling of complete runs.
Resampled(rows, draw) ==
  LET ids == Ranked(RunIds(rows), <)
      group(id) == Ranked({i \in DOMAIN rows : rows[i].run = id}, <)
  IN  FlattenSeq([k \in DOMAIN ids |-> group(ids[(draw[k] % Len(ids)) + 1])])

\* The resamplings that contain both kinds of window.
Samples(rows) ==
  Chosen(Each(Draws, LAMBDA draw : Resampled(rows, draw)),
         LAMBDA s : {rows[i].attack : i \in ToSet(s)} = BOOLEAN)

\* The ends of a 95% interval.
Ends(ordered) ==
  LET at(p) == ordered[((Len(ordered) - 1) * p) \div 1000 + 1]
  IN  IF ordered = << >> THEN <<0, 0>> ELSE <<at(25), at(975)>>

Interval(values) == Ends(InOrder(values, values))

\* The metrics of a model on the windows a sample names.
MetricsOn(model, rows, sample) ==
  Classify(Each(sample, LAMBDA i : rows[i].attack),
           Each(sample, LAMBDA i : Score(model, rows[i])), model.threshold)

\* attack_detection_delays: from the first window of an attack to its first alert.
NoDelay == -1

Delays(model, rows) ==
  LET windows(id) == {row.start : row \in {q \in ToSet(Attacks(rows)) : q.run = id}}
      alerted(id) == {row.start : row \in {q \in ToSet(Attacks(rows)) :
                                             q.run = id /\ Alerts(model, q)}}
  IN  [id \in RunIds(Attacks(rows)) |->
         IF alerted(id) = {} THEN NoDelay ELSE Min(alerted(id)) - Min(windows(id))]

\* scenario_summary
PerScenario(model, rows) ==
  [s \in Scenarios(rows) |->
     LET those == {i \in DOMAIN rows : rows[i].scenario = s}
         alerted == {i \in those : Alerts(model, rows[i])}
         runs(places) == {rows[i].run : i \in places}
     IN  [attack |-> rows[Min(those)].attack,
          windows |-> Cardinality(those), alertWindows |-> Cardinality(alerted),
          runs |-> Cardinality(runs(those)), alertedRuns |-> Cardinality(runs(alerted))]]

AllWindows(rows) == [i \in DOMAIN rows |-> i]

\* evaluate_detector, evaluate
Evaluate(model, rows) ==
  LET sampled == Each(Samples(rows), LAMBDA s : MetricsOn(model, rows, s))
      overall == MetricsOn(model, rows, AllWindows(rows))
  IN  [overall |-> overall,
       ci95 |-> [m \in Metrics |-> Interval(Each(sampled, LAMBDA x : x[m]))],
       falseAlerts |-> <<overall.fp, Len(Benign(rows))>>,
       runs |-> Cardinality(RunIds(rows)),
       delays |-> Delays(model, rows),
       perScenario |-> PerScenario(model, rows)]

\* The share of validation windows that alert.
AlertRate(model, rows) == Share(Among(rows, LAMBDA row : Alerts(model, row)), Len(rows))

\* paired_metric_intervals: both models on the same resamplings.
PairedIntervals(left, right, rows) ==
  LET both(s) == <<MetricsOn(left, rows, s), MetricsOn(right, rows, s)>>
      overall == both(AllWindows(rows))
      sampled == Each(Samples(rows), both)
      change(m, pair) == pair[2][m] - pair[1][m]
  IN  [m \in Metrics |-> [difference |-> change(m, overall),
                          ci95 |-> Interval(Each(sampled, LAMBDA pair : change(m, pair)))]]

\* paired_run_detection_interval: runs of a scenario that alert at least once.
PairedDetection(left, right, rows, scenario) ==
  LET those == {row \in ToSet(rows) : row.scenario = scenario}
      ids == Ranked({row.run : row \in those}, <)
      seen(model, id) == IF \E row \in those : row.run = id /\ Alerts(model, row) THEN 1 ELSE 0
      change(id) == seen(right, id) - seen(left, id)
      changes == Each(ids, change)
      sampled(draw) == SumOver([k \in DOMAIN ids |-> changes[(draw[k] % Len(ids)) + 1]])
  IN  [difference |-> <<SumOver(changes), Len(ids)>>, ci95 |-> Interval(Each(Draws, sampled))]

=============================================================================
