------------------------------ MODULE Analysis ------------------------------
(***************************************************************************)
(* What the scripts of stages 3, 4 and 5 require of their input and what    *)
(* they compute from it, for each collection they may be given: pure        *)
(* definitions, which Evidence puts into the order of the scripts.          *)
(*                                                                         *)
(* A collection is the raw directory run-qemu-experiments.py fills: the     *)
(* results of its runs and the files of their requests and samples.  A      *)
(* measurement is the set of results of run-qemu-performance.py.            *)
(***************************************************************************)
EXTENDS Detector

CONSTANTS
  Collections,    \* a sequence of collections
  Measurements,   \* a sequence of measurements
  Configs,        \* the experiment files, by stage: what the scripts read of them
  Baseline,       \* FEATURE_NAMES
  FeatureSets,    \* stage5_feature_sets.py: [names -> sequences of features]
  Repeats,        \* repeats_per_configuration
  RunsRequired    \* the ten runs stage4-complete.py asks for

ASSUME CollectionsAssumption ==
  \A c \in DOMAIN Collections : /\ Collections[c].requests \in Seq(Seq(Event))
                                /\ Collections[c].resources \in Seq(Seq(Event))

ASSUME BaselineAssumption == Baseline \in Seq(Features) /\ Baseline # << >>

Stages == {"stage3", "stage4", "stage5"}

Configurations == {"gateway_only", "telemetry", "telemetry_iforest", "telemetry_iforest_audit_ta"}

(***************************************************************************)
(* stage3-train-evaluate.py                                                *)
(***************************************************************************)
Covers(results, config) ==
  LET scenarios == config.benign \cup config.attacks
  IN  /\ {r.scenario : r \in results} = scenarios
      /\ Cardinality(results) = Cardinality(scenarios) * config.repeats

AcceptsCollection(collection, config) ==
  /\ collection.requests # << >> /\ collection.results # {}
  /\ \A r \in collection.results : r.status = "PASS" /\ r.requests > 0 /\ r.resources > 0
  /\ Covers(collection.results, config)

AllRows(collection) == AggregateEvents(ReadLines(collection.requests \o collection.resources))

\* The rows of each collection.
RowsOf == [c \in DOMAIN Collections |-> AllRows(Collections[c])]

\* shuffle() loses no run, however many of a collection are split.
ASSUME PermutationAssumption ==
  \A c \in DOMAIN Collections :
    \A seed \in {"all"} \cup UNION {Configs[s].benign : s \in Stages} :
      \A n \in 1 .. Cardinality(RunIds(RowsOf[c])) :
        {Permutation[seed][n][k] : k \in 1 .. n} = 1 .. n

CanSplitRows(rows, config) ==
  IF config.stratify THEN CanStratify(rows, config.benign) ELSE CanSplit(rows)

SplitRows(rows, config) ==
  IF config.stratify THEN Stratified(rows, config.benign) ELSE Split(rows)

\* No run is in two parts, nor an attack in any.
Disjoint(trained) ==
  LET ids == <<RunIds(trained.parts.train), RunIds(trained.parts.validation),
               RunIds(trained.parts.test), RunIds(Attacks(trained.rows))>>
  IN  \A i, j \in 1 .. 4 : i < j => ids[i] \cap ids[j] = {}

\* The checks between the split and the first of its files.
SplitIsSound(trained, config) ==
  /\ Disjoint(trained)
  /\ Scenarios(Attacks(trained.rows)) = config.attacks
  /\ config.stratify => \A p \in {"train", "validation", "test"} :
                           Scenarios(trained.parts[p]) = config.benign

\* The rows the detectors are tested on, and those of the parity vectors.
TestRows(rows, parts) == parts.test \o Attacks(rows)

ParityRows(rows, parts) == parts.validation \o TestRows(rows, parts)

\* The exported model scores every row as the library does.
Agrees(model, tree, rows) ==
  \A i \in DOMAIN rows :
     RuntimeScore(model, rows[i]) = SampleScore(tree, Values(rows[i], model.features))

AgreesWith(model, trained) ==
  Agrees(model, trained.tree, ParityRows(trained.rows, trained.parts))

\* Everything a script computes from the rows, if it gets that far.
TrainedOn(rows, parts, features) ==
  LET tree == Forest(parts.train, features)
  IN  [rows |-> rows, parts |-> parts, tree |-> tree,
       forest |-> ExportForest(tree, parts.validation, features)]

Trained(rows, features, config) == TrainedOn(rows, SplitRows(rows, config), features)

\* The collections a stage can split; with any other its scripts fail before.
Splittable == [s \in Stages |->
  {c \in DOMAIN Collections : CanSplitRows(RowsOf[c], Configs[s])}]

Outcome == [s \in Stages |->
  [c \in Splittable[s] |-> Trained(RowsOf[c], Baseline, Configs[s])]]

ModelOf(s, c) == Outcome[s][c].forest

\* The other detector, which stage3-train-evaluate.py fits as well.
PercentileOf(parts) == FitPercentile(parts.train, parts.validation, Baseline)

\* What each stage accepts, and what of it stands the checks of the split.
Accepted == [s \in Stages |->
  {c \in DOMAIN Collections :
     AcceptsCollection(Collections[c], Configs[s]) /\ RowsOf[c] # << >>}]

Sound == [s \in Stages |->
  {c \in Splittable[s] : SplitIsSound(Outcome[s][c], Configs[s])}]

\* The pairs of models with one digest; the model of the first scores the
\* vectors of the second as the library did.
SameModel == [s \in Stages |->
  {p \in Splittable[s] \X Splittable[s] : ModelOf(s, p[1]) = ModelOf(s, p[2])}]

Reproduces == [s \in Stages |->
  {p \in Splittable[s] \X Splittable[s] :
     AgreesWith(ModelOf(s, p[1]), Outcome[s][p[2]])}]

EvaluationOf(o) ==
  LET test == TestRows(o.rows, o.parts)
  IN  [iforest |-> Evaluate(o.forest, test),
       percentile |-> Evaluate(PercentileOf(o.parts), test),
       validation |-> AlertRate(o.forest, o.parts.validation)]

Evaluated == [s \in {"stage3", "stage4"} |->
  [c \in Splittable[s] |-> EvaluationOf(Outcome[s][c])]]

(***************************************************************************)
(* stage5-feature-ablation.py and the scripts after it.                    *)
(***************************************************************************)
AcceptsForAblation(collection, config) ==
  /\ collection.requests # << >> /\ collection.resources # << >> /\ collection.results # {}
  /\ \A r \in collection.results : r.status = "PASS"
  /\ Covers(collection.results, config)
  /\ LET parsed == {e \in ToSet(ReadLines(collection.requests)) : IsRequest(e) /\ e.op # "REJECT"}
     IN  parsed # {} /\ \A e \in parsed : e.key # "" /\ e.body # ""

AblationOf == [name \in DOMAIN FeatureSets |->
  [c \in Splittable["stage5"] |->
     Trained(RowsOf[c], FeatureSets[name], Configs["stage5"])]]

AblationModel(name, c) == AblationOf[name][c].forest

\* Which collections the ablation takes, with no run in two parts.
AcceptedForAblation ==
  {c \in Splittable["stage5"] :
     /\ AcceptsForAblation(Collections[c], Configs["stage5"])
     /\ Disjoint(Outcome["stage5"][c])}

SameAblationModel == [name \in DOMAIN FeatureSets |->
  {p \in Splittable["stage5"] \X Splittable["stage5"] :
     AblationModel(name, p[1]) = AblationModel(name, p[2])}]

\* stage5-prepare-guest-parity.py: a model against a refit on a collection.
Refits == [name \in DOMAIN FeatureSets |->
  {p \in Splittable["stage5"] \X Splittable["stage5"] :
     AgreesWith(AblationModel(name, p[1]), AblationOf[name][p[2]])}]

EvaluationWith(trained) == Evaluate(trained.forest, TestRows(trained.rows, trained.parts))

\* The results of the ablation: every model on the same windows.
AblationMetrics == [name \in DOMAIN FeatureSets |->
  [c \in AcceptedForAblation |->
     EvaluationWith(AblationOf[name][c])]]

\* stage5-statistical-comparison.py, for two feature sets: the windows are read
\* from the table of all rows.
ComparedOn(left, right, test) ==
  [overall |-> PairedIntervals(left, right, test),
   detection |-> [s \in Configs["stage5"].attacks |-> PairedDetection(left, right, test, s)]]

ComparedRows(trained) == OfRuns(trained.rows, RunIds(TestRows(trained.rows, trained.parts)))

Compared(left, right) == ComparedOn(left.forest, right.forest, ComparedRows(left))

\* It divides by the runs of each attack and takes the ends of a list of resamplings.
Comparable ==
  {c \in AcceptedForAblation :
     LET rows == ComparedRows(Outcome["stage5"][c])
     IN  Configs["stage5"].attacks \subseteq Scenarios(rows) /\ Samples(rows) # << >>}

(***************************************************************************)
(* stage4-analyze-performance.py                                           *)
(***************************************************************************)
Group(results, configuration) == {r \in results : r.configuration = configuration}

AcceptsMeasurement(results) ==
  /\ Cardinality(results) = Cardinality(Configurations) * Repeats
  /\ \A r \in results : r.status = "PASS"
  /\ \A c \in Configurations :
        LET group == Group(results, c)
        IN  /\ Cardinality(group) = Repeats
            /\ {r.repeat : r \in group} = 0 .. Repeats - 1
            /\ \A r \in group : r.telemetry = (c # "gateway_only")
            /\ \A r \in group :
                  r.monitored = (c \in {"telemetry_iforest", "telemetry_iforest_audit_ta"})
            /\ c = "telemetry_iforest_audit_ta" => \A r \in group : r.alerts > 0

\* What the summary says of a configuration; the change is taken repeat by repeat.
Summary(results, configuration) ==
  LET group == Group(results, configuration)
      of(c, i) == CHOOSE r \in Group(results, c) : r.repeat = i
      base(i) == of("gateway_only", i).rps
      usable == {i \in {r.repeat : r \in group} : base(i) # 0}
  IN  [runs |-> Cardinality(group),
       requests |-> MapThenSumSet(LAMBDA r : r.requests, group),
       alerts |-> MapThenSumSet(LAMBDA r : IF r.monitored THEN r.alerts ELSE 0, group),
       change |-> [i \in usable |->
                     (100 * (of(configuration, i).rps - base(i))) \div base(i)]]

Summaries ==
  [m \in {k \in DOMAIN Measurements : AcceptsMeasurement(Measurements[k])} |->
     [c \in Configurations |-> Summary(Measurements[m], c)]]

=============================================================================
