------------------------------ MODULE Evidence ------------------------------
(***************************************************************************)
(* The directory of a stage's evidence and the scripts that fill it:        *)
(* stage3-train-evaluate.py, qemu-model-parity.py in the guest,             *)
(* stage3-finalize.py, stage4-analyze-performance.py, stage4-complete.py,   *)
(* and those of stage 5.                                                    *)
(*                                                                         *)
(* A script reads, checks and writes one file after the other.  It may be   *)
(* interrupted anywhere, leaves a file cut off if that is while it writes   *)
(* one, and may be started again, in any order, on what is there.  One      *)
(* script runs on the host and one in the guest at a time, on one shared    *)
(* directory.  The raw data may have been collected again in between; a     *)
(* collection that was replaced does not come back, nor does its model.     *)
(*                                                                         *)
(* A file is a record [state, of, names]: of is the collection (for         *)
(* performance, the measurement) it was computed from, which stands for     *)
(* what is in it; names are the files it was made from or whose digests it  *)
(* contains, as they were then.                                             *)
(***************************************************************************)
EXTENDS Analysis

CONSTANTS MaxStarts,      \* how often a script is started on the host, by stage
          MaxVisits,      \* how often one is started in the guest, by stage
          MaxInterrupts   \* how often one is interrupted on the host, or in the guest while it writes

VARIABLES
  stage,      \* the stage this directory is for
  raw,        \* the current collection
  measured,   \* the current measurement
  disk,       \* the files
  host,       \* [script, at, raw, seen]: the script, its next step, what it read
  guest,      \* the same, of the script in the guest
  starts,     \* scripts started on the host
  visits,     \* scripts started in the guest
  interrupts  \* scripts interrupted

vars == <<stage, raw, measured, disk, host, guest, starts, visits, interrupts>>

Missing == [state |-> "missing"]

Torn == [state |-> "torn"]

Whole(of, names) == [state |-> "whole", of |-> of, names |-> names]

Nothing == [script |-> "none"]

Names == DOMAIN FeatureSets

ModelFile(name) == "iforest-" \o name

VectorsFile(name) == "parity-vectors-" \o name

GuestFile(name) == "parity-guest-" \o name

\* The files there is one of, whatever the feature sets.
FixedFiles ==
  {"features-all", "features-train", "features-validation", "features-test", "percentile",
   "iforest", "parity-vectors", "parity-host", "metrics", "split-manifest", "summary",
   "parity-guest", "final-summary", "performance-summary", "performance-runs",
   "stage4-complete-summary", "analysis", "features-enhanced-all", "feature-ablation-results",
   "guest-parity-manifest", "guest-inference-benchmark", "paired-bootstrap",
   "stage5-complete-summary"}

\* The names of the feature sets are different, and none makes one file another.
ASSUME NamesAssumption ==
  /\ IsFiniteSet(Names) /\ {"detector", "loaded"} \cap Names = {}
  /\ \A m, n \in Names : m # n => /\ ModelFile(m) # ModelFile(n)
                                  /\ VectorsFile(m) # VectorsFile(n)
                                  /\ GuestFile(m) # GuestFile(n)
  /\ \A m, n \in Names : /\ ModelFile(m) \notin FixedFiles \cup {VectorsFile(n), GuestFile(n)}
                          /\ VectorsFile(m) \notin FixedFiles \cup {GuestFile(n)}
                          /\ GuestFile(m) \notin FixedFiles

\* Of the collections a detector is trained on, one that gives the model of an
\* earlier one has none between them that gives another.
ASSUME ReplacedAssumption ==
  \A s \in {"stage3", "stage4"} : \A a, b, c \in Accepted[s] \cap Sound[s] :
     a <= b /\ b <= c /\ <<a, c>> \in SameModel[s] => <<a, b>> \in SameModel[s]

ASSUME LengthAssumption == Len(Collections) \in Nat /\ Len(Measurements) \in Nat

Detection == {"train", "finalize", "analyze", "complete"}

Ablation == {"ablate", "prepare", "compare", "complete-stage5"}

NameSeq == SetToSeq(Names)

\* The files a script writes, in its order; "analysis" is the directory itself.
\* Slip: the summary is not the last.
TrainingSlip ==
  <<"features-all", "features-train", "features-validation", "features-test", "percentile",
    "iforest", "parity-vectors", "parity-host", "summary", "metrics", "split-manifest">>

Training ==
  <<"features-all", "features-train", "features-validation", "features-test", "percentile",
    "iforest", "parity-vectors", "parity-host", "metrics", "split-manifest", "summary">>

Writes(script) ==
  CASE script = "train"    -> Training
    [] script = "finalize" -> <<"final-summary">>
    [] script = "analyze"  -> <<"performance-summary", "performance-runs">>
    [] script = "complete" -> <<"stage4-complete-summary">>
    [] script = "ablate" ->
         <<"analysis", "features-enhanced-all">> \o
         [i \in DOMAIN NameSeq |-> ModelFile(NameSeq[i])] \o <<"feature-ablation-results">>
    [] script = "prepare" ->
         [i \in DOMAIN NameSeq |-> VectorsFile(NameSeq[i])] \o <<"guest-parity-manifest">>
    [] script = "compare" -> <<"paired-bootstrap">>
    [] script = "complete-stage5" -> <<"stage5-complete-summary">>

Files == (UNION {ToSet(Writes(script)) : script \in Detection \cup Ablation})
           \cup {"parity-guest", "guest-inference-benchmark"} \cup {GuestFile(n) : n \in Names}

\* What a script loads when it starts; it fails if one is not there or cut off.
Loads(script) ==
  CASE script = "finalize" ->
         {"summary", "parity-host", "parity-guest", "metrics", "split-manifest", "iforest"}
    [] script = "complete" -> {"final-summary", "metrics", "performance-summary"}
    [] script = "compare"  ->
         {"feature-ablation-results", "features-enhanced-all"} \cup {ModelFile(n) : n \in Names}
    [] script = "complete-stage5" ->
         {"feature-ablation-results", "paired-bootstrap", "guest-inference-benchmark",
          "guest-parity-manifest"} \cup {GuestFile(n) : n \in Names}
    [] OTHER -> {}

Readable(files) == \A f \in files : disk[f].state = "whole"

Read(files) == [f \in files |-> disk[f]]

\* Whether a digest is that of a model file; equal models have equal digests.
DigestIs(named, file) == file.state = "whole" /\ <<named.of, file.of>> \in SameModel[stage]

AblationDigestIs(name, named, file) ==
  file.state = "whole" /\ <<named.of, file.of>> \in SameAblationModel[name]

Scripts == IF stage = "stage5" THEN Ablation
           ELSE IF stage = "stage4" THEN Detection ELSE {"train", "finalize"}

Init ==
  /\ stage \in Stages
  /\ raw = 1 /\ measured = 1
  /\ disk = [f \in Files |-> Missing]
  /\ host = Nothing /\ guest = Nothing
  /\ starts = 0 /\ visits = 0 /\ interrupts = 0

(***************************************************************************)
(* The scripts on the host.                                                *)
(***************************************************************************)
\* Slip: a directory that is there is written into.
MayStartSlip(script) == Readable(Loads(script))

MayStart(script) ==
  Readable(Loads(script)) /\ (script = "ablate" => disk["analysis"] = Missing)

\* The data may have been collected, or measured, again since the last script.
Start(script) ==
  /\ host = Nothing /\ starts < MaxStarts[stage]
  /\ MayStart(script)
  /\ raw' \in IF script \in {"train", "ablate", "prepare"} THEN raw .. Len(Collections) ELSE {raw}
  /\ measured' \in IF script = "analyze" THEN measured .. Len(Measurements) ELSE {measured}
  /\ host' = [script |-> script, at |-> 1,
              raw |-> IF script = "analyze" THEN measured' ELSE raw', seen |-> Read(Loads(script))]
  /\ starts' = starts + 1
  /\ UNCHANGED <<stage, disk, guest, visits, interrupts>>

\* What stage3-train-evaluate.py requires before it goes on to a file.
TrainAllows(file, c) ==
  CASE file = "features-all"   -> c \in Accepted[stage]
    [] file = "features-train" -> c \in Sound[stage]
    [] file = "parity-vectors" -> <<c, c>> \in Reproduces[stage]
    [] OTHER -> TRUE

\* stage3-finalize.py: one model, and it is the one on the disk.
FinalizeAllows(seen) ==
  /\ Configs[stage].formal = (stage = "stage4")
  /\ stage = "stage4" => Configs[stage].stratify
  /\ DigestIs(seen["parity-host"].names["iforest"], seen["parity-guest"].names["iforest"])
  /\ DigestIs(seen["parity-host"].names["iforest"], disk["iforest"])

\* stage4-complete.py: a formal detection and a measurement of ten runs each.
CompleteAllows(seen) ==
  /\ Configs[stage].formal
  /\ LET summary == Summaries[seen["performance-summary"].of]
     IN  DOMAIN summary = Configurations /\ \A c \in Configurations : summary[c].runs = RunsRequired
  /\ disk["performance-runs"].state # "missing"

\* stage5-feature-ablation.py checks a model after it has written it.
AblateAllows(file, c) ==
  LET done == IF file = "feature-ablation-results" THEN DOMAIN NameSeq
              ELSE {i \in DOMAIN NameSeq : \E j \in DOMAIN NameSeq :
                      i < j /\ file = ModelFile(NameSeq[j])}
  IN  IF file = "features-enhanced-all"
      THEN c \in AcceptedForAblation
      ELSE \A i \in done : <<c, c>> \in Refits[NameSeq[i]]

\* stage5-prepare-guest-parity.py trains again and compares with each model.
PrepareAllows(file, c) ==
  /\ c \in Splittable[stage]
  /\ \A n \in Names : file = VectorsFile(n) =>
        Readable({ModelFile(n)}) /\ <<disk[ModelFile(n)].of, c>> \in Refits[n]

\* stage5-finalize.py: each guest verified the model the vectors were made for.
CompleteStage5Allows(seen) ==
  \A n \in Names :
     AblationDigestIs(n, seen["guest-parity-manifest"].names[n], seen[GuestFile(n)].names[n])

Allows(file) ==
  LET s == host.script
  IN  CASE s = "train"    -> TrainAllows(file, host.raw)
        [] s = "finalize" -> FinalizeAllows(host.seen)
        [] s = "analyze"  -> host.raw \in DOMAIN Summaries
        [] s = "complete" -> CompleteAllows(host.seen)
        [] s = "ablate"   -> file = "analysis" \/ AblateAllows(file, host.raw)
        [] s = "prepare"  -> PrepareAllows(file, host.raw)
        [] s = "compare"  -> host.seen["feature-ablation-results"].of \in Comparable
        [] s = "complete-stage5" -> CompleteStage5Allows(host.seen)

\* What is put into a file.  The digests are of the files as they are in the end,
\* not as they were read; the report of the guest is copied for the script in stage 4
\* (stage4-finalize-evidence.sh), and may be written anew in stage 3.
Content(file) ==
  LET copied == IF stage = "stage4" THEN {"parity-guest"} ELSE {}
      digests(files) == Whole(0, [f \in files |-> IF f \in copied THEN host.seen[f] ELSE disk[f]])
  IN  CASE file = "parity-vectors" -> Whole(host.raw, Read({"iforest"}))
        [] file = "parity-host"    -> Whole(host.raw, disk["parity-vectors"].names)
        [] file = "summary" ->
             Whole(host.raw, Read({"percentile", "iforest", "features-all", "parity-vectors"}))
        [] file = "final-summary" ->
             digests({"iforest", "metrics", "split-manifest", "summary", "parity-guest"})
        [] file = "stage4-complete-summary" ->
             digests({"final-summary", "metrics", "performance-summary", "performance-runs"})
        [] file \in {VectorsFile(n) : n \in Names} ->
             LET n == CHOOSE k \in Names : file = VectorsFile(k)
             IN  Whole(host.raw, [k \in {n} |-> disk[ModelFile(n)]])
        [] file = "guest-parity-manifest" ->
             Whole(host.raw, [n \in Names |-> disk[VectorsFile(n)].names[n]])
        [] file = "feature-ablation-results" ->
             Whole(host.raw, [n \in Names |-> disk[ModelFile(n)]])
        [] file = "paired-bootstrap" ->
             Whole(host.seen["feature-ablation-results"].of,
                   [n \in Names |-> host.seen[ModelFile(n)]])
        [] file = "stage5-complete-summary" ->
             digests({"feature-ablation-results", "paired-bootstrap", "guest-inference-benchmark",
                      "guest-parity-manifest"} \cup {GuestFile(n) : n \in Names})
        [] OTHER -> Whole(host.raw, << >>)

NextFile == Writes(host.script)[host.at]

Write ==
  /\ host # Nothing /\ Allows(NextFile)
  /\ disk' = [disk EXCEPT ![NextFile] = Content(NextFile)]
  /\ host' = IF host.at = Len(Writes(host.script)) THEN Nothing
             ELSE [host EXCEPT !.at = host.at + 1]
  /\ UNCHANGED <<stage, raw, measured, guest, starts, visits, interrupts>>

Refuse ==
  /\ host # Nothing /\ ~ Allows(NextFile)
  /\ host' = Nothing
  /\ UNCHANGED <<stage, raw, measured, disk, guest, starts, visits, interrupts>>

\* Stopped between two files, or while it writes one.
Interrupt ==
  /\ host # Nothing /\ interrupts < MaxInterrupts
  /\ interrupts' = interrupts + 1
  /\ \/ UNCHANGED disk
     \/ /\ NextFile # "analysis" /\ Allows(NextFile)
        /\ disk' = [disk EXCEPT ![NextFile] = Torn]
  /\ host' = Nothing
  /\ UNCHANGED <<stage, raw, measured, guest, starts, visits>>

(***************************************************************************)
(* The scripts in the guest.                                               *)
(***************************************************************************)
\* The files of a parity run; "detector" is the one model of stages 3 and 4.
Models == IF stage = "stage5" THEN Names ELSE {"detector"}

ParityFiles(n) ==
  IF n = "detector"
  THEN [model |-> "iforest", vectors |-> "parity-vectors", out |-> "parity-guest", key |-> "iforest"]
  ELSE [model |-> ModelFile(n), vectors |-> VectorsFile(n), out |-> GuestFile(n), key |-> n]

Visit(seen, n, script) ==
  /\ guest = Nothing /\ visits < MaxVisits[stage]
  /\ visits' = visits + 1
  /\ guest' = [script |-> script, at |-> 1, name |-> n, seen |-> seen]
  /\ UNCHANGED <<stage, raw, measured, disk, host, starts, interrupts>>

\* qemu-model-parity.py reads the vectors, then the model for its digest ...
HashModel(n) ==
  LET f == ParityFiles(n)
  IN  /\ Readable({f.vectors})
      /\ IF n = "detector" THEN DigestIs(disk[f.vectors].names[f.key], disk[f.model])
                           ELSE AblationDigestIs(n, disk[f.vectors].names[f.key], disk[f.model])
      /\ Visit([vectors |-> disk[f.vectors], hashed |-> disk[f.model]], n, "parity")

\* ... and then once more to use it.
LoadModel ==
  /\ guest # Nothing /\ guest.script = "parity" /\ guest.at = 1
  /\ LET file == disk[ParityFiles(guest.name).model]
     IN  guest' = IF file.state # "whole" THEN Nothing
                  ELSE [guest EXCEPT !.at = 2,
                          !.seen = [vectors |-> @.vectors, hashed |-> @.hashed, loaded |-> file]]
  /\ UNCHANGED <<stage, raw, measured, disk, host, starts, visits, interrupts>>

\* Every vector scores as the library scored it.
GuestAgrees ==
  LET v == guest.seen.vectors.of
      m == guest.seen.loaded.of
  IN  IF guest.name = "detector"
      THEN <<m, v>> \in Reproduces[stage]
      ELSE <<m, v>> \in Refits[guest.name]

GuestWrites(file, content) ==
  /\ guest' = Nothing
  /\ \/ disk' = [disk EXCEPT ![file] = content] /\ UNCHANGED interrupts
     \/ /\ interrupts < MaxInterrupts /\ interrupts' = interrupts + 1
        /\ disk' = [disk EXCEPT ![file] = Torn]
  /\ UNCHANGED <<stage, raw, measured, host, starts, visits>>

\* The report has the digest; what was loaded it does not say: this is kept here
\* for the properties.
Report(hashed) ==
  Whole(guest.seen.vectors.of,
        [k \in {ParityFiles(guest.name).key, "loaded"} |->
           IF k = "loaded" THEN guest.seen.loaded ELSE hashed])

\* Slip: the digest is taken when the report is written.
WriteParitySlip ==
  /\ guest # Nothing /\ guest.script = "parity" /\ guest.at = 2 /\ GuestAgrees
  /\ LET f == ParityFiles(guest.name)
     IN  GuestWrites(f.out, Report(disk[f.model]))

WriteParity ==
  /\ guest # Nothing /\ guest.script = "parity" /\ guest.at = 2 /\ GuestAgrees
  /\ GuestWrites(ParityFiles(guest.name).out, Report(guest.seen.hashed))

\* stage5-guest-inference-benchmark.py
StartBenchmark ==
  /\ stage = "stage5"
  /\ Readable({ModelFile(n) : n \in Names} \cup {VectorsFile(n) : n \in Names})
  /\ Visit([n \in Names |-> disk[ModelFile(n)]], "all", "benchmark")

WriteBenchmark ==
  /\ guest # Nothing /\ guest.script = "benchmark"
  /\ GuestWrites("guest-inference-benchmark", Whole(0, guest.seen))

\* Stopped, or a score that differs.
GuestEnds ==
  /\ guest # Nothing
  /\ guest' = Nothing
  /\ UNCHANGED <<stage, raw, measured, disk, host, starts, visits, interrupts>>

Next ==
  \/ \E s \in Scripts : Start(s)
  \/ Write \/ Refuse \/ Interrupt
  \/ \E n \in Models : HashModel(n)
  \/ LoadModel \/ WriteParity
  \/ StartBenchmark \/ WriteBenchmark \/ GuestEnds

Spec == Init /\ [][Next]_vars

(***************************************************************************)
(* Properties.                                                             *)
(***************************************************************************)
IsWhole(file) == disk[file].state = "whole"

\* The guest reads a model once for its digest and once more to run it, and the
\* host compares and takes the digests of a final summary at different times.
\* Whatever was trained again, verified again or interrupted meanwhile, the model a
\* final summary names is the one that was run for the guest report it names (if
\* that was not being written, and cut off, just then).
FinalNamesVerifiedModel ==
  IsWhole("final-summary") =>
    LET names == disk["final-summary"].names
        report == names["parity-guest"]
    IN  report.state = "whole" => DigestIs(report.names["loaded"], names["iforest"])

\* stage3-train-evaluate.py writes the summary last: as long as the files whose
\* digests it holds are on the disk, what is measured there was measured with
\* that model, on that collection.
SummaryVouches ==
  LET s == disk["summary"]
  IN  IsWhole("summary") /\ (\A f \in DOMAIN s.names : disk[f] = s.names[f]) =>
         \A f \in {"metrics", "split-manifest", "parity-host"} : IsWhole(f) => disk[f].of = s.of

\* stage5-finalize.py:33-46 compares only the guest reports with the manifest;
\* that the results, the comparison and the benchmark it accepts are of the same
\* models rests on the refusal to write into a directory that is there.
AblationIsOfOneModel ==
  IsWhole("feature-ablation-results") =>
    \A n \in Names :
      \A f \in {"paired-bootstrap", "guest-inference-benchmark", "guest-parity-manifest",
                GuestFile(n)} :
         IsWhole(f) =>
           AblationDigestIs(n, disk["feature-ablation-results"].names[n], disk[f].names[n])

\* features.py:98-105: what the rows of a collection are, told from its events:
\* each request after the warm-up is in the row of its run and window, no row
\* has another, and no window with requests lacks a row.
RowsExact(c) ==
  LET rows == ToSet(RowsOf[c])
      events == ReadLines(Collections[c].requests \o Collections[c].resources)
      asked == {i \in DOMAIN events : IsRequest(events[i])}
      early(i) == \E j \in asked : events[j].run = events[i].run
                    /\ \A k \in asked : events[k].run = events[i].run => events[j].ts <= events[k].ts
                    /\ events[i].ts - events[j].ts < Warmup
      counted == {i \in asked : ~ early(i)}
      within(i, row) == events[i].run = row.run
                          /\ row.start <= events[i].ts /\ events[i].ts < row.start + Window
  IN  /\ \A row \in rows : row.start % Window = 0
           /\ row.requests = Cardinality({i \in counted : within(i, row)}) /\ row.requests > 0
           /\ row.requests = SumOver(row.operations)
           /\ row.errors = Cardinality({i \in counted : within(i, row) /\ ~ events[i].ok})
      /\ \A i \in counted : Cardinality({row \in rows : within(i, row)}) = 1

ExactCollections == {c \in DOMAIN Collections : RowsExact(c)}

\* The features on the disk account for every request of their collection.
FeaturesAccountForRequests == IsWhole("features-all") => disk["features-all"].of \in ExactCollections

\* evaluation.py and training.py: every benign window is in exactly one part,
\* every attack window is tested, the tallies add up to the windows tested, the
\* summaries by scenario and by run agree with them, and of the validation
\* windows no more alert than the calibration allows.
EvaluationSound(o, evaluated) ==
  LET test == TestRows(o.rows, o.parts)
      allowed == (Len(o.parts.validation) - 1 + 99) \div 100
      sum(m, field) == SumOver([s \in DOMAIN m.perScenario |-> m.perScenario[s][field]])
      sound(m, model) ==
        /\ m.overall.tp + m.overall.fn = Len(Attacks(o.rows))
        /\ m.overall.fp + m.overall.tn = Len(o.parts.test)
        /\ sum(m, "windows") = Len(test)
        /\ sum(m, "alertWindows") = m.overall.tp + m.overall.fp
        /\ \A r \in RunIds(Attacks(o.rows)) :
              (m.delays[r] = NoDelay) <=> (\A row \in ToSet(test) : row.run = r => ~ Alerts(model, row))
        /\ Cardinality({i \in DOMAIN o.parts.validation : Alerts(model, o.parts.validation[i])})
             <= allowed
  IN  /\ Len(o.parts.train) + Len(o.parts.validation) + Len(o.parts.test) = Len(Benign(o.rows))
      /\ ToSet(o.parts.train) \cup ToSet(o.parts.validation) \cup ToSet(o.parts.test)
           = ToSet(Benign(o.rows))
      /\ sound(evaluated.iforest, o.forest)
      /\ sound(evaluated.percentile, PercentileOf(o.parts))

SoundEvaluations == [s \in {"stage3", "stage4"} |->
  {c \in Splittable[s] : EvaluationSound(Outcome[s][c], Evaluated[s][c])}]

\* What stage5-statistical-comparison.py says of two models is the difference of
\* what the ablation says of each, window by window and run by run.  (The area
\* under the curve is left out: it depends on the order of windows with one
\* score, and the two scripts order them differently.)
ComparisonSound(compared, left, right) ==
  /\ \A m \in {"precision", "recall", "f1"} :
       compared.overall[m].difference = right.overall[m] - left.overall[m]
  /\ \A s \in DOMAIN compared.detection :
       compared.detection[s].difference =
         <<right.perScenario[s].alertedRuns - left.perScenario[s].alertedRuns,
           left.perScenario[s].runs>>

SoundComparisons ==
  {c \in Comparable :
     \A l, r \in Names :
        ComparisonSound(Compared(AblationOf[l][c], AblationOf[r][c]),
                        AblationMetrics[l][c], AblationMetrics[r][c])}

\* The metrics and the comparison on the disk are of such an evaluation.
MetricsAreSound ==
  /\ IsWhole("metrics") => disk["metrics"].of \in SoundEvaluations[stage]
  /\ IsWhole("paired-bootstrap") => disk["paired-bootstrap"].of \in SoundComparisons

=============================================================================
