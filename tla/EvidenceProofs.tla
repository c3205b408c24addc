--------------------------- MODULE EvidenceProofs ---------------------------
(***************************************************************************)
(* Theorems about the evidence of a stage: whatever is interrupted, started *)
(* again or collected again, what a file says of others is so.              *)
(***************************************************************************)
EXTENDS Evidence, FiniteSetTheorems, SequenceTheorems, TLAPS

\* What a script, on the host or in the guest, is in the middle of.
HostType ==
  host # Nothing =>
    /\ host = [script |-> host.script, at |-> host.at, raw |-> host.raw, seen |-> host.seen]
    /\ host.script \in Detection \cup Ablation
    /\ host.at \in 1..Len(Writes(host.script))
    /\ host.raw \in Nat
    /\ host.script \in {"train", "ablate", "prepare"} => host.raw = raw

GuestType ==
  guest # Nothing =>
    /\ guest = [script |-> guest.script, at |-> guest.at, name |-> guest.name, seen |-> guest.seen]
    /\ guest.script \in {"parity", "benchmark"}
    /\ guest.script = "parity" => guest.name \in Names \cup {"detector"}

TypeInv ==
  /\ stage \in Stages
  /\ raw \in Nat /\ measured \in Nat
  /\ disk = [f \in Files |-> disk[f]]
  /\ HostType /\ GuestType

\* A model that the training has gone on with, and one that is not newer than what
\* is on the disk.
Exported(x) == x.state = "whole" /\ x.of \in Nat /\ x.of \in Accepted[stage] \cap Sound[stage]

NotAfter(x) == x.of <= raw /\ (IsWhole("iforest") => x.of <= disk["iforest"].of)

\* The guest takes the digest of a model before it loads one.
IsReport(r) ==
  /\ Exported(r.names["iforest"]) /\ Exported(r.names["loaded"])
  /\ r.names["iforest"].of <= r.names["loaded"].of
  /\ NotAfter(r.names["loaded"])

Verifying == guest.script = "parity" /\ guest.name = "detector"

\* What is verified is later than what was verified before.
ModelInv ==
  /\ IsWhole("iforest") => Exported(disk["iforest"]) /\ disk["iforest"].of <= raw
  /\ IsWhole("parity-guest") => IsReport(disk["parity-guest"])
  /\ Verifying =>
       /\ Exported(guest.seen.hashed) /\ NotAfter(guest.seen.hashed)
       /\ guest.at = 2 => /\ Exported(guest.seen.loaded) /\ NotAfter(guest.seen.loaded)
                          /\ guest.seen.hashed.of <= guest.seen.loaded.of
       /\ IsWhole("parity-guest") =>
            disk["parity-guest"].names["iforest"].of <= guest.seen.hashed.of

\* The model a run of stage3-finalize.py has read stays on the disk; a report that
\* comes meanwhile is of a later model, and of none that comes after that on the disk.
FinalInv ==
  /\ host.script = "finalize" =>
       /\ stage \in {"stage3", "stage4"} /\ IsWhole("iforest")
       /\ {"iforest", "parity-guest"} \subseteq DOMAIN host.seen
       /\ IsReport(host.seen["parity-guest"])
       /\ IsWhole("parity-guest") =>
            host.seen["parity-guest"].names["iforest"].of
              <= disk["parity-guest"].names["iforest"].of
       /\ Verifying => host.seen["parity-guest"].names["iforest"].of <= guest.seen.hashed.of
  /\ FinalNamesVerifiedModel

TrainFiles ==
  {"features-all", "features-train", "features-validation", "features-test", "percentile",
   "iforest", "parity-vectors", "parity-host", "metrics", "split-manifest", "summary"}

Measured == {"metrics", "split-manifest", "parity-host"}

\* What a run of stage3-train-evaluate.py has written is of its collection, and
\* it has not gone on with one it does not take.
TrainInv ==
  host.script = "train" =>
    /\ \A i \in 1..(host.at - 1) : IsWhole(Training[i]) /\ disk[Training[i]].of = raw
    /\ host.at > 1 => raw \in Accepted[stage]
    /\ host.at > 2 => raw \in Sound[stage]
    /\ host.at > 7 => <<raw, raw>> \in Reproduces[stage]

\* Nothing on the disk is of a later collection than the features, nor what is
\* measured of an earlier one than the summary.
VouchInv ==
  /\ \A f \in TrainFiles : IsWhole(f) =>
       /\ disk[f].of \in Nat /\ disk[f].of <= raw
       /\ IsWhole("features-all") => disk[f].of <= disk["features-all"].of
  /\ IsWhole("summary") =>
       LET s == disk["summary"]
       IN  /\ "features-all" \in DOMAIN s.names
           /\ s.names["features-all"].state = "whole" /\ s.names["features-all"].of = s.of
           /\ \A f \in Measured : IsWhole(f) => s.of <= disk[f].of

\* Nothing has come of a collection the scripts do not take.
AcceptedInv ==
  /\ IsWhole("features-all") => disk["features-all"].of \in Accepted[stage]
  /\ IsWhole("metrics") =>
       LET c == disk["metrics"].of
       IN  c \in Accepted[stage] \cap Sound[stage] /\ <<c, c>> \in Reproduces[stage]

\* stage3-train-evaluate.py runs in the directories of stages 3 and 4 only.
StageInv ==
  /\ host.script = "train" => stage \in {"stage3", "stage4"}
  /\ IsWhole("metrics") => stage \in {"stage3", "stage4"}

\* stage5-statistical-comparison.py writes of a collection it can compare on.
ComparedInv == IsWhole("paired-bootstrap") => disk["paired-bootstrap"].of \in Comparable

\* The n-th model of the ablation, as every file has it that names it.
IsModel(n, file) ==
  file = disk[ModelFile(n)] /\ file.state = "whole" /\ file.of \in AcceptedForAblation

NamesModels(file) == IsWhole(file) => \A n \in Names : IsModel(n, disk[file].names[n])

\* stage5-feature-ablation.py writes each model once: there is none before its
\* directory, and while it runs none that it has yet to write.
AblateInv ==
  /\ disk["analysis"] = Missing \/ IsWhole("analysis")
  /\ disk["analysis"] = Missing => \A n \in Names : disk[ModelFile(n)] = Missing
  /\ host.script = "ablate" =>
       /\ disk["analysis"] = Missing <=> host.at = 1
       /\ host.at > 2 => host.raw \in AcceptedForAblation
       /\ \A i \in DOMAIN NameSeq :
            IF i + 2 < host.at THEN IsWhole(ModelFile(NameSeq[i]))
                               ELSE disk[ModelFile(NameSeq[i])] = Missing
  /\ \A n \in Names : IsWhole(ModelFile(n)) => disk[ModelFile(n)].of \in AcceptedForAblation

\* What names the models of the ablation names those on the disk.
NamedInv ==
  /\ \A f \in {"feature-ablation-results", "paired-bootstrap", "guest-inference-benchmark",
               "guest-parity-manifest"} : NamesModels(f)
  /\ \A n \in Names :
       /\ IsWhole(VectorsFile(n)) => IsModel(n, disk[VectorsFile(n)].names[n])
       /\ IsWhole(GuestFile(n)) => IsModel(n, disk[GuestFile(n)].names[n])
  /\ IsWhole("feature-ablation-results") =>
       disk["feature-ablation-results"].of \in AcceptedForAblation
  /\ IsWhole("paired-bootstrap") => disk["paired-bootstrap"].of \in AcceptedForAblation

\* So do the scripts that have read them.
HostRead ==
  /\ host.script = "compare" =>
       /\ \A n \in Names : IsModel(n, host.seen[ModelFile(n)])
       /\ host.seen["feature-ablation-results"].of \in AcceptedForAblation
  /\ host.script = "prepare" => \A i \in 1..(host.at - 1) : IsWhole(VectorsFile(NameSeq[i]))

GuestRead ==
  /\ guest.script = "benchmark" => \A n \in Names : IsModel(n, guest.seen[n])
  /\ guest.script = "parity" =>
       \A n \in Names : guest.name = n => IsModel(n, guest.seen.hashed)

AblationInv == AblateInv /\ NamedInv /\ HostRead /\ GuestRead

-----------------------------------------------------------------------------
(* Which files the scripts write.                                          *)

\* Each feature set has a place in the order.
LEMMA NameSeqIs ==
  /\ NameSeq \in Seq(Names) /\ Len(NameSeq) \in Nat /\ DOMAIN NameSeq = 1..Len(NameSeq)
  /\ \A i \in DOMAIN NameSeq : NameSeq[i] \in Names
  /\ \A i, j \in DOMAIN NameSeq : i # j => NameSeq[i] # NameSeq[j]
  /\ \A n \in Names : \E i \in DOMAIN NameSeq : NameSeq[i] = n
<1> DEFINE D == 1..Cardinality(Names)
<1>1. Cardinality(Names) \in Nat /\ IsFiniteSet(Names)
  BY NamesAssumption, FS_CardinalityType
<1>2. \E f \in [D -> Names] : IsInjective(f)
  <2>1. ExistsBijection(D, Names)
    BY NamesAssumption, FS_CardinalityType
  <2>2. PICK f \in Bijection(D, Names) : TRUE
    BY <2>1 DEF ExistsBijection
  <2> QED
    BY <2>2 DEF Bijection, Injection
<1>3. NameSeq \in [D -> Names] /\ IsInjective(NameSeq)
  BY <1>2 DEF NameSeq, SetToSeq
<1>4. NameSeq \in Surjection(D, Names)
  <2>1. NameSeq \in Injection(D, Names)
    BY <1>3 DEF Injection
  <2>2. Cardinality(D) = Cardinality(Names)
    BY <1>1, FS_Interval
  <2> QED
    BY <1>1, <2>1, <2>2, FS_Injection
<1>5. NameSeq \in Seq(Names) /\ Len(NameSeq) = Cardinality(Names)
  BY <1>1, <1>3
<1> QED
  BY <1>1, <1>3, <1>4, <1>5 DEF IsInjective, Surjection

\* The files of a feature set are its own.
LEMMA OwnFiles ==
  ASSUME NEW m \in Names, NEW n \in Names
  PROVE  /\ ModelFile(m) = ModelFile(n) => m = n
         /\ VectorsFile(m) = VectorsFile(n) => m = n
         /\ GuestFile(m) = GuestFile(n) => m = n
         /\ ModelFile(m) \notin FixedFiles \cup {VectorsFile(n), GuestFile(n)}
         /\ VectorsFile(m) \notin FixedFiles \cup {GuestFile(n)}
         /\ GuestFile(m) \notin FixedFiles
BY NamesAssumption

ModelFiles == [i \in DOMAIN NameSeq |-> ModelFile(NameSeq[i])]

VectorsFiles == [i \in DOMAIN NameSeq |-> VectorsFile(NameSeq[i])]

\* One sequence after the other.
LEMMA Joined ==
  ASSUME NEW S, NEW a \in Seq(S), NEW b \in Seq(S)
  PROVE  /\ a \o b \in Seq(S) /\ Len(a) \in Nat /\ Len(b) \in Nat
         /\ Len(a \o b) = Len(a) + Len(b) /\ DOMAIN (a \o b) = 1..(Len(a) + Len(b))
         /\ \A i \in 1..Len(a) : (a \o b)[i] = a[i]
         /\ \A i \in 1..Len(b) : (a \o b)[i + Len(a)] = b[i]
<1>1. /\ a \o b \in Seq(S) /\ Len(a) \in Nat /\ Len(b) \in Nat
      /\ Len(a \o b) = Len(a) + Len(b)
  BY ConcatProperties, LenProperties
<1>2. DOMAIN (a \o b) = 1..(Len(a) + Len(b))
  BY <1>1, LenProperties
<1>3. \A i \in 1..Len(a) : i \in 1..(Len(a) + Len(b)) /\ i <= Len(a)
  BY <1>1
<1>4. \A i \in 1..Len(b) : /\ i + Len(a) \in 1..(Len(a) + Len(b))
                           /\ ~ (i + Len(a) <= Len(a)) /\ (i + Len(a)) - Len(a) = i
  BY <1>1
<1> QED
  BY <1>1, <1>2, <1>3, <1>4, ConcatProperties

\* The order of the files of stage5-feature-ablation.py.
LEMMA AblateWrites ==
  LET n == Len(NameSeq)
      w == Writes("ablate")
  IN  /\ Len(w) = n + 3 /\ DOMAIN w = 1..(n + 3)
      /\ w[1] = "analysis" /\ w[2] = "features-enhanced-all"
      /\ \A i \in 1..n : w[i + 2] = ModelFile(NameSeq[i])
      /\ w[n + 3] = "feature-ablation-results"
<1> DEFINE n == Len(NameSeq)
           S == FixedFiles \cup {ModelFile(m) : m \in Names}
           a == <<"analysis", "features-enhanced-all">>
           z == <<"feature-ablation-results">>
<1>1. n \in Nat /\ ModelFiles \in [1..n -> S]
  BY NameSeqIs DEF ModelFiles
<1>2. ModelFiles \in Seq(S) /\ Len(ModelFiles) = n
  BY <1>1
<1>3. a \in Seq(S) /\ z \in Seq(S) /\ Len(a) = 2 /\ Len(z) = 1
      /\ a[1] = "analysis" /\ a[2] = "features-enhanced-all" /\ z[1] = "feature-ablation-results"
  BY DEF FixedFiles
<1>4. Writes("ablate") = (a \o ModelFiles) \o z
  BY DEF Writes, ModelFiles
<1> HIDE DEF S, a, z
<1>5. /\ a \o ModelFiles \in Seq(S) /\ Len(a \o ModelFiles) = n + 2
      /\ \A i \in 1..2 : (a \o ModelFiles)[i] = a[i]
      /\ \A i \in 1..n : (a \o ModelFiles)[i + 2] = ModelFiles[i]
  <2>1. a \in Seq(S) /\ ModelFiles \in Seq(S)
    BY <1>2, <1>3
  <2>2. /\ a \o ModelFiles \in Seq(S) /\ Len(a \o ModelFiles) = Len(a) + Len(ModelFiles)
        /\ \A i \in 1..Len(a) : (a \o ModelFiles)[i] = a[i]
        /\ \A i \in 1..Len(ModelFiles) : (a \o ModelFiles)[i + Len(a)] = ModelFiles[i]
    BY <2>1, Joined
  <2> QED
    BY <1>1, <1>2, <1>3, <2>2
<1>6. /\ Len((a \o ModelFiles) \o z) = n + 3
      /\ DOMAIN ((a \o ModelFiles) \o z) = 1..(n + 3)
      /\ \A i \in 1..(n + 2) : ((a \o ModelFiles) \o z)[i] = (a \o ModelFiles)[i]
      /\ ((a \o ModelFiles) \o z)[n + 3] = z[1]
  <2>1. 1 \in 1..1 /\ 1 + (n + 2) = n + 3 /\ (n + 2) + 1 = n + 3
    BY <1>1
  <2> QED
    BY <1>1, <1>3, <1>5, <2>1, Joined, SMTT(60)
<1>7. \A i \in 1..n : ModelFiles[i] = ModelFile(NameSeq[i]) /\ i + 2 \in 1..(n + 2)
  BY <1>1, NameSeqIs DEF ModelFiles
<1> HIDE DEF n
<1>8. 1 \in 1..2 /\ 2 \in 1..2 /\ 1 \in 1..(n + 2) /\ 2 \in 1..(n + 2)
  BY <1>1
<1>9. \A i \in 1..n : Writes("ablate")[i + 2] = ModelFile(NameSeq[i])
  BY <1>4, <1>5, <1>6, <1>7
<1>10. Writes("ablate")[1] = "analysis" /\ Writes("ablate")[2] = "features-enhanced-all"
  BY <1>3, <1>4, <1>5, <1>6, <1>8
<1>11. /\ Len(Writes("ablate")) = n + 3 /\ DOMAIN Writes("ablate") = 1..(n + 3)
       /\ Writes("ablate")[n + 3] = "feature-ablation-results"
  BY <1>3, <1>4, <1>6
<1> QED
  BY <1>9, <1>10, <1>11 DEF n

\* The order of the files of stage5-prepare-guest-parity.py.
LEMMA PrepareWrites ==
  LET n == Len(NameSeq)
      w == Writes("prepare")
  IN  /\ Len(w) = n + 1 /\ DOMAIN w = 1..(n + 1)
      /\ \A i \in 1..n : w[i] = VectorsFile(NameSeq[i])
      /\ w[n + 1] = "guest-parity-manifest"
<1> DEFINE n == Len(NameSeq)
           S == FixedFiles \cup {VectorsFile(m) : m \in Names}
           z == <<"guest-parity-manifest">>
<1>1. n \in Nat /\ VectorsFiles \in [1..n -> S]
  BY NameSeqIs DEF VectorsFiles
<1>2. VectorsFiles \in Seq(S) /\ Len(VectorsFiles) = n
  BY <1>1
<1>3. z \in Seq(S) /\ Len(z) = 1 /\ z[1] = "guest-parity-manifest"
  BY DEF FixedFiles
<1>4. Writes("prepare") = VectorsFiles \o z
  BY DEF Writes, VectorsFiles
<1> HIDE DEF S, z
<1>5. /\ Len(VectorsFiles \o z) = n + 1 /\ DOMAIN (VectorsFiles \o z) = 1..(n + 1)
      /\ \A i \in 1..n : (VectorsFiles \o z)[i] = VectorsFiles[i]
      /\ (VectorsFiles \o z)[n + 1] = z[1]
  <2>1. /\ Len(VectorsFiles \o z) = Len(VectorsFiles) + Len(z)
        /\ DOMAIN (VectorsFiles \o z) = 1..(Len(VectorsFiles) + Len(z))
        /\ \A i \in 1..Len(VectorsFiles) : (VectorsFiles \o z)[i] = VectorsFiles[i]
        /\ \A i \in 1..Len(z) : (VectorsFiles \o z)[i + Len(VectorsFiles)] = z[i]
    BY <1>2, <1>3, Joined
  <2>2. 1 \in 1..1 /\ 1 + n = n + 1
    BY <1>1
  <2> QED
    BY <1>1, <1>2, <1>3, <2>1, <2>2
<1>6. \A i \in 1..n : VectorsFiles[i] = VectorsFile(NameSeq[i])
  BY NameSeqIs DEF VectorsFiles
<1> QED
  BY <1>3, <1>4, <1>5, <1>6

\* The others write files there is one of.
LEMMA OtherWrites ==
  /\ Writes("train") = Training /\ Len(Training) = 11 /\ DOMAIN Training = 1..11
  /\ \A i \in 1..11 : Training[i] \in TrainFiles
  /\ Training[1] = "features-all" /\ Training[7] = "parity-vectors"
  /\ Training[8] = "parity-host" /\ Training[9] = "metrics" /\ Training[11] = "summary"
  /\ \A i \in 1..11 : /\ Training[i] = "features-all" => i = 1
                      /\ Training[i] = "metrics" => i = 9
                      /\ Training[i] = "summary" => i = 11
  /\ Len(Writes("finalize")) = 1 /\ Writes("finalize")[1] = "final-summary"
  /\ Len(Writes("analyze")) = 2
  /\ Writes("analyze")[1] = "performance-summary" /\ Writes("analyze")[2] = "performance-runs"
  /\ Len(Writes("complete")) = 1 /\ Writes("complete")[1] = "stage4-complete-summary"
  /\ Len(Writes("compare")) = 1 /\ Writes("compare")[1] = "paired-bootstrap"
  /\ Len(Writes("complete-stage5")) = 1
  /\ Writes("complete-stage5")[1] = "stage5-complete-summary"
<1>1. /\ Len(Training) = 11 /\ DOMAIN Training = 1..11
      /\ Training[1] = "features-all" /\ Training[2] = "features-train"
      /\ Training[3] = "features-validation" /\ Training[4] = "features-test"
      /\ Training[5] = "percentile" /\ Training[6] = "iforest" /\ Training[7] = "parity-vectors"
      /\ Training[8] = "parity-host" /\ Training[9] = "metrics"
      /\ Training[10] = "split-manifest" /\ Training[11] = "summary"
  BY DEF Training
<1>2. \A i \in 1..11 : \/ i = 1 \/ i = 2 \/ i = 3 \/ i = 4 \/ i = 5 \/ i = 6
                       \/ i = 7 \/ i = 8 \/ i = 9 \/ i = 10 \/ i = 11
  OBVIOUS
<1>3. \A i \in 1..11 : /\ Training[i] \in TrainFiles
                       /\ Training[i] = "features-all" => i = 1
                       /\ Training[i] = "metrics" => i = 9
                       /\ Training[i] = "summary" => i = 11
  BY <1>1, <1>2 DEF TrainFiles
<1> QED
  BY <1>1, <1>3 DEF Writes

\* Every script writes something.
LEMMA WritesSomething ==
  ASSUME NEW s \in Detection \cup Ablation
  PROVE  Len(Writes(s)) \in Nat \ {0} /\ DOMAIN Writes(s) = 1..Len(Writes(s))
<1>1. s \in {"train", "finalize", "analyze", "complete", "ablate", "prepare", "compare",
             "complete-stage5"}
  BY DEF Detection, Ablation
<1>2. CASE s = "train"
  <2>1. Writes(s) = Training
    BY <1>2 DEF Writes
  <2>2. Len(Training) = 11 /\ DOMAIN Training = 1..11
    BY DEF Training
  <2> QED
    BY <2>1, <2>2
<1>3. CASE s = "analyze"
  <2>1. Writes(s) = <<"performance-summary", "performance-runs">>
    BY <1>3 DEF Writes
  <2> QED
    BY <2>1
<1>4. CASE s \in {"finalize", "complete", "compare", "complete-stage5"}
  <2>1. \/ Writes(s) = <<"final-summary">> \/ Writes(s) = <<"stage4-complete-summary">>
        \/ Writes(s) = <<"paired-bootstrap">> \/ Writes(s) = <<"stage5-complete-summary">>
    BY <1>4 DEF Writes
  <2> QED
    BY <2>1
<1>5. CASE s = "ablate"
  <2>1. Len(Writes(s)) = Len(NameSeq) + 3 /\ DOMAIN Writes(s) = 1..(Len(NameSeq) + 3)
    BY <1>5, AblateWrites
  <2> QED
    BY <2>1, NameSeqIs
<1>6. CASE s = "prepare"
  <2>1. Len(Writes(s)) = Len(NameSeq) + 1 /\ DOMAIN Writes(s) = 1..(Len(NameSeq) + 1)
    BY <1>6, PrepareWrites
  <2> QED
    BY <2>1, NameSeqIs
<1> QED
  BY <1>1, <1>2, <1>3, <1>4, <1>5, <1>6

\* The file a script is at.
LEMMA NextFileIs ==
  ASSUME HostType, host # Nothing
  PROVE  LET s == host.script
             k == host.at
             n == Len(NameSeq)
         IN  \/ s = "train" /\ k \in 1..11 /\ NextFile = Training[k]
             \/ s = "finalize" /\ NextFile = "final-summary"
             \/ s = "analyze" /\ NextFile \in {"performance-summary", "performance-runs"}
             \/ s = "complete" /\ NextFile = "stage4-complete-summary"
             \/ s = "ablate" /\ k = 1 /\ NextFile = "analysis"
             \/ s = "ablate" /\ k = 2 /\ NextFile = "features-enhanced-all"
             \/ s = "ablate" /\ \E i \in 1..n : k = i + 2 /\ NextFile = ModelFile(NameSeq[i])
             \/ s = "ablate" /\ k = n + 3 /\ NextFile = "feature-ablation-results"
             \/ s = "prepare" /\ \E i \in 1..n : k = i /\ NextFile = VectorsFile(NameSeq[i])
             \/ s = "prepare" /\ k = n + 1 /\ NextFile = "guest-parity-manifest"
             \/ s = "compare" /\ NextFile = "paired-bootstrap"
             \/ s = "complete-stage5" /\ NextFile = "stage5-complete-summary"
<1> DEFINE s == host.script
           k == host.at
           n == Len(NameSeq)
<1>1. s \in Detection \cup Ablation /\ k \in 1..Len(Writes(s)) /\ NextFile = Writes(s)[k]
  BY DEF HostType, NextFile
<1>2. n \in Nat
  BY NameSeqIs
<1> HIDE DEF n
<1>3. s \in {"train", "finalize", "analyze", "complete", "ablate", "prepare", "compare",
             "complete-stage5"}
  BY <1>1 DEF Detection, Ablation
<1>4. CASE s = "train"
  BY <1>1, <1>4, OtherWrites
<1>5. CASE s = "analyze"
  <2>1. k \in 1..2
    BY <1>1, <1>5, OtherWrites
  <2> QED
    BY <1>1, <1>5, <2>1, OtherWrites
<1>6. CASE s \in {"finalize", "complete", "compare", "complete-stage5"}
  <2>1. k = 1
    BY <1>1, <1>6, OtherWrites
  <2> QED
    BY <1>1, <1>6, <2>1, OtherWrites
<1>7. CASE s = "ablate"
  <2>1. k \in 1..(n + 3)
    BY <1>1, <1>7, AblateWrites DEF n
  <2>2. k = 1 \/ k = 2 \/ k = n + 3 \/ \E i \in 1..n : k = i + 2
    <3>1. CASE k > 2 /\ k < n + 3
      <4>1. k - 2 \in 1..n /\ k = (k - 2) + 2
        BY <1>2, <2>1, <3>1
      <4> QED
        BY <4>1
    <3> QED
      BY <1>2, <2>1, <3>1
  <2> QED
    BY <1>1, <1>7, <2>2, AblateWrites DEF n
<1>8. CASE s = "prepare"
  <2>1. k \in 1..(n + 1)
    BY <1>1, <1>8, PrepareWrites DEF n
  <2>2. k = n + 1 \/ k \in 1..n
    BY <1>2, <2>1
  <2> QED
    BY <1>1, <1>8, <2>2, PrepareWrites DEF n
<1> QED
  BY <1>3, <1>4, <1>5, <1>6, <1>7, <1>8 DEF n

\* Which script writes a file, and when.
LEMMA WrittenBy ==
  ASSUME HostType, host # Nothing
  PROVE  /\ NextFile \in TrainFiles =>
              host.script = "train" /\ host.at \in 1..11 /\ NextFile = Training[host.at]
         /\ NextFile = "final-summary" => host.script = "finalize"
         /\ NextFile = "analysis" => host.script = "ablate" /\ host.at = 1
         /\ NextFile = "feature-ablation-results" =>
              host.script = "ablate" /\ host.at = Len(NameSeq) + 3
         /\ NextFile = "guest-parity-manifest" =>
              host.script = "prepare" /\ host.at = Len(NameSeq) + 1
         /\ NextFile = "paired-bootstrap" => host.script = "compare"
         /\ \A n \in Names : NextFile = ModelFile(n) =>
              host.script = "ablate"
                /\ \E i \in DOMAIN NameSeq : NameSeq[i] = n /\ host.at = i + 2
         /\ \A n \in Names : NextFile = VectorsFile(n) =>
              host.script = "prepare"
                /\ \E i \in DOMAIN NameSeq : NameSeq[i] = n /\ host.at = i
         /\ NextFile \notin {"parity-guest", "guest-inference-benchmark"}
         /\ \A n \in Names : NextFile # GuestFile(n)
<1> DEFINE Of(n) == {ModelFile(n), VectorsFile(n), GuestFile(n)}
<1>1. \A i \in 1..Len(NameSeq) : i \in DOMAIN NameSeq /\ NameSeq[i] \in Names
  BY NameSeqIs
<1>2. \A n \in Names : \A f \in Of(n) : f \notin FixedFiles
  BY OwnFiles
<1>3. TrainFiles \subseteq FixedFiles \ {"parity-guest"}
  BY DEF TrainFiles, FixedFiles
<1>4. CASE host.script = "train"
  <2>1. host.at \in 1..11 /\ NextFile = Training[host.at] /\ NextFile \in TrainFiles
    BY <1>4, NextFileIs, OtherWrites
  <2>2. \A n \in Names : NextFile \notin Of(n)
    BY <1>2, <1>3, <2>1
  <2>3. NextFile \notin {"final-summary", "analysis", "feature-ablation-results",
                         "guest-parity-manifest", "paired-bootstrap", "parity-guest",
                         "guest-inference-benchmark"}
    BY <2>1 DEF TrainFiles
  <2> QED
    BY <1>4, <2>1, <2>2, <2>3
<1>5. CASE host.script # "train" /\ NextFile \in FixedFiles
  <2>1. \A n \in Names : NextFile \notin Of(n)
    BY <1>2, <1>5
  <2>2. \/ host.script = "finalize" /\ NextFile = "final-summary"
        \/ host.script = "analyze" /\ NextFile \in {"performance-summary", "performance-runs"}
        \/ host.script = "complete" /\ NextFile = "stage4-complete-summary"
        \/ host.script = "ablate" /\ host.at = 1 /\ NextFile = "analysis"
        \/ host.script = "ablate" /\ host.at = 2 /\ NextFile = "features-enhanced-all"
        \/ /\ host.script = "ablate" /\ host.at = Len(NameSeq) + 3
           /\ NextFile = "feature-ablation-results"
        \/ /\ host.script = "prepare" /\ host.at = Len(NameSeq) + 1
           /\ NextFile = "guest-parity-manifest"
        \/ host.script = "compare" /\ NextFile = "paired-bootstrap"
        \/ host.script = "complete-stage5" /\ NextFile = "stage5-complete-summary"
    BY <1>1, <1>5, <2>1, NextFileIs
  <2> QED
    BY <2>1, <2>2 DEF TrainFiles
<1>6. CASE host.script # "train" /\ NextFile \notin FixedFiles
  <2>1. PICK i \in 1..Len(NameSeq) :
          \/ /\ host.script = "ablate" /\ host.at = i + 2 /\ NextFile = ModelFile(NameSeq[i])
          \/ /\ host.script = "prepare" /\ host.at = i /\ NextFile = VectorsFile(NameSeq[i])
    BY <1>6, NextFileIs DEF FixedFiles
  <2>2. NextFile \notin TrainFiles
        /\ NextFile \notin {"final-summary", "analysis", "feature-ablation-results",
                            "guest-parity-manifest", "paired-bootstrap", "parity-guest",
                            "guest-inference-benchmark"}
    BY <1>3, <1>6 DEF FixedFiles
  <2>3. NameSeq[i] \in Names /\ i \in DOMAIN NameSeq
    BY <1>1
  <2> QED
    BY <2>1, <2>2, <2>3, OwnFiles
<1> QED
  BY <1>4, <1>5, <1>6

\* The files.
LEMMA FilesAre ==
  /\ FixedFiles \subseteq Files
  /\ \A n \in Names : ModelFile(n) \in Files /\ VectorsFile(n) \in Files /\ GuestFile(n) \in Files
  /\ \A s \in Detection \cup Ablation : \A k \in 1..Len(Writes(s)) : Writes(s)[k] \in Files
<1> DEFINE U == UNION {ToSet(Writes(s)) : s \in Detection \cup Ablation}
           G == {GuestFile(n) : n \in Names}
<1>1. Files = U \cup {"parity-guest", "guest-inference-benchmark"} \cup G
  BY DEF Files
<1>2. \A n \in Names : GuestFile(n) \in G
  OBVIOUS
<1>3. ASSUME NEW s \in Detection \cup Ablation, NEW k \in 1..Len(Writes(s))
      PROVE  Writes(s)[k] \in Files
  <2>1. k \in DOMAIN Writes(s)
    BY WritesSomething
  <2>2. Writes(s)[k] \in ToSet(Writes(s))
    BY <2>1 DEF ToSet
  <2> QED
    BY <1>1, <2>2
<1> HIDE DEF U, G
<1>4. FixedFiles \subseteq Files
  <2>1. \A i \in 1..11 : Training[i] \in Files
    BY <1>3, OtherWrites DEF Detection
  <2>2. TrainFiles \subseteq Files
    <3>1. \A f \in TrainFiles : \E i \in 1..11 : Training[i] = f
      BY DEF TrainFiles, Training
    <3> QED
      BY <2>1, <3>1
  <2>3. {"final-summary", "performance-summary", "performance-runs", "stage4-complete-summary"}
          \subseteq Files
    <3>1. 1 \in 1..1 /\ 1 \in 1..2 /\ 2 \in 1..2
      OBVIOUS
    <3> QED
      BY <1>3, <3>1, OtherWrites DEF Detection
  <2>4. {"analysis", "features-enhanced-all", "feature-ablation-results", "guest-parity-manifest"}
          \subseteq Files
    <3> DEFINE n == Len(NameSeq)
    <3>1. n \in Nat
      BY NameSeqIs
    <3>2. /\ 1 \in 1..(n + 3) /\ 2 \in 1..(n + 3) /\ n + 3 \in 1..(n + 3)
          /\ n + 1 \in 1..(n + 1)
      BY <3>1
    <3> QED
      BY <1>3, <3>2, AblateWrites, PrepareWrites DEF Ablation
  <2>5. {"paired-bootstrap", "stage5-complete-summary"} \subseteq Files
    <3>1. 1 \in 1..1
      OBVIOUS
    <3> QED
      BY <1>3, <3>1, OtherWrites DEF Ablation
  <2>6. {"parity-guest", "guest-inference-benchmark"} \subseteq Files
    BY <1>1
  <2> QED
    BY <2>2, <2>3, <2>4, <2>5, <2>6 DEF FixedFiles, TrainFiles
<1>5. ASSUME NEW n \in Names
      PROVE  ModelFile(n) \in Files /\ VectorsFile(n) \in Files /\ GuestFile(n) \in Files
  <2>1. PICK i \in 1..Len(NameSeq) : NameSeq[i] = n
    BY NameSeqIs
  <2>2. i + 2 \in 1..(Len(NameSeq) + 3) /\ i \in 1..(Len(NameSeq) + 1)
    BY <2>1, NameSeqIs
  <2>3. ModelFile(n) \in Files
    BY <1>3, <2>1, <2>2, AblateWrites DEF Ablation
  <2>4. VectorsFile(n) \in Files
    BY <1>3, <2>1, <2>2, PrepareWrites DEF Ablation
  <2>5. GuestFile(n) \in Files
    BY <1>1, <1>2
  <2> QED
    BY <2>3, <2>4, <2>5
<1> QED
  BY <1>3, <1>4, <1>5

-----------------------------------------------------------------------------
(* The steps.                                                              *)

\* A script starts.
LEMMA StartStep ==
  ASSUME TypeInv, NEW s \in Scripts, Start(s)
  PROVE  /\ TypeInv' /\ host = Nothing /\ s \in Detection \cup Ablation
         /\ UNCHANGED <<stage, disk, guest>> /\ raw <= raw'
         /\ host'.script = s /\ host'.at = 1 /\ host'.seen = Read(Loads(s))
         /\ s \in {"train", "ablate", "prepare"} => host'.raw = raw'
         /\ Readable(Loads(s)) /\ (s = "ablate" => disk["analysis"] = Missing)
<1>1. s \in Detection \cup Ablation
  BY DEF Scripts, Detection, Ablation
<1>2. raw' \in Nat /\ raw <= raw'
  BY LengthAssumption DEF TypeInv, Start
<1>3. measured' \in Nat
  BY LengthAssumption DEF TypeInv, Start
<1>4. /\ host = Nothing /\ UNCHANGED <<stage, disk, guest>>
      /\ host' = [script |-> s, at |-> 1, raw |-> IF s = "analyze" THEN measured' ELSE raw',
                  seen |-> Read(Loads(s))]
      /\ Readable(Loads(s)) /\ (s = "ablate" => disk["analysis"] = Missing)
  BY DEF Start, MayStart
<1>5. 1 \in 1..Len(Writes(s))
  BY <1>1, WritesSomething
<1>6. HostType'
  BY <1>1, <1>2, <1>3, <1>4, <1>5 DEF HostType
<1>7. GuestType' /\ disk' = [f \in Files |-> disk'[f]] /\ stage' \in Stages
  BY <1>4 DEF TypeInv, GuestType
<1> QED
  BY <1>1, <1>2, <1>3, <1>4, <1>6, <1>7 DEF TypeInv

\* One file is not as it was.
Changes(w) == w \in Files /\ \A f \in Files \ {w} : disk'[f] = disk[f]

\* A file is replaced.
LEMMA Replaced ==
  ASSUME TypeInv, NEW w \in Files, NEW x, disk' = [disk EXCEPT ![w] = x]
  PROVE  /\ disk' = [f \in Files |-> disk'[f]]
         /\ Changes(w) /\ disk'[w] = x
BY DEF TypeInv, Changes

\* A script writes a file and goes on, or ends.
LEMMA WriteStep ==
  ASSUME TypeInv, Write
  PROVE  /\ TypeInv' /\ host # Nothing /\ HostType /\ Allows(NextFile)
         /\ Changes(NextFile) /\ disk'[NextFile] = Content(NextFile)
         /\ UNCHANGED <<stage, raw, guest>>
         /\ \/ host' = Nothing
            \/ /\ host'.script = host.script /\ host'.at = host.at + 1
               /\ host'.raw = host.raw /\ host'.seen = host.seen
<1>1. /\ host # Nothing /\ Allows(NextFile)
      /\ disk' = [disk EXCEPT ![NextFile] = Content(NextFile)]
      /\ \/ host' = Nothing
         \/ host.at # Len(Writes(host.script)) /\ host' = [host EXCEPT !.at = host.at + 1]
      /\ UNCHANGED <<stage, raw, measured, guest>>
  BY DEF Write
<1>2. HostType
  BY DEF TypeInv
<1>3. host.script \in Detection \cup Ablation /\ host.at \in 1..Len(Writes(host.script))
  BY <1>1, <1>2 DEF HostType
<1>4. NextFile \in Files
  BY <1>3, FilesAre DEF NextFile
<1>5. /\ disk' = [f \in Files |-> disk'[f]] /\ Changes(NextFile)
      /\ disk'[NextFile] = Content(NextFile)
  BY <1>1, <1>4, Replaced
<1>6. \/ host' = Nothing
      \/ /\ host'.script = host.script /\ host'.at = host.at + 1
         /\ host'.raw = host.raw /\ host'.seen = host.seen
         /\ host' = [script |-> host'.script, at |-> host'.at, raw |-> host'.raw,
                     seen |-> host'.seen]
  <2>1. CASE host' = [host EXCEPT !.at = host.at + 1]
    <3>1. host = [script |-> host.script, at |-> host.at, raw |-> host.raw, seen |-> host.seen]
      BY <1>1, <1>2 DEF HostType
    <3>2. host' = [script |-> host.script, at |-> host.at + 1, raw |-> host.raw,
                   seen |-> host.seen]
      BY <2>1, <3>1
    <3> QED
      BY <3>2
  <2> QED
    BY <1>1, <2>1
<1>7. host' # Nothing => host'.at \in 1..Len(Writes(host'.script))
  <2>1. Len(Writes(host.script)) \in Nat
    BY <1>3, WritesSomething
  <2>2. host' # Nothing => host.at # Len(Writes(host.script))
    BY <1>1
  <2> QED
    BY <1>3, <1>6, <2>1, <2>2
<1>8. HostType'
  BY <1>1, <1>2, <1>6, <1>7 DEF HostType
<1> QED
  BY <1>1, <1>2, <1>5, <1>6, <1>8 DEF TypeInv, GuestType

\* A script ends before its next file.
LEMMA RefuseStep ==
  ASSUME TypeInv, Refuse
  PROVE  TypeInv' /\ host' = Nothing /\ UNCHANGED <<stage, raw, disk, guest>>
BY DEF TypeInv, Refuse, HostType, GuestType

\* A script ends, and the file it was at may be cut off.
LEMMA InterruptStep ==
  ASSUME TypeInv, Interrupt
  PROVE  /\ TypeInv' /\ host' = Nothing /\ UNCHANGED <<stage, raw, guest>>
         /\ \/ disk' = disk
            \/ /\ host # Nothing /\ HostType /\ NextFile # "analysis"
               /\ Changes(NextFile) /\ disk'[NextFile] = Torn
<1>1. /\ host # Nothing /\ host' = Nothing /\ UNCHANGED <<stage, raw, measured, guest>>
      /\ \/ disk' = disk
         \/ NextFile # "analysis" /\ disk' = [disk EXCEPT ![NextFile] = Torn]
  BY DEF Interrupt
<1>2. HostType
  BY DEF TypeInv
<1>3. NextFile \in Files
  BY <1>1, <1>2, FilesAre DEF HostType, NextFile
<1>4. disk' = [f \in Files |-> disk'[f]]
  BY <1>1, <1>3, Replaced DEF TypeInv
<1>5. HostType' /\ GuestType'
  BY <1>1 DEF HostType, GuestType, TypeInv
<1> QED
  BY <1>1, <1>2, <1>3, <1>4, <1>5, Replaced DEF TypeInv

\* A script in the guest reads.
GuestReads == (\E n \in Models : HashModel(n)) \/ LoadModel \/ StartBenchmark \/ GuestEnds

\* It leaves the disk as it is.
LEMMA GuestReadsStep ==
  ASSUME TypeInv, GuestReads
  PROVE  TypeInv' /\ UNCHANGED <<stage, raw, disk, host>>
<1>1. UNCHANGED <<stage, raw, measured, disk, host>>
  BY DEF GuestReads, HashModel, LoadModel, StartBenchmark, GuestEnds, Visit
<1>2. GuestType'
  <2>1. CASE \E n \in Models : HashModel(n)
    BY <2>1 DEF GuestType, HashModel, Visit, Models
  <2>2. CASE LoadModel
    <3>1. /\ guest # Nothing /\ guest.script = "parity"
          /\ guest = [script |-> guest.script, at |-> guest.at, name |-> guest.name,
                      seen |-> guest.seen]
          /\ guest.name \in Names \cup {"detector"}
      BY <2>2 DEF LoadModel, TypeInv, GuestType
    <3>2. \/ guest' = Nothing
          \/ \E x : guest' = [guest EXCEPT !.at = 2, !.seen = x]
      BY <2>2 DEF LoadModel
    <3> QED
      BY <3>1, <3>2 DEF GuestType
  <2>3. CASE StartBenchmark
    BY <2>3 DEF GuestType, StartBenchmark, Visit
  <2>4. CASE GuestEnds
    BY <2>4 DEF GuestType, GuestEnds
  <2> QED
    BY <2>1, <2>2, <2>3, <2>4 DEF GuestReads
<1> QED
  BY <1>1, <1>2 DEF TypeInv, HostType

\* A script in the guest writes its report.
LEMMA GuestWritesStep ==
  ASSUME TypeInv, WriteParity \/ WriteBenchmark
  PROVE  /\ TypeInv' /\ guest' = Nothing /\ UNCHANGED <<stage, raw, host>>
         /\ \/ WriteBenchmark /\ guest.script = "benchmark"
               /\ Changes("guest-inference-benchmark")
               /\ disk'["guest-inference-benchmark"] \in {Torn, Whole(0, guest.seen)}
            \/ WriteParity /\ guest.script = "parity" /\ guest.name = "detector" /\ guest.at = 2
               /\ Changes("parity-guest")
               /\ disk'["parity-guest"] \in {Torn, Report(guest.seen.hashed)}
            \/ WriteParity /\ guest.script = "parity" /\ guest.name \in Names
               /\ Changes(GuestFile(guest.name))
               /\ disk'[GuestFile(guest.name)] \in {Torn, Report(guest.seen.hashed)}
<1>1. ASSUME NEW w \in Files, NEW x, GuestWrites(w, x)
      PROVE  /\ TypeInv' /\ guest' = Nothing /\ UNCHANGED <<stage, raw, host>>
             /\ Changes(w) /\ disk'[w] \in {Torn, x}
  <2>1. /\ guest' = Nothing /\ UNCHANGED <<stage, raw, measured, host>>
        /\ disk' = [disk EXCEPT ![w] = x] \/ disk' = [disk EXCEPT ![w] = Torn]
    BY <1>1 DEF GuestWrites
  <2>2. disk' = [f \in Files |-> disk'[f]] /\ Changes(w) /\ disk'[w] \in {Torn, x}
    BY <2>1, Replaced
  <2> QED
    BY <2>1, <2>2 DEF TypeInv, HostType, GuestType
<1>2. CASE WriteBenchmark
  <2>1. "guest-inference-benchmark" \in Files
    BY FilesAre DEF FixedFiles
  <2> QED
    BY <1>1, <1>2, <2>1 DEF WriteBenchmark
<1>3. CASE WriteParity
  <2> DEFINE f == ParityFiles(guest.name)
             x == Report(guest.seen.hashed)
  <2>1. /\ guest # Nothing /\ guest.script = "parity" /\ guest.at = 2 /\ GuestWrites(f.out, x)
    BY <1>3 DEF WriteParity
  <2>2. guest.name \in Names \cup {"detector"}
    BY <2>1 DEF TypeInv, GuestType
  <2>3. CASE guest.name = "detector"
    <3>1. f.out = "parity-guest" /\ "parity-guest" \in Files
      BY <2>3, FilesAre DEF ParityFiles, FixedFiles
    <3> QED
      BY <1>1, <1>3, <2>1, <2>3, <3>1
  <2>4. CASE guest.name \in Names
    <3>1. f.out = GuestFile(guest.name) /\ GuestFile(guest.name) \in Files
      BY <2>4, FilesAre, NamesAssumption DEF ParityFiles
    <3> HIDE DEF f
    <3> QED
      BY <1>1, <1>3, <2>1, <2>4, <3>1
  <2> QED
    BY <2>2, <2>3, <2>4
<1> QED
  BY <1>2, <1>3

\* The directory is empty at first.
LEMMA TypeInit == Init => TypeInv
BY DEF Init, TypeInv, HostType, GuestType, Files

\* Every step keeps the types.
LEMMA TypeNext == TypeInv /\ [Next]_vars => TypeInv'
<1> SUFFICES ASSUME TypeInv, [Next]_vars PROVE TypeInv'
  OBVIOUS
<1>1. CASE UNCHANGED vars
  BY <1>1 DEF vars, TypeInv, HostType, GuestType
<1> QED
  BY <1>1, StartStep, WriteStep, RefuseStep, InterruptStep, GuestReadsStep, GuestWritesStep
  DEF Next, GuestReads

-----------------------------------------------------------------------------
(* The model of the final summary.                                         *)

\* Models that have one digest with a third have one.
LEMMA SameDigest ==
  ASSUME stage \in Stages, NEW a, NEW b, NEW c, DigestIs(a, b), DigestIs(a, c)
  PROVE  b.state = "whole" /\ DigestIs(b, c)
<1> DEFINE S == Splittable[stage]
<1>1. SameModel[stage] = {p \in S \X S : ModelOf(stage, p[1]) = ModelOf(stage, p[2])}
  BY DEF SameModel
<1>2. \A x, y : <<x, y>> \in SameModel[stage] <=>
                  x \in S /\ y \in S /\ ModelOf(stage, x) = ModelOf(stage, y)
  BY <1>1
<1> HIDE DEF S
<1> QED
  BY <1>2 DEF DigestIs

\* What is put into a file there is one of.
LEMMA FixedContent ==
  ASSUME NEW f \in FixedFiles
  PROVE  f \notin {VectorsFile(n) : n \in Names}
BY OwnFiles

\* What the guest reports.
LEMMA ReportIs ==
  ASSUME guest.name \in Names \cup {"detector"}, NEW x
  PROVE  LET key == IF guest.name = "detector" THEN "iforest" ELSE guest.name
         IN  /\ Report(x).state = "whole"
             /\ Report(x).names[key] = x /\ Report(x).names["loaded"] = guest.seen.loaded
<1> DEFINE key == IF guest.name = "detector" THEN "iforest" ELSE guest.name
<1>1. key = ParityFiles(guest.name).key /\ key # "loaded"
  BY NamesAssumption DEF ParityFiles
<1> HIDE DEF key
<1> QED
  BY <1>1 DEF Report, Whole, key

-----------------------------------------------------------------------------
(* What is measured, and the summary that vouches for it.                  *)

\* The files of a training are different.
LEMMA TrainingIs ==
  /\ \A i, j \in 1..11 : i # j => Training[i] # Training[j]
  /\ \A f \in Measured : \E i \in 8..10 : Training[i] = f
  /\ TrainFiles \subseteq FixedFiles /\ TrainFiles \subseteq Files
<1>1. /\ Training[1] = "features-all" /\ Training[2] = "features-train"
      /\ Training[3] = "features-validation" /\ Training[4] = "features-test"
      /\ Training[5] = "percentile" /\ Training[6] = "iforest" /\ Training[7] = "parity-vectors"
      /\ Training[8] = "parity-host" /\ Training[9] = "metrics"
      /\ Training[10] = "split-manifest" /\ Training[11] = "summary"
  BY DEF Training
<1>2. \A i \in 1..11 : \/ i = 1 \/ i = 2 \/ i = 3 \/ i = 4 \/ i = 5 \/ i = 6
                       \/ i = 7 \/ i = 8 \/ i = 9 \/ i = 10 \/ i = 11
  OBVIOUS
<1>3. \A i, j \in 1..11 : i # j => Training[i] # Training[j]
  BY <1>1, <1>2
<1>4. \A f \in Measured : \E i \in 8..10 : Training[i] = f
  BY <1>1 DEF Measured
<1>5. TrainFiles \subseteq FixedFiles
  BY DEF TrainFiles, FixedFiles
<1> QED
  BY <1>3, <1>4, <1>5, FilesAre

\* What a training writes is of its collection; its summary names the features.
LEMMA TrainContent ==
  ASSUME NEW f \in TrainFiles
  PROVE  /\ Content(f).state = "whole" /\ Content(f).of = host.raw
         /\ f = "summary" => /\ "features-all" \in DOMAIN Content(f).names
                             /\ Content(f).names["features-all"] = disk["features-all"]
<1>1. f \notin {VectorsFile(n) : n \in Names}
  BY FixedContent, TrainingIs
<1>2. CASE f = "parity-vectors" \/ f = "parity-host"
  BY <1>2 DEF Content, Whole
<1>3. CASE f = "summary"
  <2>1. Content(f) = Whole(host.raw, Read({"percentile", "iforest", "features-all",
                                           "parity-vectors"}))
    BY <1>1, <1>3 DEF Content
  <2> QED
    BY <2>1 DEF Whole, Read
<1>4. CASE f \notin {"parity-vectors", "parity-host", "summary"}
  <2>1. Content(f) = Whole(host.raw, << >>)
    BY <1>1, <1>4 DEF Content, TrainFiles
  <2> QED
    BY <1>4, <2>1 DEF Whole
<1> QED
  BY <1>2, <1>3, <1>4

\* A step of a training.
LEMMA TrainStep ==
  ASSUME TypeInv, TrainInv, Write, host.script = "train"
  PROVE  LET k == host.at
             w == Training[k]
         IN  /\ k \in 1..11 /\ w \in TrainFiles /\ TrainAllows(w, raw)
             /\ disk'[w] = Content(w) /\ disk'[w].state = "whole" /\ disk'[w].of = raw
             /\ \A f \in TrainFiles \ {w} : disk'[f] = disk[f]
             /\ \A i \in 1..(k - 1) : IsWhole(Training[i]) /\ disk[Training[i]].of = raw
             /\ UNCHANGED <<stage, raw>>
             /\ host' = Nothing \/ (host'.script = "train" /\ host'.at = k + 1)
<1>1. /\ host # Nothing /\ HostType /\ Allows(NextFile)
      /\ Changes(NextFile) /\ disk'[NextFile] = Content(NextFile)
      /\ UNCHANGED <<stage, raw>>
      /\ host' = Nothing \/ (host'.script = host.script /\ host'.at = host.at + 1)
  BY WriteStep
<1>2. host.at \in 1..11 /\ NextFile = Training[host.at] /\ Training[host.at] \in TrainFiles
  BY <1>1, NextFileIs, OtherWrites
<1>3. host.raw = raw
  BY <1>1 DEF HostType
<1>4. TrainAllows(NextFile, raw)
  BY <1>1, <1>3 DEF Allows
<1>5. disk'[NextFile].state = "whole" /\ disk'[NextFile].of = raw
  BY <1>1, <1>2, <1>3, TrainContent
<1>6. \A f \in TrainFiles \ {NextFile} : disk'[f] = disk[f]
  BY <1>1, TrainingIs DEF Changes
<1> QED
  BY <1>1, <1>2, <1>4, <1>5, <1>6 DEF TrainInv

\* The other steps leave the files of the trainings alone, or cut one off.
LEMMA NotTraining ==
  ASSUME TypeInv, [Next]_vars, ~ (Write /\ host.script = "train")
  PROVE  /\ \A f \in TrainFiles : disk'[f] = disk[f] \/ disk'[f] = Torn
         /\ stage' = stage /\ raw <= raw' /\ raw \in Nat /\ raw' \in Nat
         /\ host'.script = "train" =>
              \/ host'.at = 1
              \/ host' = host /\ raw' = raw /\ \A f \in TrainFiles : disk'[f] = disk[f]
<1>1. raw \in Nat /\ raw' \in Nat
  BY TypeNext DEF TypeInv
<1>2. CASE UNCHANGED vars
  BY <1>1, <1>2 DEF vars
<1>3. ASSUME NEW s \in Scripts, Start(s)
      PROVE  /\ disk' = disk /\ stage' = stage /\ raw <= raw' /\ host'.at = 1
  BY <1>3, StartStep
<1>4. CASE Write
  <2>1. /\ host # Nothing /\ HostType /\ Changes(NextFile) /\ UNCHANGED <<stage, raw>>
        /\ host' = Nothing \/ host'.script = host.script
    BY <1>4, WriteStep
  <2>2. NextFile \notin TrainFiles
    BY <1>4, <2>1, WrittenBy
  <2>3. \A f \in TrainFiles : disk'[f] = disk[f]
    BY <2>1, <2>2, TrainingIs DEF Changes
  <2> QED
    BY <1>1, <1>4, <2>1, <2>3 DEF Nothing
<1>5. CASE Refuse
  BY <1>1, <1>5, RefuseStep DEF Nothing
<1>6. CASE Interrupt
  <2>1. /\ host' = Nothing /\ UNCHANGED <<stage, raw>>
        /\ disk' = disk \/ (Changes(NextFile) /\ disk'[NextFile] = Torn)
    BY <1>6, InterruptStep
  <2>2. \A f \in TrainFiles : disk'[f] = disk[f] \/ disk'[f] = Torn
    BY <2>1, TrainingIs DEF Changes
  <2> QED
    BY <1>1, <2>1, <2>2 DEF Nothing
<1>7. CASE GuestReads
  BY <1>1, <1>7, GuestReadsStep
<1>8. CASE WriteParity \/ WriteBenchmark
  <2>1. \A n \in Names : GuestFile(n) \notin TrainFiles
    BY OwnFiles, TrainingIs
  <2>2. "parity-guest" \notin TrainFiles /\ "guest-inference-benchmark" \notin TrainFiles
    BY DEF TrainFiles
  <2>3. UNCHANGED <<stage, raw, host>> /\ \A f \in TrainFiles : disk'[f] = disk[f]
    BY <1>8, <2>1, <2>2, GuestWritesStep, TrainingIs DEF Changes
  <2> QED
    BY <1>1, <2>3
<1> QED
  BY <1>1, <1>2, <1>3, <1>4, <1>5, <1>6, <1>7, <1>8 DEF Next, GuestReads

\* What a training has written stays until it ends.
LEMMA TrainNext == TypeInv /\ TrainInv /\ [Next]_vars => TrainInv'
<1> SUFFICES ASSUME TypeInv, TrainInv, [Next]_vars PROVE TrainInv'
  OBVIOUS
<1>1. CASE Write /\ host.script = "train"
  <2> DEFINE k == host.at
  <2>1. /\ k \in 1..11 /\ TrainAllows(Training[k], raw)
        /\ disk'[Training[k]].state = "whole" /\ disk'[Training[k]].of = raw
        /\ \A f \in TrainFiles \ {Training[k]} : disk'[f] = disk[f]
        /\ \A i \in 1..(k - 1) : IsWhole(Training[i]) /\ disk[Training[i]].of = raw
        /\ UNCHANGED <<stage, raw>>
        /\ host' = Nothing \/ (host'.script = "train" /\ host'.at = k + 1)
    BY <1>1, TrainStep
  <2>2. CASE host' = Nothing
    BY <2>2 DEF TrainInv, Nothing
  <2>3. CASE host'.script = "train" /\ host'.at = k + 1
    <3>1. \A i \in 1..k : disk'[Training[i]].state = "whole" /\ disk'[Training[i]].of = raw
      <4> SUFFICES ASSUME NEW i \in 1..k
                   PROVE  disk'[Training[i]].state = "whole" /\ disk'[Training[i]].of = raw
        OBVIOUS
      <4>1. CASE i = k
        BY <2>1, <4>1
      <4>2. CASE i # k
        <5>1. i \in 1..(k - 1) /\ i \in 1..11
          BY <2>1, <4>2
        <5>2. Training[i] \in TrainFiles \ {Training[k]}
          BY <2>1, <4>2, <5>1, OtherWrites, TrainingIs
        <5> QED
          BY <2>1, <5>1, <5>2 DEF IsWhole
      <4> QED
        BY <4>1, <4>2
    <3>2. /\ k = 1 => raw \in Accepted[stage]
          /\ k = 2 => raw \in Sound[stage]
          /\ k = 7 => <<raw, raw>> \in Reproduces[stage]
      BY <2>1 DEF TrainAllows, Training
    <3>3. /\ k > 1 => raw \in Accepted[stage]
          /\ k > 2 => raw \in Sound[stage]
          /\ k > 7 => <<raw, raw>> \in Reproduces[stage]
      BY <1>1 DEF TrainInv
    <3>4. (k + 1) - 1 = k /\ (k + 1 > 1 => k > 1 \/ k = 1) /\ (k + 1 > 2 => k > 2 \/ k = 2)
          /\ (k + 1 > 7 => k > 7 \/ k = 7)
      BY <2>1
    <3> HIDE DEF k
    <3> QED
      BY <2>1, <2>3, <3>1, <3>2, <3>3, <3>4 DEF TrainInv, IsWhole
  <2> QED
    BY <2>1, <2>2, <2>3
<1>2. CASE ~ (Write /\ host.script = "train")
  <2>1. host'.script = "train" =>
          \/ host'.at = 1
          \/ /\ host' = host /\ raw' = raw /\ stage' = stage
             /\ \A f \in TrainFiles : disk'[f] = disk[f]
    BY <1>2, NotTraining
  <2>2. CASE host'.script # "train"
    BY <2>2 DEF TrainInv
  <2>3. CASE host'.at = 1
    BY <2>3 DEF TrainInv
  <2>4. CASE /\ host'.script = "train" /\ host' = host /\ raw' = raw /\ stage' = stage
             /\ \A f \in TrainFiles : disk'[f] = disk[f]
    <3>1. \A i \in 1..(host.at - 1) : Training[i] \in TrainFiles
      <4>1. host # Nothing /\ HostType
        BY <2>4 DEF TypeInv, Nothing
      <4>2. host.at \in 1..11
        BY <2>4, <4>1, OtherWrites DEF HostType
      <4> QED
        BY <4>2, OtherWrites
    <3> QED
      BY <2>4, <3>1 DEF TrainInv, IsWhole
  <2> QED
    BY <2>1, <2>2, <2>3, <2>4
<1> QED
  BY <1>1, <1>2

\* Files that are cut off, and collections that come, change nothing.
LEMMA VouchFrame ==
  ASSUME VouchInv, AcceptedInv, \A f \in TrainFiles : disk'[f] = disk[f] \/ disk'[f] = Torn,
         stage' = stage, raw <= raw', raw \in Nat, raw' \in Nat
  PROVE  VouchInv' /\ AcceptedInv'
<1>1. \A f \in TrainFiles : IsWhole(f)' => IsWhole(f) /\ disk'[f] = disk[f]
  BY DEF IsWhole, Torn
<1>2. {"features-all", "summary", "metrics"} \subseteq TrainFiles /\ Measured \subseteq TrainFiles
  BY DEF TrainFiles, Measured
<1>3. VouchInv'
  <2>1. ASSUME NEW f \in TrainFiles, IsWhole(f)'
        PROVE  /\ disk'[f].of \in Nat /\ disk'[f].of <= raw'
               /\ IsWhole("features-all")' => disk'[f].of <= disk'["features-all"].of
    BY <1>1, <1>2, <2>1 DEF VouchInv
  <2>2. ASSUME IsWhole("summary")'
        PROVE  LET s == disk'["summary"]
               IN  /\ "features-all" \in DOMAIN s.names
                   /\ s.names["features-all"].state = "whole" /\ s.names["features-all"].of = s.of
                   /\ \A f \in Measured : IsWhole(f)' => s.of <= disk'[f].of
    BY <1>1, <1>2, <2>2 DEF VouchInv
  <2> QED
    BY <2>1, <2>2 DEF VouchInv
<1>4. AcceptedInv'
  BY <1>1, <1>2 DEF AcceptedInv
<1> QED
  BY <1>3, <1>4

\* The summary is the last, the features are the first.
LEMMA VouchNext ==
  TypeInv /\ TrainInv /\ VouchInv /\ AcceptedInv /\ [Next]_vars => VouchInv' /\ AcceptedInv'
<1> SUFFICES ASSUME TypeInv, TrainInv, VouchInv, AcceptedInv, [Next]_vars
             PROVE  VouchInv' /\ AcceptedInv'
  OBVIOUS
<1>1. CASE ~ (Write /\ host.script = "train")
  BY <1>1, NotTraining, VouchFrame
<1>2. CASE Write /\ host.script = "train"
  <2> DEFINE k == host.at
             w == Training[k]
  <2>1. /\ k \in 1..11 /\ w \in TrainFiles /\ TrainAllows(w, raw)
        /\ disk'[w] = Content(w) /\ disk'[w].state = "whole" /\ disk'[w].of = raw
        /\ \A f \in TrainFiles \ {w} : disk'[f] = disk[f]
        /\ \A i \in 1..(k - 1) : IsWhole(Training[i]) /\ disk[Training[i]].of = raw
        /\ UNCHANGED <<stage, raw>>
    BY <1>2, TrainStep
  <2>2. raw \in Nat
    BY DEF TypeInv
  <2>3. {"features-all", "summary", "metrics"} \subseteq TrainFiles /\ Measured \subseteq TrainFiles
    BY DEF TrainFiles, Measured
  <2>4. /\ w = "features-all" <=> k = 1
        /\ w = "metrics" => k = 9
        /\ w = "summary" => k = 11
    BY <2>1, OtherWrites
  <2>5. w # "features-all" => IsWhole("features-all") /\ disk["features-all"].of = raw
    <3>1. k # 1 => 1 \in 1..(k - 1)
      BY <2>1
    <3> QED
      BY <2>1, <2>4, <3>1, OtherWrites
  <2>6. w = "summary" => \A f \in Measured : IsWhole(f) /\ disk[f].of = raw
    <3>1. k = 11 => \A i \in 8..10 : i \in 1..(k - 1)
      BY <2>1
    <3> QED
      BY <2>1, <2>4, <3>1, TrainingIs
  <2>7. w = "summary" => /\ "features-all" \in DOMAIN disk'[w].names
                         /\ disk'[w].names["features-all"] = disk["features-all"]
    BY <2>1, TrainContent
  <2> HIDE DEF w, k
  <2>8. \A f \in TrainFiles : IsWhole(f)' => disk'[f].of \in Nat /\ disk'[f].of <= raw
    BY <2>1, <2>2 DEF VouchInv, IsWhole
  <2>9. IsWhole("features-all")' /\ disk'["features-all"].of = raw
    BY <2>1, <2>3, <2>5 DEF IsWhole
  <2>10. IsWhole("summary")' =>
           LET s == disk'["summary"]
           IN  /\ "features-all" \in DOMAIN s.names
               /\ s.names["features-all"].state = "whole" /\ s.names["features-all"].of = s.of
               /\ \A f \in Measured : IsWhole(f)' => s.of <= disk'[f].of
    <3>1. CASE w = "summary"
      <4>1. \A f \in Measured : disk'[f] = disk[f]
        BY <2>1, <2>3, <3>1 DEF Measured
      <4> QED
        BY <2>1, <2>2, <2>5, <2>6, <2>7, <3>1, <4>1 DEF IsWhole
    <3>2. CASE w # "summary"
      <4>1. disk'["summary"] = disk["summary"]
        BY <2>1, <2>3, <3>2
      <4>2. ASSUME IsWhole("summary"), NEW f \in Measured, IsWhole(f)'
            PROVE  disk["summary"].of <= disk'[f].of
        <5>1. CASE f = w
          BY <2>1, <2>3, <4>2, <5>1 DEF VouchInv
        <5>2. CASE f # w
          BY <2>1, <2>3, <4>2, <5>2 DEF VouchInv, IsWhole
        <5> QED
          BY <5>1, <5>2
      <4> QED
        BY <4>1, <4>2 DEF VouchInv, IsWhole
    <3> QED
      BY <3>1, <3>2
  <2>11. VouchInv'
    BY <2>1, <2>8, <2>9, <2>10 DEF VouchInv
  <2>12. w = "features-all" => raw \in Accepted[stage]
    BY <2>1 DEF TrainAllows
  <2>13. w = "metrics" => /\ raw \in Accepted[stage] /\ raw \in Sound[stage]
                          /\ <<raw, raw>> \in Reproduces[stage]
    BY <1>2, <2>4 DEF TrainInv, k
  <2>14. AcceptedInv'
    BY <2>1, <2>3, <2>12, <2>13 DEF AcceptedInv, IsWhole
  <2> QED
    BY <2>11, <2>14
<1> QED
  BY <1>1, <1>2

\* Nothing has been written at first.
LEMMA TrainInit == Init => TrainInv /\ VouchInv /\ AcceptedInv
<1> SUFFICES ASSUME Init PROVE TrainInv /\ VouchInv /\ AcceptedInv
  OBVIOUS
<1>1. host.script # "train" /\ \A f \in TrainFiles : ~ IsWhole(f)
  BY TrainingIs DEF Init, IsWhole, Missing, Nothing
<1>2. {"features-all", "summary", "metrics"} \subseteq TrainFiles
  BY DEF TrainFiles
<1> QED
  BY <1>1, <1>2 DEF TrainInv, VouchInv, AcceptedInv

-----------------------------------------------------------------------------
(* The model of the final summary.                                         *)

\* What a final summary names.
LEMMA FinalContent ==
  /\ Content("final-summary").names["iforest"] = disk["iforest"]
  /\ Content("final-summary").names["parity-guest"] =
       IF stage = "stage4" THEN host.seen["parity-guest"] ELSE disk["parity-guest"]
<1> DEFINE F == {"iforest", "metrics", "split-manifest", "summary", "parity-guest"}
           copied == IF stage = "stage4" THEN {"parity-guest"} ELSE {}
           x == [f \in F |-> IF f \in copied THEN host.seen[f] ELSE disk[f]]
<1>1. "final-summary" \notin {VectorsFile(n) : n \in Names}
  BY FixedContent DEF FixedFiles
<1>2. Content("final-summary") = Whole(0, x)
  BY <1>1 DEF Content
<1>3. /\ x["iforest"] = disk["iforest"]
      /\ x["parity-guest"] = IF stage = "stage4" THEN host.seen["parity-guest"]
                                                 ELSE disk["parity-guest"]
  OBVIOUS
<1> HIDE DEF x
<1> QED
  BY <1>2, <1>3 DEF Whole

\* What is not newer stays so while no other model is written.
LEMMA StaysBefore ==
  ASSUME NEW x, Exported(x), NotAfter(x), stage' = stage, raw <= raw', raw \in Nat, raw' \in Nat,
         disk'["iforest"] = disk["iforest"] \/ disk'["iforest"] = Torn
  PROVE  Exported(x)' /\ NotAfter(x)'
BY DEF Exported, NotAfter, IsWhole, Torn

\* And when the next one is written.
LEMMA NextModel ==
  ASSUME NEW x, Exported(x), NotAfter(x), UNCHANGED <<stage, raw>>, disk'["iforest"].of = raw
  PROVE  Exported(x)' /\ NotAfter(x)'
BY DEF Exported, NotAfter

\* A report stays one.
LEMMA StaysReport ==
  ASSUME NEW r, IsReport(r), stage' = stage, raw <= raw', raw \in Nat, raw' \in Nat,
         disk'["iforest"] = disk["iforest"] \/ disk'["iforest"] = Torn
         \/ (raw' = raw /\ disk'["iforest"].of = raw)
  PROVE  IsReport(r)'
<1>1. Exported(r.names["loaded"])' /\ NotAfter(r.names["loaded"])'
  BY StaysBefore, NextModel DEF IsReport
<1>2. Exported(r.names["iforest"])'
  BY DEF IsReport, Exported
<1> QED
  BY <1>1, <1>2 DEF IsReport

\* The training goes on, the guest does not.
LEMMA ModelKept ==
  ASSUME ModelInv, stage' = stage, raw <= raw', raw \in Nat, raw' \in Nat,
         \/ disk'["iforest"] = disk["iforest"] \/ disk'["iforest"] = Torn
         \/ /\ raw' = raw /\ disk'["iforest"].of = raw /\ raw \in Accepted[stage] \cap Sound[stage],
         disk'["parity-guest"] = disk["parity-guest"] \/ disk'["parity-guest"] = Torn,
         guest' = guest \/ ~ Verifying'
  PROVE  ModelInv'
<1>1. (IsWhole("iforest") => Exported(disk["iforest"]) /\ disk["iforest"].of <= raw)'
  BY DEF ModelInv, Exported, IsWhole, Torn
<1>2. (IsWhole("parity-guest"))' => IsWhole("parity-guest") /\ disk'["parity-guest"] = disk["parity-guest"]
  BY DEF IsWhole, Torn
<1>3. (IsWhole("parity-guest") => IsReport(disk["parity-guest"]))'
  <2>1. CASE IsWhole("parity-guest") /\ disk'["parity-guest"] = disk["parity-guest"]
    <3> DEFINE r == disk["parity-guest"]
    <3>1. IsReport(r)
      BY <2>1 DEF ModelInv
    <3>2. r' = r
      BY <2>1
    <3> HIDE DEF r
    <3>3. ASSUME NEW q, IsReport(q) PROVE IsReport(q)'
      BY <3>3, StaysReport
    <3>4. \A q : IsReport(q) => IsReport(q)'
      BY <3>3
    <3>5. IsReport(r)'
      BY <3>1, <3>2, <3>4 DEF IsReport, Exported, NotAfter
    <3> QED
      BY <3>5 DEF r
  <2> QED
    BY <1>2, <2>1
<1>4. ASSUME NEW x, Exported(x), NotAfter(x) PROVE Exported(x)' /\ NotAfter(x)'
  BY <1>4, StaysBefore, NextModel
<1>5. \A x : Exported(x) /\ NotAfter(x) => Exported(x)' /\ NotAfter(x)'
  BY <1>4
<1>6. CASE guest' = guest /\ Verifying
  <2>1. guest'.seen.hashed = guest.seen.hashed /\ guest'.seen.loaded = guest.seen.loaded
        /\ guest'.at = guest.at
    BY <1>6
  <2>2. (Exported(guest.seen.hashed) /\ NotAfter(guest.seen.hashed))'
    BY <1>5, <1>6, <2>1 DEF ModelInv, Exported, NotAfter
  <2>3. guest.at = 2 => (Exported(guest.seen.loaded) /\ NotAfter(guest.seen.loaded))'
    BY <1>5, <1>6, <2>1 DEF ModelInv, Exported, NotAfter
  <2> QED
    BY <1>1, <1>2, <1>3, <1>6, <2>1, <2>2, <2>3 DEF ModelInv
<1>7. CASE ~ Verifying'
  BY <1>1, <1>3, <1>7 DEF ModelInv
<1> QED
  BY <1>6, <1>7 DEF Verifying

\* A step that is not the guest's leaves the report of the guest as it is.
LEMMA HostStep ==
  ASSUME TypeInv, TrainInv, [Next]_vars, ~ GuestReads, ~ (WriteParity \/ WriteBenchmark)
  PROVE  /\ stage' = stage /\ raw <= raw' /\ raw \in Nat /\ raw' \in Nat /\ guest' = guest
         /\ disk'["parity-guest"] = disk["parity-guest"]
         /\ \/ disk'["iforest"] = disk["iforest"] \/ disk'["iforest"] = Torn
            \/ /\ raw' = raw /\ disk'["iforest"].of = raw
               /\ raw \in Accepted[stage] \cap Sound[stage]
<1>1. "iforest" \in TrainFiles /\ "parity-guest" \in Files /\ "parity-guest" \in FixedFiles
      /\ "parity-guest" \notin TrainFiles
  BY FilesAre DEF TrainFiles, FixedFiles
<1>2. guest' = guest /\ disk'["parity-guest"] = disk["parity-guest"]
  <2>1. CASE UNCHANGED vars
    BY <2>1 DEF vars
  <2>2. ASSUME NEW s \in Scripts, Start(s) PROVE guest' = guest /\ disk' = disk
    BY <2>2, StartStep
  <2>3. ASSUME host # Nothing, HostType PROVE NextFile # "parity-guest"
    BY <2>3, WrittenBy
  <2>4. CASE Write
    BY <1>1, <2>3, <2>4, WriteStep DEF Changes
  <2>5. CASE Refuse
    BY <2>5, RefuseStep
  <2>6. CASE Interrupt
    BY <1>1, <2>3, <2>6, InterruptStep DEF Changes
  <2> QED
    BY <2>1, <2>2, <2>4, <2>5, <2>6 DEF Next, GuestReads
<1>3. CASE ~ (Write /\ host.script = "train")
  BY <1>1, <1>2, <1>3, NotTraining
<1>4. CASE Write /\ host.script = "train"
  <2> DEFINE k == host.at
  <2>1. /\ k \in 1..11 /\ UNCHANGED <<stage, raw>> /\ disk'[Training[k]].of = raw
        /\ \A f \in TrainFiles \ {Training[k]} : disk'[f] = disk[f]
    BY <1>4, TrainStep
  <2>2. raw \in Nat
    BY DEF TypeInv
  <2>3. CASE Training[k] = "iforest"
    <3>1. k = 6
      <4>1. k \in 1..11 /\ 6 \in 1..11 /\ Training[6] = "iforest"
        BY <2>1 DEF Training
      <4> HIDE DEF k
      <4> QED
        BY <2>3, <4>1, TrainingIs
    <3>2. raw \in Accepted[stage] \cap Sound[stage]
      BY <1>4, <3>1 DEF TrainInv
    <3> QED
      BY <1>2, <2>1, <2>2, <2>3, <3>2
  <2>4. CASE Training[k] # "iforest"
    BY <1>1, <1>2, <2>1, <2>2, <2>4
  <2> QED
    BY <2>3, <2>4
<1> QED
  BY <1>2, <1>3, <1>4

\* What the guest reads.
LEMMA GuestSees ==
  ASSUME TypeInv, GuestReads
  PROVE  /\ UNCHANGED <<stage, raw, disk, host>> /\ raw \in Nat
         /\ Verifying' =>
              \/ /\ IsWhole("iforest") /\ guest'.seen.hashed = disk["iforest"] /\ guest'.at = 1
              \/ /\ Verifying /\ IsWhole("iforest") /\ guest'.at = 2
                 /\ guest'.seen.hashed = guest.seen.hashed
                 /\ guest'.seen.loaded = disk["iforest"]
<1>1. UNCHANGED <<stage, raw, disk, host>> /\ raw \in Nat
  BY GuestReadsStep DEF TypeInv
<1>2. ASSUME NEW n \in Models, HashModel(n), Verifying'
      PROVE  IsWhole("iforest") /\ guest'.seen.hashed = disk["iforest"] /\ guest'.at = 1
  <2>1. n = "detector"
    BY <1>2 DEF HashModel, Visit, Verifying
  <2>2. /\ DigestIs(disk["parity-vectors"].names["iforest"], disk["iforest"])
        /\ guest' = [script |-> "parity", at |-> 1, name |-> n,
                     seen |-> [vectors |-> disk["parity-vectors"], hashed |-> disk["iforest"]]]
    BY <1>2, <2>1 DEF HashModel, Visit, ParityFiles
  <2> QED
    BY <2>2 DEF DigestIs, IsWhole
<1>3. ASSUME LoadModel, Verifying'
      PROVE  /\ Verifying /\ IsWhole("iforest") /\ guest'.at = 2
             /\ guest'.seen.hashed = guest.seen.hashed
             /\ guest'.seen.loaded = disk["iforest"]
  <2> DEFINE x == disk[ParityFiles(guest.name).model]
             y == [vectors |-> guest.seen.vectors, hashed |-> guest.seen.hashed, loaded |-> x]
  <2>1. /\ guest # Nothing /\ guest.script = "parity"
        /\ guest = [script |-> guest.script, at |-> guest.at, name |-> guest.name,
                    seen |-> guest.seen]
    BY <1>3 DEF LoadModel, TypeInv, GuestType
  <2>2. guest' # Nothing
    BY <1>3 DEF Verifying, Nothing
  <2>3. x.state = "whole" /\ guest' = [guest EXCEPT !.at = 2, !.seen = y]
    BY <1>3, <2>1, <2>2 DEF LoadModel
  <2>4. y.hashed = guest.seen.hashed /\ y.loaded = x
    OBVIOUS
  <2> HIDE DEF x, y
  <2>5. guest'.script = guest.script /\ guest'.at = 2 /\ guest'.name = guest.name /\ guest'.seen = y
    BY <2>1, <2>3
  <2>6. Verifying
    BY <1>3, <2>5 DEF Verifying
  <2>7. x = disk["iforest"]
    BY <2>6 DEF x, Verifying, ParityFiles
  <2> QED
    BY <2>3, <2>4, <2>5, <2>6, <2>7 DEF IsWhole
<1>4. StartBenchmark => ~ Verifying'
  BY DEF StartBenchmark, Visit, Verifying
<1>5. GuestEnds => ~ Verifying'
  BY DEF GuestEnds, Verifying, Nothing
<1> QED
  BY <1>1, <1>2, <1>3, <1>4, <1>5 DEF GuestReads

\* What the guest reports is of a model it has loaded after the last report.
LEMMA GuestReports ==
  ASSUME TypeInv, ModelInv, WriteParity \/ WriteBenchmark
  PROVE  /\ UNCHANGED <<stage, raw, host>> /\ raw \in Nat /\ ~ Verifying'
         /\ disk'["iforest"] = disk["iforest"]
         /\ disk'["final-summary"] = disk["final-summary"]
         /\ \/ disk'["parity-guest"] \in {disk["parity-guest"], Torn}
            \/ /\ Verifying /\ IsReport(disk'["parity-guest"])
               /\ disk'["parity-guest"].names["iforest"] = guest.seen.hashed
<1>1. /\ {"iforest", "final-summary", "parity-guest", "guest-inference-benchmark"} \subseteq Files
      /\ \A n \in Names : GuestFile(n) \notin {"iforest", "final-summary", "parity-guest"}
  BY FilesAre, OwnFiles DEF FixedFiles
<1>2. UNCHANGED <<stage, raw, host>> /\ raw \in Nat /\ ~ Verifying'
  BY GuestWritesStep DEF TypeInv, Verifying, Nothing
<1>3. CASE WriteParity /\ guest.script = "parity" /\ guest.name = "detector" /\ guest.at = 2
           /\ Changes("parity-guest")
           /\ disk'["parity-guest"] \in {Torn, Report(guest.seen.hashed)}
  <2> DEFINE r == Report(guest.seen.hashed)
  <2>1. r.names["iforest"] = guest.seen.hashed /\ r.names["loaded"] = guest.seen.loaded
    BY <1>3, ReportIs
  <2>2. Verifying
    BY <1>3 DEF Verifying
  <2> HIDE DEF r
  <2>3. /\ Exported(guest.seen.hashed) /\ Exported(guest.seen.loaded)
        /\ NotAfter(guest.seen.loaded) /\ guest.seen.hashed.of <= guest.seen.loaded.of
    BY <1>3, <2>2 DEF ModelInv
  <2>4. IsReport(r)
    BY <2>1, <2>3 DEF IsReport
  <2>5. disk'["iforest"] = disk["iforest"] /\ disk'["final-summary"] = disk["final-summary"]
    BY <1>1, <1>3 DEF Changes
  <2>6. disk'["parity-guest"] = Torn \/ disk'["parity-guest"] = r
    BY <1>3 DEF r
  <2> QED
    BY <1>2, <2>1, <2>2, <2>4, <2>5, <2>6
<1>4. CASE \/ Changes("guest-inference-benchmark")
           \/ guest.name \in Names /\ Changes(GuestFile(guest.name))
  BY <1>1, <1>2, <1>4 DEF Changes
<1> QED
  BY <1>3, <1>4, GuestWritesStep

\* No step puts a model before one that was verified earlier.
LEMMA ModelNext == TypeInv /\ TrainInv /\ ModelInv /\ [Next]_vars => ModelInv'
<1> SUFFICES ASSUME TypeInv, TrainInv, ModelInv, [Next]_vars PROVE ModelInv'
  OBVIOUS
<1>1. CASE ~ GuestReads /\ ~ (WriteParity \/ WriteBenchmark)
  BY <1>1, HostStep, ModelKept
<1>2. CASE GuestReads
  <2>1. /\ UNCHANGED <<stage, raw, disk, host>> /\ raw \in Nat
        /\ Verifying' =>
             \/ /\ IsWhole("iforest") /\ guest'.seen.hashed = disk["iforest"] /\ guest'.at = 1
             \/ /\ Verifying /\ IsWhole("iforest") /\ guest'.at = 2
                /\ guest'.seen.hashed = guest.seen.hashed
                /\ guest'.seen.loaded = disk["iforest"]
    BY <1>2, GuestSees
  <2>2. CASE ~ Verifying'
    BY <2>1, <2>2 DEF ModelInv, IsReport, Exported, NotAfter, IsWhole
  <2>3. IsWhole("iforest") => Exported(disk["iforest"]) /\ NotAfter(disk["iforest"])
    BY <2>1 DEF ModelInv, Exported, NotAfter
  <2>4. IsWhole("parity-guest") => /\ IsReport(disk["parity-guest"])
                                   /\ disk["parity-guest"].names["iforest"].of \in Nat
    BY DEF ModelInv, IsReport, Exported
  <2>5. CASE IsWhole("iforest") /\ guest'.seen.hashed = disk["iforest"] /\ guest'.at = 1
    <3>1. IsWhole("parity-guest") =>
            disk["parity-guest"].names["iforest"].of <= disk["iforest"].of
      BY <2>3, <2>4, <2>5 DEF IsReport, Exported, NotAfter
    <3> QED
      BY <2>1, <2>3, <2>4, <2>5, <3>1 DEF ModelInv, IsReport, Exported, NotAfter, IsWhole
  <2>6. CASE /\ Verifying /\ IsWhole("iforest") /\ guest'.at = 2
             /\ guest'.seen.hashed = guest.seen.hashed
             /\ guest'.seen.loaded = disk["iforest"]
    <3>1. /\ Exported(guest.seen.hashed) /\ NotAfter(guest.seen.hashed)
          /\ guest.seen.hashed.of <= disk["iforest"].of
          /\ IsWhole("parity-guest") =>
               disk["parity-guest"].names["iforest"].of <= guest.seen.hashed.of
      BY <2>6 DEF ModelInv, NotAfter
    <3> QED
      BY <2>1, <2>3, <2>4, <2>6, <3>1 DEF ModelInv, IsReport, Exported, NotAfter, IsWhole
  <2> QED
    BY <2>1, <2>2, <2>5, <2>6
<1>3. CASE WriteParity \/ WriteBenchmark
  <2>1. /\ UNCHANGED <<stage, raw, host>> /\ raw \in Nat /\ ~ Verifying'
        /\ disk'["iforest"] = disk["iforest"]
        /\ \/ disk'["parity-guest"] \in {disk["parity-guest"], Torn}
           \/ IsReport(disk'["parity-guest"])
    BY <1>3, GuestReports
  <2>2. CASE disk'["parity-guest"] \in {disk["parity-guest"], Torn}
    BY <2>1, <2>2, ModelKept
  <2>3. CASE IsReport(disk'["parity-guest"])
    BY <2>1, <2>3 DEF ModelInv, IsReport, Exported, NotAfter, IsWhole
  <2> QED
    BY <2>1, <2>2, <2>3
<1> QED
  BY <1>1, <1>2, <1>3

\* Of the model that is on the disk and one that gave an earlier report, whatever
\* was run between them has the digest.
LEMMA NoneBetween ==
  ASSUME stage \in {"stage3", "stage4"}, NEW a, NEW b, NEW c,
         Exported(a), Exported(b), Exported(c), a.of <= b.of, b.of <= c.of, DigestIs(a, c)
  PROVE  DigestIs(b, c)
<1>1. <<a.of, b.of>> \in SameModel[stage]
  <2>1. <<a.of, c.of>> \in SameModel[stage]
    BY DEF DigestIs
  <2> QED
    BY <2>1, ReplacedAssumption DEF Exported
<1>2. DigestIs(a, b)
  BY <1>1 DEF DigestIs, Exported
<1>3. stage \in Stages
  BY DEF Stages
<1> QED
  BY <1>2, <1>3, SameDigest

\* The model is not rewritten while a final summary is made of it.
LEMMA FinalNext == TypeInv /\ TrainInv /\ ModelInv /\ FinalInv /\ [Next]_vars => FinalInv'
<1> SUFFICES ASSUME TypeInv, TrainInv, ModelInv, FinalInv, [Next]_vars PROVE FinalInv'
  OBVIOUS
<1> DEFINE seen == host.seen["parity-guest"]
<1>1. {"iforest", "final-summary", "parity-guest"} \subseteq Files
  BY FilesAre DEF FixedFiles
<1>2. ASSUME disk'["final-summary"] = disk["final-summary"] \/ disk'["final-summary"] = Torn,
             stage' = stage
      PROVE  FinalNamesVerifiedModel'
  BY <1>2 DEF FinalInv, FinalNamesVerifiedModel, IsWhole, DigestIs, Torn
<1>3. CASE UNCHANGED vars
  BY <1>3 DEF vars, FinalInv, FinalNamesVerifiedModel, IsWhole, DigestIs, IsReport, Exported,
     NotAfter, Verifying
<1>4. ASSUME NEW s \in Scripts, Start(s)
      PROVE  FinalInv'
  <2>1. /\ UNCHANGED <<stage, disk, guest>> /\ raw <= raw' /\ host'.script = s
        /\ host'.seen = Read(Loads(s)) /\ Readable(Loads(s)) /\ s \in Detection \cup Ablation
    BY <1>4, StartStep
  <2>2. CASE s # "finalize"
    BY <1>2, <2>1, <2>2 DEF FinalInv
  <2>3. CASE s = "finalize"
    <3>1. /\ {"iforest", "parity-guest"} \subseteq DOMAIN Read(Loads(s))
          /\ Read(Loads(s))["parity-guest"] = disk["parity-guest"]
          /\ IsWhole("iforest") /\ IsWhole("parity-guest")
      BY <2>1, <2>3 DEF Loads, Read, Readable, IsWhole
    <3>2. stage \in {"stage3", "stage4"}
      BY <1>4, <2>3 DEF Scripts, Ablation, TypeInv, Stages
    <3>3. raw \in Nat /\ raw' \in Nat
      BY <1>4, StartStep DEF TypeInv
    <3>4. /\ IsReport(disk["parity-guest"])
          /\ Verifying => disk["parity-guest"].names["iforest"].of <= guest.seen.hashed.of
          /\ disk["parity-guest"].names["iforest"].of \in Nat
          /\ disk["parity-guest"].names["loaded"].of \in Nat
      BY <3>1 DEF ModelInv, IsReport, Exported
    <3>5. IsReport(disk["parity-guest"])'
      BY <2>1, <3>3, <3>4 DEF IsReport, Exported, NotAfter, IsWhole
    <3>6. FinalNamesVerifiedModel'
      BY <1>2, <2>1
    <3> QED
      BY <2>1, <2>3, <3>1, <3>2, <3>4, <3>5, <3>6 DEF FinalInv, IsWhole, Verifying, IsReport,
         Exported, NotAfter
  <2> QED
    BY <2>2, <2>3
<1>5. CASE Write
  <2>1. /\ host # Nothing /\ HostType /\ Allows(NextFile) /\ UNCHANGED <<stage, raw, guest>>
        /\ Changes(NextFile) /\ disk'[NextFile] = Content(NextFile)
        /\ host' = Nothing \/ (host'.script = host.script /\ host'.at = host.at + 1)
    BY <1>5, WriteStep
  <2>2. /\ host.script = "finalize" => NextFile = "final-summary" /\ host' = Nothing
        /\ NextFile = "final-summary" => host.script = "finalize"
    <3>1. host.script = "finalize" => NextFile = "final-summary"
      BY <2>1, NextFileIs, WrittenBy
    <3>2. ASSUME host.script = "finalize" PROVE host' = Nothing
      <4>1. Len(Writes(host.script)) = 1
        BY <3>2, OtherWrites
      <4>2. host.at = 1
        BY <2>1, <4>1 DEF HostType
      <4> QED
        BY <1>5, <4>1, <4>2 DEF Write
    <3> QED
      BY <2>1, <3>1, <3>2, WrittenBy
  <2>3. CASE NextFile = "final-summary"
    <3> DEFINE m == disk["iforest"]
               r == IF stage = "stage4" THEN seen ELSE disk["parity-guest"]
    <3>1. /\ FinalizeAllows(host.seen) /\ host.script = "finalize" /\ host' = Nothing
          /\ disk'["final-summary"] = Content("final-summary")
      BY <2>1, <2>2, <2>3 DEF Allows
    <3>2. /\ stage \in {"stage3", "stage4"} /\ IsWhole("iforest") /\ IsReport(seen)
          /\ IsWhole("parity-guest") =>
               seen.names["iforest"].of <= disk["parity-guest"].names["iforest"].of
      BY <3>1 DEF FinalInv
    <3>3. DigestIs(seen.names["iforest"], m)
      BY <3>1, SameDigest DEF FinalizeAllows, TypeInv
    <3>4. Exported(m)
      BY <3>2 DEF ModelInv
    <3>5. ASSUME r.state = "whole" PROVE DigestIs(r.names["loaded"], m)
      <4>1. IsReport(r) /\ seen.names["iforest"].of <= r.names["iforest"].of
        <5>1. CASE stage = "stage4"
          BY <3>2, <5>1 DEF IsReport, Exported
        <5>2. CASE stage # "stage4"
          BY <3>2, <3>5, <5>2 DEF ModelInv, IsWhole
        <5> QED
          BY <5>1, <5>2
      <4> HIDE DEF r, seen, m
      <4>2. /\ Exported(seen.names["iforest"]) /\ Exported(r.names["loaded"])
            /\ seen.names["iforest"].of <= r.names["loaded"].of
        BY <3>2, <4>1 DEF IsReport, Exported
      <4>3. r.names["loaded"].of <= m.of
        BY <3>2, <4>1 DEF IsReport, NotAfter, m
      <4> QED
        BY <3>2, <3>3, <3>4, <4>2, <4>3, NoneBetween
    <3>6. /\ disk'["final-summary"].names["iforest"] = m
          /\ disk'["final-summary"].names["parity-guest"] = r
      BY <3>1, FinalContent
    <3> HIDE DEF r, m, seen
    <3>7. FinalNamesVerifiedModel'
      BY <2>1, <3>5, <3>6 DEF FinalNamesVerifiedModel, DigestIs
    <3> QED
      BY <3>1, <3>7 DEF FinalInv, Nothing
  <2>4. CASE NextFile # "final-summary"
    <3>1. disk'["final-summary"] = disk["final-summary"]
      BY <1>1, <2>1, <2>4 DEF Changes
    <3>2. host'.script # "finalize"
      BY <2>1, <2>2, <2>4 DEF Nothing
    <3> QED
      BY <1>2, <2>1, <3>1, <3>2 DEF FinalInv
  <2> QED
    BY <2>3, <2>4
<1>6. CASE Refuse
  BY <1>2, <1>6, RefuseStep DEF FinalInv, Nothing
<1>7. CASE Interrupt
  <2>1. /\ host' = Nothing /\ stage' = stage
        /\ disk' = disk \/ (Changes(NextFile) /\ disk'[NextFile] = Torn)
    BY <1>7, InterruptStep
  <2>2. disk'["final-summary"] = disk["final-summary"] \/ disk'["final-summary"] = Torn
    BY <1>1, <2>1 DEF Changes
  <2> QED
    BY <1>2, <2>1, <2>2 DEF FinalInv, Nothing
<1>8. CASE GuestReads
  <2>1. /\ UNCHANGED <<stage, raw, disk, host>>
        /\ Verifying' => \/ IsWhole("iforest") /\ guest'.seen.hashed = disk["iforest"]
                         \/ Verifying /\ guest'.seen.hashed = guest.seen.hashed
    BY <1>8, GuestSees
  <2>2. FinalNamesVerifiedModel'
    BY <1>2, <2>1
  <2>3. CASE host.script = "finalize"
    <3>1. /\ stage \in {"stage3", "stage4"} /\ IsWhole("iforest") /\ IsReport(seen)
          /\ {"iforest", "parity-guest"} \subseteq DOMAIN host.seen
          /\ IsWhole("parity-guest") =>
               seen.names["iforest"].of <= disk["parity-guest"].names["iforest"].of
          /\ Verifying => seen.names["iforest"].of <= guest.seen.hashed.of
      BY <2>3 DEF FinalInv
    <3>2. seen.names["iforest"].of <= disk["iforest"].of
      BY <3>1 DEF IsReport, Exported, NotAfter, ModelInv
    <3>3. Verifying' => seen.names["iforest"].of <= guest'.seen.hashed.of
      BY <2>1, <3>1, <3>2
    <3>4. host'.seen = host.seen /\ IsReport(seen)'
      BY <2>1, <3>1 DEF IsReport, Exported, NotAfter, IsWhole
    <3> QED
      BY <2>1, <2>2, <3>1, <3>3, <3>4 DEF FinalInv, IsWhole
  <2>4. CASE host.script # "finalize"
    BY <2>1, <2>2, <2>4 DEF FinalInv
  <2> QED
    BY <2>3, <2>4
<1>9. CASE WriteParity \/ WriteBenchmark
  <2>1. /\ UNCHANGED <<stage, raw, host>> /\ raw \in Nat /\ ~ Verifying'
        /\ disk'["iforest"] = disk["iforest"]
        /\ disk'["final-summary"] = disk["final-summary"]
        /\ \/ disk'["parity-guest"] \in {disk["parity-guest"], Torn}
           \/ /\ Verifying
              /\ disk'["parity-guest"].names["iforest"] = guest.seen.hashed
    BY <1>9, GuestReports
  <2>2. FinalNamesVerifiedModel'
    BY <1>2, <2>1
  <2>3. CASE host.script = "finalize"
    <3>1. /\ stage \in {"stage3", "stage4"} /\ IsWhole("iforest") /\ IsReport(seen)
          /\ {"iforest", "parity-guest"} \subseteq DOMAIN host.seen
          /\ IsWhole("parity-guest") =>
               seen.names["iforest"].of <= disk["parity-guest"].names["iforest"].of
          /\ Verifying => seen.names["iforest"].of <= guest.seen.hashed.of
      BY <2>3 DEF FinalInv
    <3>2. (IsWhole("parity-guest"))' =>
            seen.names["iforest"].of <= disk'["parity-guest"].names["iforest"].of
      BY <2>1, <3>1 DEF IsWhole, Torn
    <3>3. IsReport(seen)'
      BY <2>1, <3>1 DEF IsReport, Exported, NotAfter, IsWhole
    <3> QED
      BY <2>1, <2>2, <3>1, <3>2, <3>3 DEF FinalInv, IsWhole
  <2>4. CASE host.script # "finalize"
    BY <2>1, <2>2, <2>4 DEF FinalInv
  <2> QED
    BY <2>3, <2>4
<1> QED
  BY <1>3, <1>4, <1>5, <1>6, <1>7, <1>8, <1>9 DEF Next, GuestReads

\* stage3-finalize.py and qemu-model-parity.py: whatever was trained or verified
\* again meanwhile, interrupted, and in whatever order, the model a final summary
\* names is the one that was run for the guest report it names.
THEOREM Final == Spec => []FinalNamesVerifiedModel
<1>1. Init => TypeInv /\ TrainInv /\ ModelInv /\ FinalInv
  <2>1. {"final-summary", "iforest", "parity-guest"} \subseteq Files
    BY FilesAre DEF FixedFiles
  <2>2. Init => ModelInv /\ FinalInv
    BY <2>1 DEF Init, ModelInv, FinalInv, FinalNamesVerifiedModel, IsWhole, Missing, Nothing,
       Verifying
  <2> QED
    BY <2>2, TypeInit, TrainInit
<1>2. TypeInv /\ TrainInv /\ ModelInv /\ FinalInv /\ [Next]_vars
        => (TypeInv /\ TrainInv /\ ModelInv /\ FinalInv)'
  BY TypeNext, TrainNext, ModelNext, FinalNext
<1> QED
  BY <1>1, <1>2, PTL DEF Spec, FinalInv

-----------------------------------------------------------------------------
(* What a summary vouches for.                                             *)

\* What a training leaves behind, however it ends.
LEMMA TrainCorrect == Spec => [](VouchInv /\ AcceptedInv)
<1>1. Init => TypeInv /\ TrainInv /\ VouchInv /\ AcceptedInv
  BY TypeInit, TrainInit
<1>2. TypeInv /\ TrainInv /\ VouchInv /\ AcceptedInv /\ [Next]_vars
        => (TypeInv /\ TrainInv /\ VouchInv /\ AcceptedInv)'
  BY TypeNext, TrainNext, VouchNext
<1> QED
  BY <1>1, <1>2, PTL DEF Spec

\* stage3-train-evaluate.py: as long as the files a summary names are on the
\* disk, what is measured there was measured on the collection of the summary.
THEOREM Vouches == Spec => []SummaryVouches
<1>1. VouchInv => SummaryVouches
  <2> SUFFICES ASSUME VouchInv, IsWhole("summary"),
                      \A f \in DOMAIN disk["summary"].names : disk[f] = disk["summary"].names[f],
                      NEW f \in Measured, IsWhole(f)
               PROVE  disk[f].of = disk["summary"].of
    BY DEF SummaryVouches, Measured
  <2>1. /\ disk["features-all"] = disk["summary"].names["features-all"]
        /\ IsWhole("features-all") /\ disk["features-all"].of = disk["summary"].of
        /\ disk["summary"].of <= disk[f].of
    BY DEF VouchInv, IsWhole
  <2>2. /\ f \in TrainFiles /\ "summary" \in TrainFiles
        /\ disk[f].of \in Nat /\ disk["summary"].of \in Nat
        /\ disk[f].of <= disk["features-all"].of
    BY <2>1 DEF VouchInv, TrainFiles, Measured
  <2> QED
    BY <2>1, <2>2
<1> QED
  BY <1>1, TrainCorrect, PTL

\* stage3-train-evaluate.py: however it is interrupted, and whatever is collected
\* in between, the features on the disk are of a collection it accepts, and the
\* metrics of one whose split it found sound and whose model it found to score
\* as the library does.
THEOREM OnlyAccepted == Spec => []AcceptedInv
BY TrainCorrect, PTL

-----------------------------------------------------------------------------
(* The models of the ablation.                                             *)

\* What the scripts of stage 5 put into a file.
LEMMA AblationContent ==
  /\ Content("analysis").state = "whole"
  /\ Content("feature-ablation-results") = Whole(host.raw, [n \in Names |-> disk[ModelFile(n)]])
  /\ Content("guest-parity-manifest") =
       Whole(host.raw, [n \in Names |-> disk[VectorsFile(n)].names[n]])
  /\ Content("paired-bootstrap") =
       Whole(host.seen["feature-ablation-results"].of, [n \in Names |-> host.seen[ModelFile(n)]])
  /\ \A n \in Names :
       /\ Content(ModelFile(n)).state = "whole" /\ Content(ModelFile(n)).of = host.raw
       /\ Content(VectorsFile(n)) = Whole(host.raw, [k \in {n} |-> disk[ModelFile(n)]])
<1> DEFINE V == {VectorsFile(n) : n \in Names}
<1>1. \A f \in {"analysis", "feature-ablation-results", "guest-parity-manifest",
                "paired-bootstrap"} : f \notin V
  BY FixedContent DEF FixedFiles
<1>2. Content("analysis") = Whole(host.raw, << >>)
  BY <1>1 DEF Content
<1>3. Content("feature-ablation-results") = Whole(host.raw, [n \in Names |-> disk[ModelFile(n)]])
  BY <1>1 DEF Content
<1>4. Content("guest-parity-manifest") =
        Whole(host.raw, [n \in Names |-> disk[VectorsFile(n)].names[n]])
  BY <1>1 DEF Content
<1>5. Content("paired-bootstrap") =
        Whole(host.seen["feature-ablation-results"].of, [n \in Names |-> host.seen[ModelFile(n)]])
  BY <1>1 DEF Content
<1>6. ASSUME NEW n \in Names
      PROVE  Content(ModelFile(n)) = Whole(host.raw, << >>)
  <2>1. ModelFile(n) \notin V /\ ModelFile(n) \notin FixedFiles
    BY OwnFiles
  <2> HIDE DEF V
  <2> QED
    BY <2>1 DEF Content, FixedFiles, V
<1>7. ASSUME NEW n \in Names
      PROVE  Content(VectorsFile(n)) = Whole(host.raw, [k \in {n} |-> disk[ModelFile(n)]])
  <2>1. VectorsFile(n) \notin FixedFiles
    BY OwnFiles
  <2>2. (CHOOSE k \in Names : VectorsFile(n) = VectorsFile(k)) = n
    BY OwnFiles
  <2>3. VectorsFile(n) \in V
    OBVIOUS
  <2> QED
    BY <2>1, <2>2, <2>3 DEF Content, FixedFiles
<1>8. Content("analysis").state = "whole"
  BY <1>2 DEF Whole
<1>9. \A n \in Names :
        /\ Content(ModelFile(n)).state = "whole" /\ Content(ModelFile(n)).of = host.raw
  BY <1>6 DEF Whole
<1> QED
  BY <1>3, <1>4, <1>5, <1>7, <1>8, <1>9

\* The files that name the models, for all feature sets.
NamingFiles ==
  {"feature-ablation-results", "paired-bootstrap", "guest-inference-benchmark",
   "guest-parity-manifest"}

\* They are files, and not those of the feature sets.
LEMMA NamingFilesAre ==
  /\ NamingFiles \cup {"analysis"} \subseteq Files \cap FixedFiles
  /\ \A n \in Names : {ModelFile(n), VectorsFile(n), GuestFile(n)} \subseteq Files \ FixedFiles
BY FilesAre, OwnFiles DEF NamingFiles, FixedFiles

\* A step of a script that writes none of the models, nor their directory.
LEMMA ModelsUntouched ==
  ASSUME AblateInv, disk'["analysis"] = disk["analysis"],
         \A n \in Names : disk'[ModelFile(n)] = disk[ModelFile(n)],
         host' = host \/ host'.script # "ablate" \/ (host'.at = 1 /\ disk["analysis"] = Missing)
  PROVE  AblateInv'
<1>1. /\ (IsWhole("analysis"))' <=> IsWhole("analysis")
      /\ \A n \in Names : (IsWhole(ModelFile(n)))' <=> IsWhole(ModelFile(n))
  BY DEF IsWhole
<1>2. \A i \in DOMAIN NameSeq : NameSeq[i] \in Names /\ i \in Nat
  BY NameSeqIs
<1>3. host'.script = "ablate" =>
        /\ disk'["analysis"] = Missing <=> host'.at = 1
        /\ host'.at > 2 => host'.raw \in AcceptedForAblation
        /\ \A i \in DOMAIN NameSeq :
             IF i + 2 < host'.at THEN (IsWhole(ModelFile(NameSeq[i])))'
                                 ELSE disk'[ModelFile(NameSeq[i])] = Missing
  <2>1. CASE host' = host
    BY <1>1, <1>2, <2>1 DEF AblateInv
  <2>2. CASE host'.script # "ablate"
    BY <2>2
  <2>3. CASE host'.at = 1 /\ disk["analysis"] = Missing
    <3>1. \A n \in Names : disk'[ModelFile(n)] = Missing
      BY <2>3 DEF AblateInv
    <3>2. \A i \in DOMAIN NameSeq : ~ (i + 2 < 1)
      BY <1>2
    <3> QED
      BY <1>2, <2>3, <3>1, <3>2
  <2> QED
    BY <2>1, <2>2, <2>3
<1> QED
  BY <1>1, <1>3 DEF AblateInv

\* What is written of a model is as it was, or the ablation writes the model,
\* for the first time.
LEMMA AblateStep ==
  ASSUME TypeInv, AblateInv, Write, host.script = "ablate"
  PROVE  /\ AblateInv'
         /\ \A n \in Names : IsWhole(ModelFile(n)) => disk'[ModelFile(n)] = disk[ModelFile(n)]
<1> DEFINE k == host.at
           n == Len(NameSeq)
<1>1. /\ host # Nothing /\ HostType /\ Allows(NextFile)
      /\ Changes(NextFile) /\ disk'[NextFile] = Content(NextFile)
      /\ \/ host' = Nothing
         \/ host'.script = "ablate" /\ host'.at = k + 1 /\ host'.raw = host.raw
  BY WriteStep
<1>2. \/ k = 1 /\ NextFile = "analysis"
      \/ k = 2 /\ NextFile = "features-enhanced-all"
      \/ \E i \in 1..n : k = i + 2 /\ NextFile = ModelFile(NameSeq[i])
      \/ k = n + 3 /\ NextFile = "feature-ablation-results"
  BY <1>1, NextFileIs
<1>3. n \in Nat /\ DOMAIN NameSeq = 1..n /\ \A i \in 1..n : NameSeq[i] \in Names
  BY NameSeqIs
<1>4. /\ {"analysis", "features-enhanced-all", "feature-ablation-results"} \subseteq Files
      /\ \A m \in Names : /\ ModelFile(m) \in Files
                          /\ ModelFile(m) \notin {"analysis", "features-enhanced-all",
                                                  "feature-ablation-results"}
  BY FilesAre, OwnFiles DEF FixedFiles
<1>5. /\ disk["analysis"] = Missing <=> k = 1
      /\ k > 2 => host.raw \in AcceptedForAblation
      /\ \A i \in 1..n : IF i + 2 < k THEN IsWhole(ModelFile(NameSeq[i]))
                                      ELSE disk[ModelFile(NameSeq[i])] = Missing
      /\ disk["analysis"] = Missing \/ IsWhole("analysis")
      /\ disk["analysis"] = Missing => \A m \in Names : disk[ModelFile(m)] = Missing
      /\ \A m \in Names : IsWhole(ModelFile(m)) => disk[ModelFile(m)].of \in AcceptedForAblation
  BY <1>3 DEF AblateInv
<1>6. \A i \in 1..n : i \in Nat
  BY <1>3
<1> HIDE DEF n, k
<1>7. ASSUME IsWhole("analysis")', k > 1 \/ k = 1, k \in Nat,
             k = 2 => host.raw \in AcceptedForAblation,
             \A m \in Names : IsWhole(ModelFile(m)) => disk'[ModelFile(m)] = disk[ModelFile(m)],
             \A m \in Names : (IsWhole(ModelFile(m)))' => disk'[ModelFile(m)].of \in AcceptedForAblation,
             \A i \in 1..n : i + 2 = k => (IsWhole(ModelFile(NameSeq[i])))',
             \A i \in 1..n : i + 2 # k => disk'[ModelFile(NameSeq[i])] = disk[ModelFile(NameSeq[i])]
      PROVE  AblateInv'
  <2>1. disk'["analysis"] # Missing
    BY <1>7 DEF IsWhole, Missing
  <2>2. ASSUME host'.script = "ablate"
        PROVE  /\ host'.at # 1
               /\ host'.at > 2 => host'.raw \in AcceptedForAblation
               /\ \A i \in 1..n :
                    IF i + 2 < host'.at THEN (IsWhole(ModelFile(NameSeq[i])))'
                                        ELSE disk'[ModelFile(NameSeq[i])] = Missing
    <3>1. host'.at = k + 1 /\ host'.raw = host.raw
      BY <1>1, <2>2 DEF Nothing
    <3>2. k \in Nat /\ k >= 1
      BY <1>7
    <3>3. k + 1 # 1 /\ (k + 1 > 2 => k = 1 \/ k = 2 \/ k > 2) /\ (k = 1 => ~ (k + 1 > 2))
      BY <3>2
    <3>4. ASSUME NEW i \in 1..n
          PROVE  IF i + 2 < k + 1 THEN (IsWhole(ModelFile(NameSeq[i])))'
                                  ELSE disk'[ModelFile(NameSeq[i])] = Missing
      <4>1. CASE i + 2 = k
        <5>1. i + 2 < k + 1
          BY <1>6, <3>2, <4>1
        <5> QED
          BY <1>7, <4>1, <5>1
      <4>2. CASE i + 2 # k
        <5>1. i + 2 < k + 1 <=> i + 2 < k
          BY <1>6, <3>2, <4>2
        <5>2. disk'[ModelFile(NameSeq[i])] = disk[ModelFile(NameSeq[i])]
          BY <1>7, <4>2
        <5> QED
          BY <1>5, <5>1, <5>2 DEF IsWhole
      <4> QED
        BY <4>1, <4>2
    <3> QED
      BY <1>5, <1>7, <3>1, <3>3, <3>4
  <2> QED
    BY <1>3, <1>7, <2>1, <2>2 DEF AblateInv
<1>8. k \in Nat /\ (k > 1 \/ k = 1)
  BY <1>1, <1>2, <1>3 DEF HostType, k
<1>9. CASE k = 1
  <2>1. NextFile = "analysis"
    BY <1>2, <1>3, <1>9
  <2>2. disk'["analysis"].state = "whole"
    BY <1>1, <2>1, AblationContent
  <2>3. \A m \in Names : disk'[ModelFile(m)] = disk[ModelFile(m)]
    BY <1>1, <1>4, <2>1 DEF Changes
  <2>4. \A i \in 1..n : i + 2 # k
    BY <1>6, <1>9
  <2> QED
    BY <1>3, <1>5, <1>7, <1>8, <1>9, <2>2, <2>3, <2>4 DEF IsWhole
<1>10. CASE k # 1 /\ \E i \in 1..n : k = i + 2 /\ NextFile = ModelFile(NameSeq[i])
  <2>1. PICK i \in 1..n : k = i + 2 /\ NextFile = ModelFile(NameSeq[i])
    BY <1>10
  <2>2. k > 2 /\ host.raw \in AcceptedForAblation /\ k # 2
    BY <1>5, <1>6, <2>1
  <2>3. /\ disk'[ModelFile(NameSeq[i])].state = "whole"
        /\ disk'[ModelFile(NameSeq[i])].of = host.raw
    BY <1>1, <1>3, <2>1, AblationContent
  <2>4. disk'["analysis"] = disk["analysis"]
    BY <1>1, <1>3, <1>4, <2>1 DEF Changes
  <2>5. \A m \in Names : m # NameSeq[i] => disk'[ModelFile(m)] = disk[ModelFile(m)]
    BY <1>1, <1>3, <1>4, <2>1, OwnFiles DEF Changes
  <2>6. ~ IsWhole(ModelFile(NameSeq[i]))
    <3>1. ~ (i + 2 < k)
      BY <1>6, <2>1
    <3> QED
      BY <1>5, <3>1 DEF IsWhole, Missing
  <2>7. \A j \in 1..n : j + 2 = k <=> j = i
    BY <1>6, <2>1
  <2>8. \A j \in 1..n : j # i => NameSeq[j] # NameSeq[i]
    BY <1>3, NameSeqIs
  <2>9. \A m \in Names : IsWhole(ModelFile(m)) => disk'[ModelFile(m)] = disk[ModelFile(m)]
    BY <2>5, <2>6
  <2>10. \A m \in Names : (IsWhole(ModelFile(m)))' =>
                            disk'[ModelFile(m)].of \in AcceptedForAblation
    BY <1>5, <2>2, <2>3, <2>5 DEF IsWhole
  <2>11. IsWhole("analysis")'
    BY <1>5, <1>10, <2>4 DEF IsWhole
  <2>12. \A j \in 1..n : j + 2 = k => (IsWhole(ModelFile(NameSeq[j])))'
    BY <2>3, <2>7 DEF IsWhole
  <2>13. \A j \in 1..n : j + 2 # k => disk'[ModelFile(NameSeq[j])] = disk[ModelFile(NameSeq[j])]
    BY <1>3, <2>5, <2>7, <2>8
  <2> QED
    BY <1>7, <1>8, <2>2, <2>9, <2>10, <2>11, <2>12, <2>13
<1>11. CASE k # 1 /\ NextFile \in {"features-enhanced-all", "feature-ablation-results"}
             /\ (k = 2 \/ k = n + 3)
  <2>1. /\ \A m \in Names : disk'[ModelFile(m)] = disk[ModelFile(m)]
        /\ disk'["analysis"] = disk["analysis"]
    BY <1>1, <1>4, <1>11 DEF Changes
  <2>2. \A i \in 1..n : i + 2 # k
    BY <1>3, <1>11
  <2>3. k = 2 => host.raw \in AcceptedForAblation
    <3>1. k = 2 => NextFile = "features-enhanced-all"
      BY <1>2, <1>3
    <3> QED
      BY <1>1, <3>1 DEF Allows, AblateAllows
  <2>4. IsWhole("analysis")'
    BY <1>5, <1>11, <2>1 DEF IsWhole
  <2> QED
    BY <1>3, <1>5, <1>7, <1>8, <2>1, <2>2, <2>3, <2>4 DEF IsWhole
<1> QED
  BY <1>2, <1>9, <1>10, <1>11

\* A model that was cut off is no model, and nothing comes after it.
LEMMA AblateCutOff ==
  ASSUME TypeInv, AblateInv, Interrupt
  PROVE  /\ AblateInv'
         /\ \A n \in Names : IsWhole(ModelFile(n)) => disk'[ModelFile(n)] = disk[ModelFile(n)]
<1>1. /\ host' = Nothing
      /\ \/ disk' = disk
         \/ /\ host # Nothing /\ HostType /\ NextFile # "analysis"
            /\ Changes(NextFile) /\ disk'[NextFile] = Torn
  BY InterruptStep
<1>2. \A n \in Names : ModelFile(n) \in Files /\ ModelFile(n) # "analysis"
  BY NamingFilesAre
<1>3. "analysis" \in Files
  BY NamingFilesAre
<1>4. disk'["analysis"] = disk["analysis"]
  BY <1>1, <1>3 DEF Changes
<1>5. CASE \A n \in Names : disk'[ModelFile(n)] = disk[ModelFile(n)]
  <2>1. host'.script # "ablate"
    BY <1>1 DEF Nothing
  <2> QED
    BY <1>4, <1>5, <2>1, ModelsUntouched
<1>6. CASE ~ \A n \in Names : disk'[ModelFile(n)] = disk[ModelFile(n)]
  <2>1. PICK n \in Names : disk'[ModelFile(n)] # disk[ModelFile(n)]
    BY <1>6
  <2>2. /\ host # Nothing /\ HostType /\ NextFile = ModelFile(n)
        /\ Changes(NextFile) /\ disk'[ModelFile(n)] = Torn
    BY <1>1, <1>2, <2>1 DEF Changes
  <2>3. PICK i \in DOMAIN NameSeq :
          host.script = "ablate" /\ NameSeq[i] = n /\ host.at = i + 2
    BY <2>2, WrittenBy
  <2>4. ~ (i + 2 < host.at) /\ host.at # 1
    BY <2>3, NameSeqIs
  <2>5. disk[ModelFile(n)] = Missing /\ disk["analysis"] # Missing
    BY <2>3, <2>4 DEF AblateInv
  <2>6. \A m \in Names : m # n => disk'[ModelFile(m)] = disk[ModelFile(m)]
    BY <1>2, <2>2, OwnFiles DEF Changes
  <2>7. \A m \in Names : IsWhole(ModelFile(m)) => disk'[ModelFile(m)] = disk[ModelFile(m)]
    BY <2>5, <2>6 DEF IsWhole, Missing
  <2>8. \A m \in Names : (IsWhole(ModelFile(m)))' => disk'[ModelFile(m)].of \in AcceptedForAblation
    BY <2>2, <2>6 DEF IsWhole, Torn, AblateInv
  <2>9. AblateInv'
    BY <1>1, <1>4, <2>5, <2>8 DEF AblateInv, IsWhole, Nothing
  <2> QED
    BY <2>7, <2>9
<1> QED
  BY <1>5, <1>6

\* A model that is there stays as it is.
LEMMA AblateNext ==
  ASSUME TypeInv, AblateInv, [Next]_vars
  PROVE  /\ AblateInv'
         /\ \A n \in Names : IsWhole(ModelFile(n)) => disk'[ModelFile(n)] = disk[ModelFile(n)]
<1>1. /\ "analysis" \in Files /\ "analysis" \in FixedFiles
      /\ \A n \in Names : ModelFile(n) \in Files /\ ModelFile(n) \notin FixedFiles
  BY NamingFilesAre
<1>2. CASE UNCHANGED <<disk, host>>
  BY <1>2, ModelsUntouched
<1>3. ASSUME NEW s \in Scripts, Start(s)
      PROVE  AblateInv' /\ disk' = disk
  <2>1. /\ disk' = disk /\ host'.script = s /\ host'.at = 1
        /\ s = "ablate" => disk["analysis"] = Missing
    BY <1>3, StartStep
  <2> QED
    BY <2>1, ModelsUntouched
<1>4. CASE Write /\ host.script # "ablate"
  <2>1. /\ host # Nothing /\ HostType /\ Changes(NextFile)
        /\ host' = Nothing \/ host'.script = host.script
    BY <1>4, WriteStep
  <2>2. NextFile # "analysis" /\ \A n \in Names : NextFile # ModelFile(n)
    BY <1>4, <2>1, WrittenBy
  <2>3. /\ disk'["analysis"] = disk["analysis"]
        /\ \A n \in Names : disk'[ModelFile(n)] = disk[ModelFile(n)]
    BY <1>1, <2>1, <2>2 DEF Changes
  <2>4. host'.script # "ablate"
    BY <1>4, <2>1 DEF Nothing
  <2> QED
    BY <2>3, <2>4, ModelsUntouched
<1>5. CASE Refuse
  <2>1. disk' = disk /\ host'.script # "ablate"
    BY <1>5, RefuseStep DEF Nothing
  <2> QED
    BY <2>1, ModelsUntouched
<1>6. CASE GuestReads
  BY <1>2, <1>6, GuestReadsStep
<1>7. CASE WriteParity \/ WriteBenchmark
  <2>1. /\ host' = host
        /\ \/ Changes("guest-inference-benchmark") \/ Changes("parity-guest")
           \/ guest.name \in Names /\ Changes(GuestFile(guest.name))
    BY <1>7, GuestWritesStep
  <2>2. \A m, n \in Names : ModelFile(n) # GuestFile(m) /\ GuestFile(m) # "analysis"
    BY <1>1, OwnFiles
  <2>3. /\ disk'["analysis"] = disk["analysis"]
        /\ \A n \in Names : disk'[ModelFile(n)] = disk[ModelFile(n)]
    <3>1. {"guest-inference-benchmark", "parity-guest"} \subseteq FixedFiles \ {"analysis"}
      BY DEF FixedFiles
    <3> QED
      BY <1>1, <2>1, <2>2, <3>1 DEF Changes
  <2> QED
    BY <2>1, <2>3, ModelsUntouched
<1> QED
  BY <1>2, <1>3, <1>4, <1>5, <1>6, <1>7, AblateStep, AblateCutOff DEF Next, GuestReads, vars

\* The n-th model of the ablation, after a step.
StillModel(n, file) ==
  file = disk'[ModelFile(n)] /\ file.state = "whole" /\ file.of \in AcceptedForAblation

\* A model that a file or a script names is still the one on the disk.
LEMMA ModelsKept ==
  ASSUME AblateInv, \A n \in Names : IsWhole(ModelFile(n)) => disk'[ModelFile(n)] = disk[ModelFile(n)]
  PROVE  \A n \in Names : \A x : IsModel(n, x) => StillModel(n, x)
BY DEF IsModel, StillModel, IsWhole

\* A model that is there is one the ablation accepts.
LEMMA ModelOnDisk ==
  ASSUME AblateInv, NEW n \in Names, IsWhole(ModelFile(n))
  PROVE  IsModel(n, disk[ModelFile(n)])
BY DEF AblateInv, IsModel, IsWhole

\* It is enough to look at what is written anew.
LEMMA NamedFrame ==
  ASSUME NamedInv, \A n \in Names : \A x : IsModel(n, x) => StillModel(n, x),
         \A f \in NamingFiles :
            \/ disk'[f] = disk[f] \/ disk'[f] = Torn
            \/ /\ \A n \in Names : StillModel(n, disk'[f].names[n])
               /\ f \in {"feature-ablation-results", "paired-bootstrap"} =>
                    disk'[f].of \in AcceptedForAblation,
         \A n \in Names : \A f \in {VectorsFile(n), GuestFile(n)} :
            \/ disk'[f] = disk[f] \/ disk'[f] = Torn
            \/ StillModel(n, disk'[f].names[n])
  PROVE  NamedInv'
<1>1. \A f : disk'[f] = Torn => ~ (IsWhole(f))'
  BY DEF Torn, IsWhole
<1>2. \A f : disk'[f] = disk[f] => ((IsWhole(f))' <=> IsWhole(f))
  BY DEF IsWhole
<1>3. ASSUME NEW f \in NamingFiles
      PROVE  (NamesModels(f))'
  <2>1. CASE disk'[f] = disk[f]
    <3>1. NamesModels(f)
      BY DEF NamedInv, NamingFiles
    <3>2. ASSUME (IsWhole(f))', NEW n \in Names
          PROVE  StillModel(n, disk'[f].names[n])
      BY <1>2, <2>1, <3>1, <3>2 DEF NamesModels
    <3> QED
      BY <3>2 DEF NamesModels, IsModel, StillModel
  <2>2. CASE disk'[f] = Torn
    BY <1>1, <2>2 DEF NamesModels
  <2>3. CASE \A n \in Names : StillModel(n, disk'[f].names[n])
    BY <2>3 DEF NamesModels, IsModel, StillModel
  <2> QED
    BY <2>1, <2>2, <2>3
<1>4. ASSUME NEW n \in Names, NEW f \in {VectorsFile(n), GuestFile(n)}, (IsWhole(f))'
      PROVE  StillModel(n, disk'[f].names[n])
  <2>1. CASE disk'[f] = disk[f]
    <3>1. IsModel(n, disk[f].names[n])
      BY <1>2, <1>4, <2>1 DEF NamedInv
    <3> QED
      BY <2>1, <3>1
  <2> QED
    BY <1>1, <1>4, <2>1
<1>5. ASSUME NEW f \in {"feature-ablation-results", "paired-bootstrap"}, (IsWhole(f))'
      PROVE  disk'[f].of \in AcceptedForAblation
  <2>1. f \in NamingFiles
    BY DEF NamingFiles
  <2>2. CASE disk'[f] = disk[f]
    BY <1>2, <1>5, <2>2 DEF NamedInv
  <2> QED
    BY <1>1, <1>5, <2>1, <2>2
<1>6. ASSUME NEW n \in Names
      PROVE  /\ (IsWhole(VectorsFile(n)))' => (IsModel(n, disk[VectorsFile(n)].names[n]))'
             /\ (IsWhole(GuestFile(n)))' => (IsModel(n, disk[GuestFile(n)].names[n]))'
  BY <1>4 DEF IsModel, StillModel
<1> QED
  BY <1>3, <1>5, <1>6 DEF NamedInv, NamingFiles

\* Torn files and those that are as they were name no model anew.
LEMMA NamedUntouched ==
  ASSUME NamedInv, \A n \in Names : \A x : IsModel(n, x) => StillModel(n, x),
         disk' = disk \/ \E w : Changes(w) /\ (disk'[w] = Torn \/ w \notin
            NamingFiles \cup {VectorsFile(n) : n \in Names} \cup {GuestFile(n) : n \in Names})
  PROVE  NamedInv'
<1> DEFINE All == NamingFiles \cup {VectorsFile(n) : n \in Names} \cup {GuestFile(n) : n \in Names}
<1>1. All \subseteq Files
  BY NamingFilesAre
<1>2. \A f \in All : disk'[f] = disk[f] \/ disk'[f] = Torn
  BY <1>1 DEF Changes
<1>3. /\ \A f \in NamingFiles : f \in All
      /\ \A n \in Names : VectorsFile(n) \in All /\ GuestFile(n) \in All
  OBVIOUS
<1> HIDE DEF All
<1> QED
  BY <1>2, <1>3, NamedFrame

\* What a script of stage 5 writes names the models on the disk.
LEMMA NamedWrite ==
  ASSUME TypeInv, AblationInv, Write,
         \A n \in Names : \A x : IsModel(n, x) => StillModel(n, x)
  PROVE  NamedInv'
<1> DEFINE V == {VectorsFile(n) : n \in Names}
           G == {GuestFile(n) : n \in Names}
<1>1. /\ host # Nothing /\ HostType /\ Allows(NextFile)
      /\ Changes(NextFile) /\ disk'[NextFile] = Content(NextFile)
  BY WriteStep
<1>2. NextFile \notin {"guest-inference-benchmark"} \cup G
  BY <1>1, WrittenBy
<1>3. /\ NamingFiles \subseteq Files /\ V \subseteq Files /\ G \subseteq Files
      /\ \A f \in NamingFiles : f \notin V /\ f \notin G
      /\ \A m, n \in Names : VectorsFile(m) # GuestFile(n)
  BY NamingFilesAre, OwnFiles
<1>4. CASE NextFile \notin NamingFiles \cup V \cup G
  BY <1>1, <1>4, NamedUntouched DEF AblationInv
<1>5. ASSUME NEW w \in NamingFiles, NextFile = w,
             \A n \in Names : IsModel(n, Content(w).names[n]),
             w \in {"feature-ablation-results", "paired-bootstrap"} =>
               Content(w).of \in AcceptedForAblation
      PROVE  NamedInv'
  <2>1. \A n \in Names : StillModel(n, disk'[w].names[n])
    BY <1>1, <1>5
  <2>2. \A f \in NamingFiles \ {w} : disk'[f] = disk[f]
    BY <1>1, <1>3, <1>5 DEF Changes
  <2>3. \A n \in Names : \A f \in {VectorsFile(n), GuestFile(n)} : disk'[f] = disk[f]
    BY <1>1, <1>3, <1>5 DEF Changes
  <2> QED
    BY <1>1, <1>5, <2>1, <2>2, <2>3, NamedFrame DEF AblationInv
<1>6. CASE NextFile = "feature-ablation-results"
  <2>1. host.script = "ablate" /\ host.at = Len(NameSeq) + 3
    BY <1>1, <1>6, WrittenBy
  <2>2. host.at > 2 /\ \A i \in DOMAIN NameSeq : i + 2 < host.at
    BY <2>1, NameSeqIs
  <2>3. host.raw \in AcceptedForAblation /\ \A i \in DOMAIN NameSeq : IsWhole(ModelFile(NameSeq[i]))
    BY <2>1, <2>2 DEF AblationInv, AblateInv
  <2>4. \A n \in Names : IsWhole(ModelFile(n))
    BY <2>3, NameSeqIs
  <2>5. \A n \in Names : IsModel(n, disk[ModelFile(n)])
    BY <2>4, ModelOnDisk DEF AblationInv
  <2>6. Content(NextFile) = Whole(host.raw, [n \in Names |-> disk[ModelFile(n)]])
    BY <1>6, AblationContent
  <2>7. /\ Content(NextFile).of = host.raw
        /\ \A n \in Names : Content(NextFile).names[n] = disk[ModelFile(n)]
    BY <2>6 DEF Whole
  <2> QED
    BY <1>5, <1>6, <2>3, <2>5, <2>7 DEF NamingFiles
<1>7. CASE NextFile = "paired-bootstrap"
  <2>1. host.script = "compare"
    BY <1>1, <1>7, WrittenBy
  <2>2. /\ \A n \in Names : IsModel(n, host.seen[ModelFile(n)])
        /\ host.seen["feature-ablation-results"].of \in AcceptedForAblation
    BY <2>1 DEF AblationInv, HostRead
  <2>3. Content(NextFile) = Whole(host.seen["feature-ablation-results"].of,
                                  [n \in Names |-> host.seen[ModelFile(n)]])
    BY <1>7, AblationContent
  <2>4. /\ Content(NextFile).of = host.seen["feature-ablation-results"].of
        /\ \A n \in Names : Content(NextFile).names[n] = host.seen[ModelFile(n)]
    BY <2>3 DEF Whole
  <2> QED
    BY <1>5, <1>7, <2>2, <2>4 DEF NamingFiles
<1>8. CASE NextFile = "guest-parity-manifest"
  <2>1. host.script = "prepare" /\ host.at = Len(NameSeq) + 1
    BY <1>1, <1>8, WrittenBy
  <2>2. \A i \in DOMAIN NameSeq : i \in 1..(host.at - 1)
    BY <2>1, NameSeqIs
  <2>3. \A i \in DOMAIN NameSeq : IsWhole(VectorsFile(NameSeq[i]))
    BY <2>1, <2>2 DEF AblationInv, HostRead
  <2>4. \A n \in Names : IsWhole(VectorsFile(n))
    BY <2>3, NameSeqIs
  <2>5. \A n \in Names : IsModel(n, disk[VectorsFile(n)].names[n])
    BY <2>4 DEF AblationInv, NamedInv
  <2>6. Content(NextFile) = Whole(host.raw, [n \in Names |-> disk[VectorsFile(n)].names[n]])
    BY <1>8, AblationContent
  <2>7. \A n \in Names : Content(NextFile).names[n] = disk[VectorsFile(n)].names[n]
    BY <2>6 DEF Whole
  <2> QED
    BY <1>5, <1>8, <2>5, <2>7 DEF NamingFiles
<1>9. CASE NextFile \in V
  <2>1. PICK n \in Names : NextFile = VectorsFile(n)
    BY <1>9
  <2>2. host.script = "prepare"
    BY <1>1, <2>1, WrittenBy
  <2>3. IsWhole(ModelFile(n))
    BY <1>1, <2>1, <2>2 DEF Allows, PrepareAllows, Readable, IsWhole
  <2>4. Content(VectorsFile(n)) = Whole(host.raw, [k \in {n} |-> disk[ModelFile(n)]])
    BY AblationContent
  <2>5. disk'[VectorsFile(n)].names[n] = disk[ModelFile(n)]
    BY <1>1, <2>1, <2>4 DEF Whole
  <2>6. IsModel(n, disk[ModelFile(n)])
    BY <2>3, ModelOnDisk DEF AblationInv
  <2>7. StillModel(n, disk'[VectorsFile(n)].names[n])
    BY <2>5, <2>6
  <2>8. /\ \A f \in NamingFiles : disk'[f] = disk[f]
        /\ \A m \in Names : disk'[GuestFile(m)] = disk[GuestFile(m)]
    BY <1>1, <1>3, <2>1 DEF Changes
  <2>9. \A m \in Names : m # n => disk'[VectorsFile(m)] = disk[VectorsFile(m)]
    BY <1>1, <1>3, <2>1, OwnFiles DEF Changes
  <2> QED
    BY <2>7, <2>8, <2>9, NamedFrame DEF AblationInv
<1> QED
  BY <1>2, <1>4, <1>6, <1>7, <1>8, <1>9 DEF NamingFiles

\* What a script in the guest writes names the models on the disk.
LEMMA NamedReport ==
  ASSUME TypeInv, AblationInv, WriteParity \/ WriteBenchmark,
         \A n \in Names : \A x : IsModel(n, x) => StillModel(n, x)
  PROVE  NamedInv'
<1>1. /\ NamingFiles \subseteq Files /\ "parity-guest" \notin NamingFiles
      /\ "guest-inference-benchmark" \in NamingFiles
      /\ \A n \in Names : /\ VectorsFile(n) \in Files /\ GuestFile(n) \in Files
                          /\ \A f \in NamingFiles \cup {"parity-guest"} :
                               f # VectorsFile(n) /\ f # GuestFile(n)
      /\ \A m, n \in Names : VectorsFile(m) # GuestFile(n)
  BY NamingFilesAre, OwnFiles DEF NamingFiles, FixedFiles
<1>2. CASE Changes("parity-guest")
  BY <1>1, <1>2, NamedUntouched DEF AblationInv
<1>3. CASE /\ guest.script = "benchmark" /\ Changes("guest-inference-benchmark")
           /\ disk'["guest-inference-benchmark"] \in {Torn, Whole(0, guest.seen)}
  <2>1. \A n \in Names : IsModel(n, guest.seen[n])
    BY <1>3 DEF AblationInv, GuestRead
  <2>2. \/ disk'["guest-inference-benchmark"] = Torn
        \/ \A n \in Names : StillModel(n, disk'["guest-inference-benchmark"].names[n])
    BY <1>3, <2>1 DEF Whole
  <2>3. \A f \in NamingFiles \ {"guest-inference-benchmark"} : disk'[f] = disk[f]
    BY <1>1, <1>3 DEF Changes
  <2>4. \A n \in Names : \A f \in {VectorsFile(n), GuestFile(n)} : disk'[f] = disk[f]
    BY <1>1, <1>3 DEF Changes
  <2> QED
    BY <2>2, <2>3, <2>4, NamedFrame DEF AblationInv
<1>4. CASE /\ guest.script = "parity" /\ guest.name \in Names /\ Changes(GuestFile(guest.name))
           /\ disk'[GuestFile(guest.name)] \in
                {Torn, Report(guest.seen.hashed)}
  <2> DEFINE n == guest.name
  <2>1. IsModel(n, guest.seen.hashed)
    BY <1>4 DEF AblationInv, GuestRead
  <2>2. disk'[GuestFile(n)] = Torn \/ disk'[GuestFile(n)].names[n] = guest.seen.hashed
    <3>1. guest.name # "detector"
      BY <1>4, NamesAssumption
    <3>2. Report(guest.seen.hashed).names[guest.name] = guest.seen.hashed
      BY <1>4, <3>1, ReportIs
    <3> QED
      BY <1>4, <3>2
  <2>3. disk'[GuestFile(n)] = Torn \/ StillModel(n, disk'[GuestFile(n)].names[n])
    <3>1. StillModel(n, guest.seen.hashed)
      BY <1>4, <2>1
    <3> HIDE DEF n
    <3> QED
      BY <2>2, <3>1 DEF StillModel
  <2>4. /\ \A f \in NamingFiles : disk'[f] = disk[f]
        /\ \A m \in Names : disk'[VectorsFile(m)] = disk[VectorsFile(m)]
    BY <1>1, <1>4 DEF Changes
  <2>5. \A m \in Names : m # n => disk'[GuestFile(m)] = disk[GuestFile(m)]
    BY <1>1, <1>4, OwnFiles DEF Changes
  <2> QED
    BY <2>3, <2>4, <2>5, NamedFrame DEF AblationInv
<1> QED
  BY <1>2, <1>3, <1>4, GuestWritesStep

\* What the guest has read is still on the disk.
LEMMA GuestReadKept ==
  ASSUME GuestRead, \A n \in Names : \A x : IsModel(n, x) => StillModel(n, x),
         guest' = guest \/ guest' = Nothing
  PROVE  GuestRead'
<1>1. \/ guest' = guest
      \/ guest'.script \notin {"benchmark", "parity"}
  BY DEF Nothing
<1>2. CASE guest' = guest
  <2>1. /\ guest.script = "benchmark" => \A n \in Names : StillModel(n, guest.seen[n])
        /\ guest.script = "parity" =>
             \A n \in Names : guest.name = n => StillModel(n, guest.seen.hashed)
    BY DEF GuestRead
  <2> QED
    BY <1>2, <2>1 DEF GuestRead, IsModel, StillModel
<1> QED
  BY <1>1, <1>2 DEF GuestRead

\* What the guest reads is.
LEMMA GuestReadNext ==
  ASSUME TypeInv, AblationInv, GuestReads
  PROVE  GuestRead'
<1>1. disk' = disk
  BY GuestReadsStep
<1>2. \A n \in Names : \A x : IsModel(n, x) => StillModel(n, x)
  BY <1>1 DEF IsModel, StillModel
<1>3. CASE \E n \in Models : HashModel(n)
  <2>1. PICK n \in Models : HashModel(n)
    BY <1>3
  <2>2. guest' = [script |-> "parity", at |-> 1, name |-> n,
                  seen |-> [vectors |-> disk[ParityFiles(n).vectors],
                            hashed |-> disk[ParityFiles(n).model]]]
    BY <2>1 DEF HashModel, Visit
  <2>3. n \in Names => StillModel(n, guest'.seen.hashed)
    <3> SUFFICES ASSUME n \in Names PROVE StillModel(n, guest'.seen.hashed)
      OBVIOUS
    <3>1. n # "detector"
      BY NamesAssumption
    <3>2. ParityFiles(n).model = ModelFile(n)
      BY <3>1 DEF ParityFiles
    <3>3. IsWhole(ModelFile(n))
      BY <2>1, <3>1, <3>2 DEF HashModel, AblationDigestIs, IsWhole
    <3>4. IsModel(n, disk[ModelFile(n)])
      BY <3>3, ModelOnDisk DEF AblationInv
    <3> QED
      BY <1>2, <2>2, <3>2, <3>4
  <2>4. guest'.script = "parity" /\ guest'.name = n
    BY <2>2
  <2> QED
    BY <2>3, <2>4 DEF GuestRead, IsModel, StillModel
<1>4. CASE LoadModel
  <2>1. /\ guest # Nothing /\ guest.script = "parity"
        /\ guest = [script |-> guest.script, at |-> guest.at, name |-> guest.name,
                    seen |-> guest.seen]
    BY <1>4 DEF LoadModel, TypeInv, GuestType
  <2>2. \/ guest' = Nothing
        \/ guest' = [guest EXCEPT !.at = 2,
                       !.seen = [vectors |-> @.vectors, hashed |-> @.hashed,
                                 loaded |-> disk[ParityFiles(guest.name).model]]]
    BY <1>4 DEF LoadModel
  <2>3. CASE guest' = Nothing
    BY <1>2, <2>3, GuestReadKept DEF AblationInv
  <2>4. CASE guest' # Nothing
    <3>1. /\ guest'.script = "parity" /\ guest'.name = guest.name
          /\ guest'.seen.hashed = guest.seen.hashed
      <4> DEFINE x == disk[ParityFiles(guest.name).model]
                 y == [vectors |-> guest.seen.vectors, hashed |-> guest.seen.hashed,
                       loaded |-> x]
      <4>1. guest' = [guest EXCEPT !.at = 2, !.seen = y]
        BY <2>1, <2>2, <2>4
      <4>2. y.hashed = guest.seen.hashed
        OBVIOUS
      <4> HIDE DEF x, y
      <4> QED
        BY <2>1, <4>1, <4>2
    <3>2. \A n \in Names : guest.name = n => StillModel(n, guest.seen.hashed)
      BY <1>2, <2>1 DEF AblationInv, GuestRead
    <3> QED
      BY <3>1, <3>2 DEF GuestRead, IsModel, StillModel
  <2> QED
    BY <2>3, <2>4
<1>5. CASE StartBenchmark
  <2>1. /\ guest'.script = "benchmark" /\ guest'.seen = [n \in Names |-> disk[ModelFile(n)]]
        /\ \A n \in Names : IsWhole(ModelFile(n))
    BY <1>5 DEF StartBenchmark, Visit, Readable, IsWhole
  <2>2. \A n \in Names : StillModel(n, guest'.seen[n])
    <3>1. \A n \in Names : IsModel(n, disk[ModelFile(n)])
      BY <2>1, ModelOnDisk DEF AblationInv
    <3> QED
      BY <1>2, <2>1, <3>1
  <2> QED
    BY <2>1, <2>2 DEF GuestRead, IsModel, StillModel
<1>6. CASE GuestEnds
  BY <1>2, <1>6, GuestReadKept DEF AblationInv, GuestEnds
<1> QED
  BY <1>3, <1>4, <1>5, <1>6 DEF GuestReads

\* A script on the host that has read the models goes on, or ends.
LEMMA HostReadKept ==
  ASSUME HostType, HostRead, \A n \in Names : \A x : IsModel(n, x) => StillModel(n, x),
         \/ host'.script \notin {"compare", "prepare"}
         \/ /\ host' = host
            /\ \A n \in Names : disk'[VectorsFile(n)] = disk[VectorsFile(n)]
  PROVE  HostRead'
<1>1. CASE host'.script \notin {"compare", "prepare"}
  BY <1>1 DEF HostRead
<1>2. CASE /\ host' = host
           /\ \A n \in Names : disk'[VectorsFile(n)] = disk[VectorsFile(n)]
  <2>1. host.script = "compare" =>
          /\ \A n \in Names : StillModel(n, host.seen[ModelFile(n)])
          /\ host.seen["feature-ablation-results"].of \in AcceptedForAblation
    BY DEF HostRead
  <2>2. ASSUME host.script = "prepare", NEW i \in 1..(host.at - 1)
        PROVE  (IsWhole(VectorsFile(NameSeq[i])))'
    <3>1. IsWhole(VectorsFile(NameSeq[i]))
      BY <2>2 DEF HostRead
    <3>2. host # Nothing
      BY <2>2 DEF Nothing
    <3>3. host.at \in 1..(Len(NameSeq) + 1)
      BY <2>2, <3>2, PrepareWrites DEF HostType
    <3>4. NameSeq[i] \in Names
      BY <3>3, NameSeqIs
    <3> QED
      BY <1>2, <3>1, <3>4 DEF IsWhole
  <2> QED
    BY <1>2, <2>1, <2>2 DEF HostRead, IsModel, StillModel
<1> QED
  BY <1>1, <1>2

\* What the host reads is on the disk; what it writes is of what it has read.
LEMMA HostReadNext ==
  ASSUME TypeInv, AblationInv, [Next]_vars,
         \A n \in Names : \A x : IsModel(n, x) => StillModel(n, x)
  PROVE  HostRead'
<1>1. HostType /\ HostRead
  BY DEF TypeInv, AblationInv
<1>2. \A n \in Names : VectorsFile(n) \in Files
  BY NamingFilesAre
<1>3. CASE UNCHANGED <<disk, host>>
  BY <1>1, <1>3, HostReadKept
<1>4. CASE host'.script \notin {"compare", "prepare"}
  BY <1>1, <1>4, HostReadKept
<1>5. ASSUME NEW s \in Scripts, Start(s)
      PROVE  HostRead'
  <2>1. /\ disk' = disk /\ host'.script = s /\ host'.at = 1
        /\ host'.seen = Read(Loads(s)) /\ Readable(Loads(s))
    BY <1>5, StartStep
  <2>2. s = "compare" =>
          /\ \A n \in Names : StillModel(n, host'.seen[ModelFile(n)])
          /\ host'.seen["feature-ablation-results"].of \in AcceptedForAblation
    <3> SUFFICES ASSUME s = "compare"
                 PROVE  /\ \A n \in Names : StillModel(n, host'.seen[ModelFile(n)])
                        /\ host'.seen["feature-ablation-results"].of \in AcceptedForAblation
      OBVIOUS
    <3>1. /\ "feature-ablation-results" \in Loads(s)
          /\ \A n \in Names : ModelFile(n) \in Loads(s)
      BY DEF Loads
    <3>2. \A f \in Loads(s) : host'.seen[f] = disk[f] /\ IsWhole(f)
      BY <2>1 DEF Read, Readable, IsWhole
    <3>3. \A n \in Names : IsModel(n, disk[ModelFile(n)])
      BY <3>1, <3>2, ModelOnDisk DEF AblationInv
    <3> QED
      BY <3>1, <3>2, <3>3 DEF AblationInv, NamedInv
  <2>3. \A i \in 1..(1 - 1) : FALSE
    OBVIOUS
  <2> QED
    BY <2>1, <2>2, <2>3 DEF HostRead, IsModel, StillModel
<1>6. CASE Write
  <2>1. /\ host # Nothing /\ Changes(NextFile) /\ disk'[NextFile] = Content(NextFile)
        /\ \/ host' = Nothing
           \/ host'.script = host.script /\ host'.at = host.at + 1
    BY <1>6, WriteStep
  <2>2. CASE host' = Nothing
    BY <1>4, <2>2 DEF Nothing
  <2>3. CASE host' # Nothing /\ host.script = "compare"
    <3>1. host' = Nothing
      <4>1. Len(Writes("compare")) = 1
        BY OtherWrites
      <4>2. host.at = 1
        <5>1. host.at \in 1..Len(Writes("compare"))
          BY <1>1, <2>1, <2>3 DEF HostType
        <5>2. host.at \in 1..1
          BY <4>1, <5>1
        <5> QED
          BY <5>2
      <4> QED
        BY <1>6, <2>3, <4>1, <4>2 DEF Write
    <3> QED
      BY <2>3, <3>1
  <2>4. CASE host' # Nothing /\ host.script = "prepare"
    <3>1. host.at \in 1..(Len(NameSeq) + 1) /\ host'.script = "prepare" /\ host'.at = host.at + 1
      BY <1>1, <2>1, <2>4, PrepareWrites DEF HostType
    <3>2. host.at # Len(NameSeq) + 1
      BY <1>6, <2>4, PrepareWrites DEF Write
    <3>3. Len(NameSeq) \in Nat
      BY NameSeqIs
    <3>4. host.at \in 1..Len(NameSeq)
      BY <3>1, <3>2, <3>3
    <3>5. NextFile = VectorsFile(NameSeq[host.at])
      BY <2>4, <3>4, PrepareWrites DEF NextFile
    <3>6. \A i \in 1..host.at : NameSeq[i] \in Names
      BY <3>3, <3>4, NameSeqIs
    <3>7. ASSUME NEW i \in 1..host.at
          PROVE  (IsWhole(VectorsFile(NameSeq[i])))'
      <4>1. CASE i = host.at
        <5>1. NameSeq[i] \in Names
          BY <3>6
        <5>2. Content(VectorsFile(NameSeq[i])).state = "whole"
          <6> DEFINE m == NameSeq[i]
                     d == [k \in {m} |-> disk[ModelFile(m)]]
          <6>1. Content(VectorsFile(m)) = Whole(host.raw, d)
            BY <5>1, AblationContent
          <6> HIDE DEF d
          <6> QED
            BY <6>1 DEF Whole
        <5> QED
          BY <2>1, <3>5, <4>1, <5>2 DEF IsWhole
      <4>2. CASE i # host.at
        <5>1. i \in 1..(host.at - 1)
          BY <3>4, <4>2
        <5>2. IsWhole(VectorsFile(NameSeq[i]))
          BY <1>1, <2>4, <5>1 DEF HostRead
        <5>3. NameSeq[i] \in Names /\ NameSeq[host.at] \in Names /\ NameSeq[i] # NameSeq[host.at]
          <6>1. i \in DOMAIN NameSeq /\ host.at \in DOMAIN NameSeq
            BY <3>3, <3>4, NameSeqIs
          <6> QED
            BY <4>2, <6>1, NameSeqIs
        <5>4. VectorsFile(NameSeq[i]) # NextFile
          BY <3>5, <5>3, OwnFiles
        <5> QED
          BY <1>2, <2>1, <5>2, <5>3, <5>4 DEF Changes, IsWhole
      <4> QED
        BY <4>1, <4>2
    <3>8. host'.at - 1 = host.at
      BY <3>1, <3>4
    <3> QED
      BY <3>1, <3>7, <3>8 DEF HostRead
  <2>5. CASE host' # Nothing /\ host.script \notin {"compare", "prepare"}
    BY <1>4, <2>1, <2>5
  <2> QED
    BY <2>2, <2>3, <2>4, <2>5
<1>7. CASE Refuse \/ Interrupt
  <2>1. host' = Nothing
    BY <1>7, RefuseStep, InterruptStep
  <2> QED
    BY <1>4, <2>1 DEF Nothing
<1>8. CASE GuestReads
  BY <1>3, <1>8, GuestReadsStep
<1>9. CASE WriteParity \/ WriteBenchmark
  <2>1. /\ host' = host
        /\ \/ Changes("guest-inference-benchmark") \/ Changes("parity-guest")
           \/ guest.name \in Names /\ Changes(GuestFile(guest.name))
    BY <1>9, GuestWritesStep
  <2>2. \A n \in Names : /\ VectorsFile(n) \notin {"guest-inference-benchmark", "parity-guest"}
                         /\ \A m \in Names : VectorsFile(n) # GuestFile(m)
    BY OwnFiles DEF FixedFiles
  <2>3. \A n \in Names : disk'[VectorsFile(n)] = disk[VectorsFile(n)]
    BY <1>2, <2>1, <2>2 DEF Changes
  <2> QED
    BY <1>1, <2>1, <2>3, HostReadKept
<1> QED
  BY <1>3, <1>5, <1>6, <1>7, <1>8, <1>9 DEF Next, GuestReads, vars

\* Every step keeps the models what the files say they are.
LEMMA AblationNext == TypeInv /\ AblationInv /\ [Next]_vars => AblationInv'
<1> SUFFICES ASSUME TypeInv, AblationInv, [Next]_vars PROVE AblationInv'
  OBVIOUS
<1>1. /\ AblateInv'
      /\ \A n \in Names : IsWhole(ModelFile(n)) => disk'[ModelFile(n)] = disk[ModelFile(n)]
  BY AblateNext DEF AblationInv
<1>2. \A n \in Names : \A x : IsModel(n, x) => StillModel(n, x)
  BY <1>1, ModelsKept DEF AblationInv
<1>3. HostRead'
  BY <1>2, HostReadNext
<1>4. NamedInv /\ GuestRead
  BY DEF AblationInv
<1>5. ASSUME UNCHANGED <<disk, guest>>
      PROVE  NamedInv' /\ GuestRead'
  BY <1>2, <1>4, <1>5, NamedUntouched, GuestReadKept
<1>6. NamedInv' /\ GuestRead'
  <2>1. CASE UNCHANGED vars
    BY <1>5, <2>1 DEF vars
  <2>2. ASSUME NEW s \in Scripts, Start(s)
        PROVE  NamedInv' /\ GuestRead'
    BY <1>5, <2>2, StartStep
  <2>3. CASE Write
    <3>1. guest' = guest
      BY <2>3, WriteStep
    <3> QED
      BY <1>2, <1>4, <2>3, <3>1, NamedWrite, GuestReadKept
  <2>4. CASE Refuse
    BY <1>5, <2>4, RefuseStep
  <2>5. CASE Interrupt
    <3>1. /\ guest' = guest
          /\ disk' = disk \/ (Changes(NextFile) /\ disk'[NextFile] = Torn)
      BY <2>5, InterruptStep
    <3> QED
      BY <1>2, <1>4, <3>1, NamedUntouched, GuestReadKept
  <2>6. CASE GuestReads
    <3>1. disk' = disk
      BY <2>6, GuestReadsStep
    <3> QED
      BY <1>2, <1>4, <2>6, <3>1, NamedUntouched, GuestReadNext
  <2>7. CASE WriteParity \/ WriteBenchmark
    <3>1. guest' = Nothing
      BY <2>7, GuestWritesStep
    <3> QED
      BY <1>2, <1>4, <2>7, <3>1, NamedReport, GuestReadKept
  <2> QED
    BY <2>1, <2>2, <2>3, <2>4, <2>5, <2>6, <2>7 DEF Next, GuestReads
<1> QED
  BY <1>1, <1>3, <1>6 DEF AblationInv

\* There is no model at first.
LEMMA AblationInit == Init => AblationInv
<1> SUFFICES ASSUME Init PROVE AblationInv
  OBVIOUS
<1>1. /\ \A f \in NamingFiles : disk[f] = Missing
      /\ disk["analysis"] = Missing
      /\ \A n \in Names : /\ disk[ModelFile(n)] = Missing /\ disk[VectorsFile(n)] = Missing
                          /\ disk[GuestFile(n)] = Missing
  BY NamingFilesAre DEF Init
<1>2. host.script = "none" /\ guest.script = "none"
  BY DEF Init, Nothing
<1>3. \A f : disk[f] = Missing => ~ IsWhole(f)
  BY DEF IsWhole, Missing
<1>4. AblateInv
  BY <1>1, <1>2, <1>3 DEF AblateInv
<1>5. NamedInv
  BY <1>1, <1>3 DEF NamedInv, NamesModels, NamingFiles
<1> QED
  BY <1>2, <1>4, <1>5 DEF AblationInv, HostRead, GuestRead

\* Two records of one model have one digest.
LEMMA OneDigest ==
  ASSUME NEW n \in Names, NEW x, NEW y, IsModel(n, x), IsModel(n, y)
  PROVE  AblationDigestIs(n, x, y)
<1> DEFINE S == Splittable["stage5"]
<1>1. x = y /\ y.state = "whole" /\ y.of \in AcceptedForAblation
  BY DEF IsModel
<1>2. y.of \in S
  BY <1>1 DEF AcceptedForAblation
<1> HIDE DEF S
<1>3. SameAblationModel[n] =
        {p \in S \X S : AblationModel(n, p[1]) = AblationModel(n, p[2])}
  BY DEF SameAblationModel, Names, S
<1>4. <<y.of, y.of>> \in SameAblationModel[n]
  BY <1>2, <1>3
<1> QED
  BY <1>1, <1>4 DEF AblationDigestIs

\* stage5-feature-ablation.py writes into no directory that is there: whatever
\* is interrupted, started again or collected again, the results, the comparison,
\* the benchmark, the manifest and the guest reports are of one set of models.
THEOREM OneModel == Spec => []AblationIsOfOneModel
<1>1. Init => TypeInv /\ AblationInv
  BY TypeInit, AblationInit
<1>2. TypeInv /\ AblationInv /\ [Next]_vars => (TypeInv /\ AblationInv)'
  BY TypeNext, AblationNext
<1>3. AblationInv => AblationIsOfOneModel
  <2> SUFFICES ASSUME AblationInv, IsWhole("feature-ablation-results"), NEW n \in Names,
                      NEW f \in {"paired-bootstrap", "guest-inference-benchmark",
                                 "guest-parity-manifest", GuestFile(n)},
                      IsWhole(f)
               PROVE  AblationDigestIs(n, disk["feature-ablation-results"].names[n],
                                       disk[f].names[n])
    BY DEF AblationIsOfOneModel
  <2>1. IsModel(n, disk["feature-ablation-results"].names[n])
    BY DEF AblationInv, NamedInv, NamesModels
  <2>2. IsModel(n, disk[f].names[n])
    BY DEF AblationInv, NamedInv, NamesModels
  <2> QED
    BY <2>1, <2>2, OneDigest
<1> QED
  BY <1>1, <1>2, <1>3, PTL DEF Spec

\* The results of the ablation and the comparison are of a collection that the
\* ablation accepts, whatever has been collected since.
THEOREM OnlyAcceptedAblation ==
  Spec => [](\A f \in {"feature-ablation-results", "paired-bootstrap"} :
                IsWhole(f) => disk[f].of \in AcceptedForAblation)
<1>1. Init => TypeInv /\ AblationInv
  BY TypeInit, AblationInit
<1>2. TypeInv /\ AblationInv /\ [Next]_vars => (TypeInv /\ AblationInv)'
  BY TypeNext, AblationNext
<1>3. AblationInv => \A f \in {"feature-ablation-results", "paired-bootstrap"} :
                       IsWhole(f) => disk[f].of \in AcceptedForAblation
  BY DEF AblationInv, NamedInv
<1> QED
  BY <1>1, <1>2, <1>3, PTL DEF Spec

-----------------------------------------------------------------------------
(* Numbers and finite sets *)

\* A set of numbers that is not empty has a least one.
LEMMA LeastNumber ==
  ASSUME NEW T, T \subseteq Nat, T # {}
  PROVE  \E x \in T : \A y \in T : x <= y
<1> DEFINE R == {p \in Nat \X Nat : p[1] < p[2]}
<1>1. IsWellFoundedOn(R, Nat)
  BY NatLessThanWellFounded DEF OpToRel
<1>2. \E x \in T : \A y \in T : <<y, x>> \notin R
  <2> HIDE DEF R
  <2> QED
    BY <1>1, WFMin
<1>3. \A x, y \in Nat : y < x => <<y, x>> \in R
  OBVIOUS
<1>4. \A x, y \in Nat : x <= y \/ y < x
  OBVIOUS
<1> HIDE DEF R
<1> QED
  BY <1>2, <1>3, <1>4

\* That is its minimum.
LEMMA MinIs ==
  ASSUME NEW T, T \subseteq Nat, T # {}
  PROVE  Min(T) \in T /\ \A y \in T : Min(T) <= y
BY LeastNumber DEF Min

\* A set is as large as another that its elements are matched with.
LEMMA Matched ==
  ASSUME NEW A, NEW B, IsFiniteSet(B), NEW f \in Bijection(A, B), NEW T \in SUBSET B,
         NEW U, U = {a \in A : f[a] \in T}
  PROVE  IsFiniteSet(U) /\ Cardinality(U) = Cardinality(T)
<1> DEFINE g == [a \in U |-> f[a]]
<1>1. IsFiniteSet(T)
  BY FS_Subset
<1>2. /\ f \in [A -> B]
      /\ \A a, b \in A : f[a] = f[b] => a = b
      /\ \A t \in B : \E a \in A : f[a] = t
  BY DEF Bijection, Injection, Surjection, IsInjective
<1>3. g \in [U -> T]
  BY <1>2
<1>4. g \in Injection(U, T)
  BY <1>2, <1>3 DEF Injection, IsInjective
<1>5. g \in Surjection(U, T)
  <2>1. \A t \in T : \E a \in U : g[a] = t
    BY <1>2
  <2> QED
    BY <2>1, <1>3 DEF Surjection
<1>6. IsFiniteSet(U)
  <2> HIDE DEF g
  <2> QED
    BY <1>1, <1>4, FS_Injection
<1>7. Cardinality(U) = Cardinality(T)
  <2> HIDE DEF g
  <2> QED
    BY <1>1, <1>4, <1>5, FS_Injection
<1> QED
  BY <1>6, <1>7

\* In a finite set that is strictly ordered, there is one element to a rank:
\* below gives what is before each, and at[k] is of rank k - 1.
LEMMA Ranks ==
  ASSUME NEW S, IsFiniteSet(S), NEW below \in [S -> SUBSET S],
         \A x \in S : x \notin below[x],
         \A x, y \in S : x \in below[y] => below[x] \subseteq below[y],
         \A x, y \in S : x = y \/ x \in below[y] \/ y \in below[x],
         NEW at, at = [k \in 1..Cardinality(S) |-> at[k]],
         \A k \in 1..Cardinality(S) :
            (\E x \in S : Cardinality(below[x]) = k - 1) =>
              at[k] \in S /\ Cardinality(below[at[k]]) = k - 1
  PROVE  /\ at \in Bijection(1..Cardinality(S), S)
         /\ \A i, j \in 1..Cardinality(S) : i < j => at[i] \in below[at[j]]
<1> DEFINE n == Cardinality(S)
           rank == [x \in S |-> Cardinality(below[x]) + 1]
<1>1. n \in Nat
  BY FS_CardinalityType
<1>2. ASSUME NEW x \in S
      PROVE  /\ IsFiniteSet(below[x]) /\ Cardinality(below[x]) \in Nat
             /\ Cardinality(below[x]) < n
  <2>1. below[x] \in SUBSET S /\ below[x] # S
    OBVIOUS
  <2>2. IsFiniteSet(below[x]) /\ Cardinality(below[x]) <= n /\ Cardinality(below[x]) # n
    BY <2>1, FS_Subset
  <2>3. Cardinality(below[x]) \in Nat
    BY <2>2, FS_CardinalityType
  <2> QED
    BY <2>2, <2>3, <1>1
<1>3. ASSUME NEW x \in S, NEW y \in S, x \in below[y]
      PROVE  Cardinality(below[x]) < Cardinality(below[y])
  <2>1. below[x] \in SUBSET below[y] /\ below[x] # below[y]
    BY <1>3
  <2>2. IsFiniteSet(below[y])
    BY <1>2
  <2>3. Cardinality(below[x]) <= Cardinality(below[y]) /\ Cardinality(below[x]) # Cardinality(below[y])
    BY <2>1, <2>2, FS_Subset
  <2> QED
    BY <2>3, <1>2
<1>4. rank \in [S -> 1..n]
  BY <1>1, <1>2
<1>5. ASSUME NEW x \in S, NEW y \in S, rank[x] = rank[y]
      PROVE  x = y
  <2>1. Cardinality(below[x]) = Cardinality(below[y])
    BY <1>5, <1>2
  <2>2. x \notin below[y] /\ y \notin below[x]
    BY <2>1, <1>2, <1>3
  <2> QED
    BY <2>2
<1>6. rank \in Injection(S, 1..n)
  <2> HIDE DEF rank
  <2> QED
    BY <1>4, <1>5 DEF Injection, IsInjective
<1>7. rank \in Surjection(S, 1..n)
  <2>1. IsFiniteSet(1..n) /\ Cardinality(1..n) = n
    <3>1. IsFiniteSet(1..n) /\ Cardinality(1..n) = IF 1 > n THEN 0 ELSE n - 1 + 1
      <4>1. 1 \in Int /\ n \in Int
        BY <1>1
      <4> HIDE DEF n
      <4> QED
        BY <4>1, FS_Interval
    <3> QED
      BY <3>1, <1>1
  <2> HIDE DEF rank, n
  <2> QED
    BY <2>1, <1>6, FS_Injection DEF n
<1>8. ASSUME NEW k \in 1..n
      PROVE  at[k] \in S /\ rank[at[k]] = k
  <2>1. PICK x \in S : rank[x] = k
    BY <1>7 DEF Surjection
  <2>2. Cardinality(below[x]) = k - 1
    BY <2>1, <1>1, <1>2
  <2>3. at[k] \in S /\ Cardinality(below[at[k]]) = k - 1
    BY <2>2
  <2> QED
    BY <2>3, <1>1
<1>9. at \in [1..n -> S]
  BY <1>8
<1>10. at \in Injection(1..n, S)
  <2> HIDE DEF rank
  <2> QED
    BY <1>8, <1>9 DEF Injection, IsInjective
<1>11. at \in Surjection(1..n, S)
  <2>1. \A x \in S : rank[x] \in 1..n /\ at[rank[x]] = x
    <3> HIDE DEF rank
    <3> QED
      BY <1>4, <1>5, <1>8
  <2> HIDE DEF rank
  <2> QED
    BY <2>1, <1>9 DEF Surjection
<1>12. ASSUME NEW i \in 1..n, NEW j \in 1..n, i < j
       PROVE  at[i] \in below[at[j]]
  <2>1. /\ at[i] \in S /\ rank[at[i]] = i /\ at[j] \in S /\ rank[at[j]] = j
    BY <1>8
  <2>2. i \in Nat /\ j \in Nat
    BY <1>1
  <2>3. Cardinality(below[at[i]]) < Cardinality(below[at[j]])
    BY <2>1, <2>2, <1>2, <1>12
  <2>4. at[j] \notin below[at[i]] /\ at[i] # at[j]
    BY <2>1, <2>3, <1>2, <1>3
  <2> QED
    BY <2>1, <2>4
<1> QED
  BY <1>10, <1>11, <1>12 DEF Bijection

-----------------------------------------------------------------------------
(* Sums and joined sequences: what the recursive functions of the library compute *)

\* it[s] is the sum of f over s, one element after the other.
IsSum(it, f) ==
  it = [s \in SUBSET DOMAIN f |->
          IF s = {} THEN 0
          ELSE f[CHOOSE x \in s : TRUE] + it[s \ {CHOOSE x \in s : TRUE}]]

\* There is such a function.
LEMMA SumExists ==
  ASSUME NEW f, IsFiniteSet(DOMAIN f)
  PROVE  \E it : IsSum(it, f)
<1> DEFINE D == DOMAIN f
           pick(s) == CHOOSE x \in s : TRUE
           next(it, s) == IF s = {} THEN 0 ELSE f[pick(s)] + it[s \ {pick(s)}]
           upto(it, n) == \A s \in SUBSET D : Cardinality(s) <= n => it[s] = next(it, s)
           bad == {n \in Nat : ~ \E it : DOMAIN it = SUBSET D /\ upto(it, n)}
<1>1. ASSUME NEW s \in SUBSET D, s # {}
      PROVE  /\ Cardinality(s) \in Nat /\ s \ {pick(s)} \in SUBSET D
             /\ Cardinality(s \ {pick(s)}) = Cardinality(s) - 1
  <2>1. IsFiniteSet(s) /\ pick(s) \in s
    BY <1>1, FS_Subset
  <2>2. Cardinality(s) \in Nat
    BY <2>1, FS_CardinalityType
  <2>3. Cardinality(s \ {pick(s)}) = Cardinality(s) - 1
    <3> HIDE DEF pick
    <3> QED
      BY <2>1, FS_RemoveElement
  <2> QED
    BY <2>2, <2>3
<1>2. 0 \notin bad
  <2> DEFINE it == [s \in SUBSET D |-> 0]
  <2>1. ASSUME NEW s \in SUBSET D, Cardinality(s) <= 0
        PROVE  s = {}
    <3>1. IsFiniteSet(s) /\ Cardinality(s) \in Nat
      BY FS_Subset, FS_CardinalityType
    <3>2. Cardinality(s) = 0
      BY <2>1, <3>1
    <3> QED
      BY <3>1, <3>2, FS_EmptySet
  <2>2. upto(it, 0)
    BY <2>1
  <2> QED
    BY <2>2
<1>3. ASSUME NEW n \in Nat, n \notin bad
      PROVE  n + 1 \notin bad
  <2>1. PICK it : DOMAIN it = SUBSET D /\ upto(it, n)
    BY <1>3
  <2> DEFINE more == [s \in SUBSET D |-> IF Cardinality(s) <= n THEN it[s] ELSE next(it, s)]
  <2>2. ASSUME NEW s \in SUBSET D, Cardinality(s) <= n + 1
        PROVE  more[s] = next(it, s)
    BY <2>1
  <2>3. ASSUME NEW s \in SUBSET D, s # {}, Cardinality(s) <= n + 1
        PROVE  more[s \ {pick(s)}] = it[s \ {pick(s)}]
    <3>1. s \ {pick(s)} \in SUBSET D /\ Cardinality(s \ {pick(s)}) <= n
      BY <1>1, <2>3
    <3> HIDE DEF pick
    <3> QED
      BY <3>1
  <2>4. ASSUME NEW s \in SUBSET D, Cardinality(s) <= n + 1
        PROVE  next(more, s) = next(it, s)
    <3>1. CASE s = {}
      BY <3>1
    <3>2. CASE s # {}
      <4>1. more[s \ {pick(s)}] = it[s \ {pick(s)}]
        BY <2>3, <2>4, <3>2
      <4> HIDE DEF more, pick
      <4> QED
        BY <4>1, <3>2
    <3> QED
      BY <3>1, <3>2
  <2>5. upto(more, n + 1)
    <3> HIDE DEF next, more
    <3> QED
      BY <2>2, <2>4
  <2>6. DOMAIN more = SUBSET D
    OBVIOUS
  <2> HIDE DEF more, upto
  <2> QED
    BY <2>5, <2>6
<1>4. bad = {}
  <2> SUFFICES ASSUME bad # {} PROVE FALSE
    OBVIOUS
  <2>1. bad \subseteq Nat
    OBVIOUS
  <2> HIDE DEF bad
  <2>2. PICK m \in bad : \A k \in bad : m <= k
    BY <2>1, LeastNumber
  <2>3. m \in Nat /\ m # 0
    BY <2>1, <2>2, <1>2
  <2>4. m - 1 \in Nat /\ m - 1 \notin bad
    BY <2>2, <2>3
  <2>5. m - 1 + 1 \notin bad
    BY <2>4, <1>3
  <2> QED
    BY <2>2, <2>3, <2>5
<1>5. Cardinality(D) \in Nat
  BY FS_CardinalityType
<1>6. PICK it : DOMAIN it = SUBSET D /\ upto(it, Cardinality(D))
  <2>1. Cardinality(D) \notin bad
    BY <1>4
  <2> HIDE DEF upto
  <2> QED
    BY <1>5, <2>1
<1>7. \A s \in SUBSET D : Cardinality(s) <= Cardinality(D)
  BY FS_Subset
<1>8. \A s \in SUBSET D : it[s] = next(it, s)
  BY <1>6, <1>7
<1> DEFINE it2 == [s \in SUBSET D |-> next(it, s)]
<1>9. \A s \in SUBSET D : it2[s] = it[s]
  <2> HIDE DEF next
  <2> QED
    BY <1>8
<1>10. \A s \in SUBSET D : s # {} => it2[s \ {pick(s)}] = it[s \ {pick(s)}]
  <2>1. \A s \in SUBSET D : s \ {pick(s)} \in SUBSET D
    OBVIOUS
  <2> HIDE DEF it2, pick
  <2> QED
    BY <1>9, <2>1
<1>11. \A s \in SUBSET D : next(it2, s) = next(it, s)
  <2> HIDE DEF it2, pick
  <2> QED
    BY <1>10
<1>12. it2 = [s \in SUBSET D |-> next(it2, s)]
  <2> HIDE DEF next
  <2> QED
    BY <1>11
<1>13. IsSum(it2, f)
  <2> HIDE DEF it2
  <2> QED
    BY <1>12 DEF IsSum
<1> QED
  BY <1>13

\* What SumOver takes is such a function.
LEMMA SumOverIs ==
  ASSUME NEW f, IsFiniteSet(DOMAIN f)
  PROVE  \E it : IsSum(it, f) /\ SumOver(f) = it[DOMAIN f]
<1>1. \E it : it = [s \in SUBSET DOMAIN f |->
          IF s = {} THEN 0
          ELSE f[CHOOSE x \in s : TRUE] + it[s \ {CHOOSE x \in s : TRUE}]]
  BY SumExists DEF IsSum
<1> QED
  BY <1>1 DEF SumOver, MapThenSumSet, MapThenFoldSet, IsSum

\* The sizes of the classes of a set, some of which may be empty, add up to its size.
LEMMA ClassesAddUp ==
  ASSUME NEW S, IsFiniteSet(S), NEW f, NEW g, IsFiniteSet(DOMAIN g), \A x \in S : f[x] \in DOMAIN g,
         \A o \in DOMAIN g : g[o] = Cardinality({x \in S : f[x] = o})
  PROVE  SumOver(g) = Cardinality(S)
<1> DEFINE D == DOMAIN g
           pick(s) == CHOOSE x \in s : TRUE
           in(s) == {x \in S : f[x] \in s}
<1>1. IsFiniteSet(D)
  OBVIOUS
<1>2. PICK it : IsSum(it, g) /\ SumOver(g) = it[D]
  BY <1>1, SumOverIs
<1>3. /\ \A s \in SUBSET D : s = {} => it[s] = 0
      /\ \A s \in SUBSET D : s # {} => it[s] = g[pick(s)] + it[s \ {pick(s)}]
  BY <1>2 DEF IsSum
<1>4. ASSUME NEW s \in SUBSET D, s # {}
      PROVE  /\ pick(s) \in s /\ s \ {pick(s)} \in SUBSET D
             /\ Cardinality(s) \in Nat
             /\ Cardinality(s \ {pick(s)}) = Cardinality(s) - 1
  <2>1. IsFiniteSet(s) /\ pick(s) \in s
    BY <1>1, <1>4, FS_Subset
  <2>2. Cardinality(s) \in Nat
    BY <2>1, FS_CardinalityType
  <2>3. Cardinality(s \ {pick(s)}) = Cardinality(s) - 1
    <3> HIDE DEF pick
    <3> QED
      BY <2>1, FS_RemoveElement
  <2> QED
    BY <2>1, <2>2, <2>3
<1>5. ASSUME NEW s \in SUBSET D, NEW o \in s
      PROVE  Cardinality(in(s)) = g[o] + Cardinality(in(s \ {o}))
  <2> DEFINE A == {x \in S : f[x] = o}
  <2>1. IsFiniteSet(A) /\ IsFiniteSet(in(s \ {o}))
    BY FS_Subset
  <2>2. A \cup in(s \ {o}) = in(s) /\ A \cap in(s \ {o}) = {}
    OBVIOUS
  <2>3. Cardinality(A) = g[o]
    OBVIOUS
  <2>4. Cardinality(A) \in Nat /\ Cardinality(in(s \ {o})) \in Nat
    BY <2>1, FS_CardinalityType
  <2>5. Cardinality(A \cup in(s \ {o})) =
          Cardinality(A) + Cardinality(in(s \ {o})) - Cardinality(A \cap in(s \ {o}))
    <3> HIDE DEF A, in
    <3> QED
      BY <2>1, FS_Union
  <2>6. Cardinality(A \cap in(s \ {o})) = 0
    BY <2>2, FS_EmptySet
  <2>7. Cardinality(in(s)) =
          Cardinality(A) + Cardinality(in(s \ {o})) - Cardinality(A \cap in(s \ {o}))
    BY <2>2, <2>5
  <2> HIDE DEF A, in
  <2> QED
    BY <2>3, <2>4, <2>6, <2>7
<1> DEFINE bad == {n \in Nat : \E s \in SUBSET D : Cardinality(s) = n
                                                     /\ it[s] # Cardinality(in(s))}
<1>6. bad = {}
  <2> SUFFICES ASSUME bad # {} PROVE FALSE
    OBVIOUS
  <2>1. PICK m \in bad : \A k \in bad : m <= k
    BY LeastNumber
  <2>2. PICK s \in SUBSET D : Cardinality(s) = m /\ it[s] # Cardinality(in(s))
    OBVIOUS
  <2>3. s # {}
    <3>1. CASE s = {}
      <4>1. in(s) = {}
        BY <3>1
      <4>2. Cardinality(in(s)) = 0 /\ it[s] = 0
        BY <4>1, <3>1, <1>3, FS_EmptySet
      <4> QED
        BY <4>2, <2>2
    <3> QED
      BY <3>1
  <2> DEFINE o == pick(s)
             t == s \ {o}
  <2>4. o \in s /\ t \in SUBSET D /\ Cardinality(t) = m - 1 /\ m \in Nat
    BY <2>2, <2>3, <1>4
  <2>5. Cardinality(t) \in Nat
    <3>1. IsFiniteSet(t)
      BY <1>1, <2>4, FS_Subset
    <3> HIDE DEF t
    <3> QED
      BY <3>1, FS_CardinalityType
  <2>6. m - 1 \notin bad
    <3> HIDE DEF bad, t
    <3> QED
      BY <2>1, <2>4
  <2>7. it[t] = Cardinality(in(t))
    <3> HIDE DEF in, t
    <3> QED
      BY <2>4, <2>5, <2>6
  <2>8. it[s] = g[o] + it[t]
    BY <1>3, <2>3
  <2>9. Cardinality(in(s)) = g[o] + Cardinality(in(t))
    BY <2>4, <1>5
  <2> QED
    BY <2>2, <2>7, <2>8, <2>9
<1>7. Cardinality(D) \in Nat /\ D \in SUBSET D
  BY <1>1, FS_CardinalityType
<1>8. it[D] = Cardinality(in(D))
  <2> HIDE DEF in, D
  <2> QED
    BY <1>6, <1>7
<1>9. in(D) = S
  OBVIOUS
<1> QED
  BY <1>2, <1>8, <1>9

\* So do those of the classes that are not.
LEMMA ClassSizes ==
  ASSUME NEW S, IsFiniteSet(S), NEW f, NEW g, DOMAIN g = {f[x] : x \in S},
         \A o \in DOMAIN g : g[o] = Cardinality({x \in S : f[x] = o})
  PROVE  SumOver(g) = Cardinality(S)
<1> DEFINE D == DOMAIN g
<1>1. IsFiniteSet(D)
  <2> DEFINE h == [x \in S |-> f[x]]
  <2>1. h \in [S -> D]
    OBVIOUS
  <2>2. \A o \in D : \E x \in S : h[x] = o
    OBVIOUS
  <2>3. h \in Surjection(S, D)
    BY <2>1, <2>2 DEF Surjection
  <2> HIDE DEF h, D
  <2> QED
    BY <2>3, FS_Surjection
<1>2. \A x \in S : f[x] \in D
  OBVIOUS
<1> QED
  BY <1>1, <1>2, ClassesAddUp

\* The sequences of a sequence, one after the other, are a sequence.
LEMMA FlattenType ==
  ASSUME NEW T, NEW ss \in Seq(Seq(T))
  PROVE  FlattenSeq(ss) \in Seq(T)
<1> DEFINE n == Len(ss)
           next(h, i) == IF i = 1 THEN ss[i] ELSE h[i - 1] \o ss[i]
           upto(h, m) == \A i \in 1..n : i <= m => h[i] = next(h, i)
           bad == {m \in Nat : ~ \E h \in [1..n -> Seq(T)] : upto(h, m)}
<1>1. n \in Nat /\ \A i \in 1..n : ss[i] \in Seq(T)
  BY ElementOfSeq
<1>2. 0 \notin bad
  <2> DEFINE h == [i \in 1..n |-> ss[i]]
  <2>1. h \in [1..n -> Seq(T)]
    BY <1>1
  <2>2. upto(h, 0)
    BY <1>1
  <2> QED
    BY <2>1, <2>2
<1>3. ASSUME NEW m \in Nat, m \notin bad
      PROVE  m + 1 \notin bad
  <2>1. PICK h \in [1..n -> Seq(T)] : upto(h, m)
    BY <1>3
  <2> DEFINE more == [i \in 1..n |-> IF i <= m THEN h[i] ELSE next(h, i)]
  <2>2. ASSUME NEW i \in 1..n
        PROVE  next(h, i) \in Seq(T)
    <3>1. ss[i] \in Seq(T)
      BY <1>1
    <3>2. CASE i # 1
      <4>1. i - 1 \in 1..n
        BY <1>1, <3>2
      <4>2. h[i - 1] \in Seq(T)
        BY <2>1, <4>1
      <4>3. h[i - 1] \o ss[i] \in Seq(T)
        BY <3>1, <4>2, ConcatProperties
      <4> QED
        BY <3>2, <4>3
    <3> QED
      BY <3>1, <3>2
  <2>3. more \in [1..n -> Seq(T)]
    <3> HIDE DEF next
    <3> QED
      BY <2>2
  <2>4. ASSUME NEW i \in 1..n, i <= m + 1
        PROVE  more[i] = next(h, i) /\ (i # 1 => more[i - 1] = h[i - 1])
    <3>1. more[i] = next(h, i)
      BY <2>1
    <3>2. i # 1 => i - 1 \in 1..n /\ i - 1 <= m
      BY <1>1, <2>4
    <3> HIDE DEF next
    <3> QED
      BY <3>1, <3>2
  <2>5. upto(more, m + 1)
    <3> HIDE DEF more
    <3> QED
      BY <2>4
  <2> HIDE DEF more, upto
  <2> QED
    BY <2>3, <2>5
<1>4. bad = {}
  <2> SUFFICES ASSUME bad # {} PROVE FALSE
    OBVIOUS
  <2>1. bad \subseteq Nat
    OBVIOUS
  <2> HIDE DEF bad
  <2>2. PICK m \in bad : \A k \in bad : m <= k
    BY <2>1, LeastNumber
  <2>3. m \in Nat /\ m # 0
    BY <2>1, <2>2, <1>2
  <2>4. m - 1 \in Nat /\ m - 1 \notin bad
    BY <2>2, <2>3
  <2>5. m - 1 + 1 \notin bad
    BY <2>4, <1>3
  <2> QED
    BY <2>2, <2>3, <2>5
<1>5. PICK h \in [1..n -> Seq(T)] : upto(h, n)
  BY <1>1, <1>4
<1>6. h = [i \in 1..n |-> next(h, i)]
  <2>1. \A i \in 1..n : i <= n
    BY <1>1
  <2>2. \A i \in 1..n : h[i] = next(h, i)
    <3> HIDE DEF next
    <3> QED
      BY <1>5, <2>1
  <2> HIDE DEF next
  <2> QED
    BY <2>2
<1>7. \E flatten : flatten = [i \in 1..n |-> IF i = 1 THEN ss[i] ELSE flatten[i - 1] \o ss[i]]
  BY <1>6
<1> DEFINE flat == CHOOSE flatten : flatten = [i \in 1..n |->
                     IF i = 1 THEN ss[i] ELSE flatten[i - 1] \o ss[i]]
<1>8. flat = [i \in 1..n |-> IF i = 1 THEN ss[i] ELSE flat[i - 1] \o ss[i]]
  BY <1>7
<1> HIDE DEF flat
<1>9. FlattenSeq(ss) = IF n = 0 THEN ss ELSE flat[n]
  BY DEF FlattenSeq, flat
<1> DEFINE wrong == {i \in 1..n : flat[i] \notin Seq(T)}
<1>10. wrong = {}
  <2> SUFFICES ASSUME wrong # {} PROVE FALSE
    OBVIOUS
  <2>1. PICK m \in wrong : \A k \in wrong : m <= k
    <3>1. wrong \subseteq Nat
      BY <1>1
    <3> HIDE DEF wrong
    <3> QED
      BY <3>1, LeastNumber
  <2>2. m \in 1..n /\ ss[m] \in Seq(T) /\ flat[m] \notin Seq(T)
    BY <1>1
  <2>3. m # 1
    BY <1>8, <2>2
  <2>4. m - 1 \in 1..n /\ m - 1 \notin wrong
    BY <1>1, <2>1, <2>2, <2>3
  <2>5. flat[m - 1] \in Seq(T) /\ flat[m] = flat[m - 1] \o ss[m]
    BY <1>8, <2>2, <2>3, <2>4
  <2> QED
    BY <2>2, <2>5, ConcatProperties
<1> QED
  <2>1. CASE n = 0
    <3>1. ss = << >>
      BY <2>1, EmptySeq
    <3> QED
      BY <3>1, <2>1, <1>9, EmptySeq
  <2>2. CASE n # 0
    BY <2>2, <1>1, <1>9, <1>10
  <2> QED
    BY <2>1, <2>2

-----------------------------------------------------------------------------
(* The rows of a collection (features.py) *)

\* What Each adds changes nothing.
LEMMA NoTail ==
  ASSUME NEW n \in Nat, NEW f, f = [k \in 1..n |-> f[k]]
  PROVE  f \o << >> = f
<1> DEFINE T == {f[k] : k \in 1..n}
<1>1. f \in [1..n -> T]
  OBVIOUS
<1>2. f \in Seq(T)
  <2> HIDE DEF T
  <2> QED
    BY <1>1, SeqDef
<1> QED
  <2> HIDE DEF T
  <2> QED
    BY <1>2, ConcatEmptySeq

\* The events at some places by time are those events, each once.
LEMMA ByTimeIs ==
  ASSUME NEW events \in Seq(Event), NEW places \in SUBSET DOMAIN events
  PROVE  /\ IsFiniteSet(places) /\ Cardinality(places) \in Nat
         /\ \E at \in Bijection(1..Cardinality(places), places) :
              ByTime(events, places) = [k \in 1..Cardinality(places) |-> events[at[k]]]
<1> DEFINE n == Cardinality(places)
           before(i, j) == events[i].ts < events[j].ts \/ (events[i].ts = events[j].ts /\ i < j)
           below == [x \in places |-> {y \in places : before(y, x)}]
           at == Ranked(places, before)
<1>1. IsFiniteSet(places)
  <2>1. DOMAIN events = 1..Len(events) /\ Len(events) \in Nat
    BY LenProperties
  <2>2. IsFiniteSet(1..Len(events))
    BY <2>1, FS_Interval
  <2> QED
    BY <2>1, <2>2, FS_Subset
<1>2. n \in Nat
  BY <1>1, FS_CardinalityType
<1>3. \A i \in places : i \in Nat /\ events[i].ts \in Nat
  <2> SUFFICES ASSUME NEW i \in places PROVE i \in Nat /\ events[i].ts \in Nat
    OBVIOUS
  <2>1. i \in 1..Len(events) /\ Len(events) \in Nat
    BY LenProperties
  <2>2. events[i] \in Event
    BY <2>1, ElementOfSeq
  <2> QED
    BY <2>1, <2>2 DEF Event
<1>4. below \in [places -> SUBSET places]
  OBVIOUS
<1>5. \A x \in places : x \notin below[x]
  BY <1>3
<1>6. \A x, y \in places : x \in below[y] => below[x] \subseteq below[y]
  <2> SUFFICES ASSUME NEW x \in places, NEW y \in places, x \in below[y], NEW z \in below[x]
               PROVE  z \in below[y]
    OBVIOUS
  <2>1. z \in places /\ before(z, x) /\ before(x, y)
    OBVIOUS
  <2>2. before(z, y)
    BY <2>1, <1>3
  <2> QED
    BY <2>1, <2>2
<1>7. \A x, y \in places : x = y \/ x \in below[y] \/ y \in below[x]
  BY <1>3
<1>8. at = [k \in 1..n |-> CHOOSE x \in places : Cardinality({y \in places : before(y, x)}) = k - 1]
  BY DEF Ranked
<1>9. ASSUME NEW k \in 1..n, \E x \in places : Cardinality(below[x]) = k - 1
      PROVE  at[k] \in places /\ Cardinality(below[at[k]]) = k - 1
  <2>1. \E x \in places : Cardinality({y \in places : before(y, x)}) = k - 1
    BY <1>9
  <2>2. at[k] = CHOOSE x \in places : Cardinality({y \in places : before(y, x)}) = k - 1
    BY <1>8
  <2>3. at[k] \in places /\ Cardinality({y \in places : before(y, at[k])}) = k - 1
    <3> HIDE DEF at, before
    <3> QED
      BY <2>1, <2>2
  <2> HIDE DEF at, before
  <2> QED
    BY <2>3
<1>10. at = [k \in 1..n |-> at[k]]
  BY <1>8
<1>11. at \in Bijection(1..n, places)
  <2> HIDE DEF at, below
  <2> QED
    BY <1>1, <1>4, <1>5, <1>6, <1>7, <1>9, <1>10, Ranks
<1>12. ByTime(events, places) = [k \in 1..n |-> events[at[k]]]
  <2> DEFINE f == [k \in 1..n |-> events[at[k]]]
  <2>1. DOMAIN at = 1..n
    BY <1>8
  <2>2. ByTime(events, places) = f \o << >>
    BY <2>1 DEF ByTime, Each
  <2>3. f = [k \in 1..n |-> f[k]]
    OBVIOUS
  <2> HIDE DEF f
  <2>4. f \o << >> = f
    BY <1>2, <2>3, NoTail
  <2> QED
    BY <2>2, <2>4 DEF f
<1> HIDE DEF at
<1> QED
  BY <1>1, <1>2, <1>11, <1>12

\* Which of the requests at some places failed.
Failed(events, asked) == {i \in asked : ~ events[i].ok}

\* What a row says of its requests.
LEMMA RowIs ==
  ASSUME NEW events \in Seq(Event), NEW b, NEW places \in SUBSET DOMAIN events,
         places \cap Asked(events) # {}
  PROVE  LET row == Row(events, b, places)
             asked == places \cap Asked(events)
         IN  /\ row.run = b.run /\ row.start = b.start
             /\ row.requests = Cardinality(asked) /\ row.requests > 0
             /\ row.requests = SumOver(row.operations)
             /\ row.errors = Cardinality(Failed(events, asked))
<1> DEFINE asked == places \cap Asked(events)
           n == Cardinality(asked)
           q == ByTime(events, asked)
           row == Row(events, b, places)
<1>1. asked \in SUBSET DOMAIN events /\ asked # {}
  OBVIOUS
<1> HIDE DEF asked
<1>2. IsFiniteSet(asked) /\ n \in Nat
  BY <1>1, ByTimeIs
<1>3. PICK at \in Bijection(1..n, asked) : q = [k \in 1..n |-> events[at[k]]]
  BY <1>1, ByTimeIs
<1>4. n > 0
  <2>1. n # 0
    BY <1>1, <1>2, FS_EmptySet
  <2> QED
    BY <1>2, <2>1
<1>5. /\ DOMAIN q = 1..n /\ Len(q) = n
      /\ \A k \in 1..n : q[k] = events[at[k]] /\ at[k] \in asked
      /\ \A i \in asked : \E k \in 1..n : at[k] = i
  <2>1. DOMAIN q = 1..n
    BY <1>3
  <2>2. Len(q) = n
    BY <1>2, <1>3
  <2>3. at \in [1..n -> asked] /\ \A i \in asked : \E k \in 1..n : at[k] = i
    BY <1>3 DEF Bijection, Injection, Surjection
  <2> QED
    BY <1>3, <2>1, <2>2, <2>3
<1>6. ASSUME NEW T \in SUBSET asked
       PROVE  Cardinality({k \in 1..n : at[k] \in T}) = Cardinality(T)
  <2> DEFINE A == 1..n
             U == {k \in A : at[k] \in T}
  <2>1. at \in Bijection(A, asked)
    BY <1>3
  <2>2. U = {k \in A : at[k] \in T}
    OBVIOUS
  <2> HIDE DEF A, U, q, row, n
  <2>3. Cardinality(U) = Cardinality(T)
    BY <1>2, <2>1, <2>2, Matched
  <2> QED
    BY <2>2, <2>3 DEF A
<1> DEFINE operations == [o \in {e.op : e \in ToSet(q)} |-> Among(q, LAMBDA e : e.op = o)]
           classes == [i \in asked |-> events[i].op]
<1>7. /\ row.run = b.run /\ row.start = b.start /\ row.requests = Len(q)
      /\ row.operations = operations /\ row.errors = Among(q, LAMBDA e : ~ e.ok)
  BY DEF Row, RowOf, asked
<1>8. row.errors = Cardinality({i \in asked : ~ events[i].ok})
  <2> DEFINE T == {i \in asked : ~ events[i].ok}
  <2>1. {k \in DOMAIN q : ~ q[k].ok} = {k \in 1..n : at[k] \in T}
    BY <1>5
  <2>2. Among(q, LAMBDA e : ~ e.ok) = Cardinality({k \in DOMAIN q : ~ q[k].ok})
    BY DEF Among
  <2>3. T \in SUBSET asked
    OBVIOUS
  <2>4. Cardinality({k \in 1..n : at[k] \in T}) = Cardinality(T)
    BY <1>6, <2>3
  <2> HIDE DEF q
  <2> QED
    BY <1>7, <2>1, <2>2, <2>4
<1>9. \A o \in DOMAIN operations : operations[o] = Cardinality({i \in asked : classes[i] = o})
  <2> SUFFICES ASSUME NEW o \in DOMAIN operations
               PROVE  operations[o] = Cardinality({i \in asked : classes[i] = o})
    OBVIOUS
  <2> DEFINE T == {i \in asked : classes[i] = o}
  <2>1. {k \in DOMAIN q : q[k].op = o} = {k \in 1..n : at[k] \in T}
    BY <1>5
  <2>2. operations[o] = Cardinality({k \in DOMAIN q : q[k].op = o})
    BY DEF Among
  <2>3. T \in SUBSET asked
    OBVIOUS
  <2>4. Cardinality({k \in 1..n : at[k] \in T}) = Cardinality(T)
    BY <1>6, <2>3
  <2> HIDE DEF q, operations
  <2> QED
    BY <2>1, <2>2, <2>4
<1>10. DOMAIN operations = {classes[i] : i \in asked}
  <2>1. ToSet(q) = {events[i] : i \in asked}
    <3>1. ToSet(q) = {q[k] : k \in 1..n}
      BY <1>5 DEF ToSet
    <3> HIDE DEF q
    <3> QED
      BY <1>5, <3>1
  <2> HIDE DEF q
  <2> QED
    BY <2>1
<1>11. SumOver(operations) = n
  <2> HIDE DEF operations, classes, q, row
  <2> QED
    BY <1>2, <1>9, <1>10, ClassSizes
<1> HIDE DEF operations, classes, q, row
<1>12. row.requests = n
  BY <1>5, <1>7
<1> QED
  BY <1>4, <1>7, <1>8, <1>11, <1>12 DEF row, asked, Failed

\* Division has one quotient and one rest.
LEMMA OneQuotient ==
  ASSUME NEW w \in Nat, w > 0, NEW d \in Nat, NEW e \in Nat,
         NEW r \in 0..(w - 1), NEW s \in 0..(w - 1), w * d + r = w * e + s
  PROVE  d = e /\ r = s
<1>1. w * d \in Nat /\ w * e \in Nat
  OBVIOUS
<1>2. ASSUME NEW a \in Nat, NEW b \in Nat, a + 1 <= b
      PROVE  w * a + w <= w * b
  <2>1. w * (a + 1) <= w * b
    BY <1>2
  <2>2. w * (a + 1) = w * a + w
    OBVIOUS
  <2> QED
    BY <2>1, <2>2
<1>3. ~ (d + 1 <= e)
  <2> SUFFICES ASSUME d + 1 <= e PROVE FALSE
    OBVIOUS
  <2>1. w * d + w <= w * e
    BY <1>2
  <2> QED
    BY <1>1, <2>1
<1>4. ~ (e + 1 <= d)
  <2> SUFFICES ASSUME e + 1 <= d PROVE FALSE
    OBVIOUS
  <2>1. w * e + w <= w * d
    BY <1>2
  <2> QED
    BY <1>1, <2>1
<1>5. d = e
  BY <1>3, <1>4
<1> QED
  BY <1>1, <1>5

\* The start of the window of a time, and which times are in it.
LEMMA WindowIs ==
  ASSUME NEW t \in Nat
  PROVE  /\ WindowStart(t) \in Nat /\ WindowStart(t) % Window = 0
         /\ WindowStart(t) <= t /\ t < WindowStart(t) + Window
         /\ WindowStart(t) = Window * (t \div Window)
         /\ t \div Window \in Nat
<1> DEFINE d == t \div Window
           m == Window * d
<1>1. Window \in Nat /\ Window > 0
  BY LengthsAssumption
<1>2. t % Window \in 0..(Window - 1) /\ d \in Nat /\ t = Window * d + (t % Window)
  BY <1>1
<1>3. WindowStart(t) = m /\ m \in Nat
  BY <1>1, <1>2 DEF WindowStart
<1> HIDE DEF d
<1>4. m % Window = 0
  <2>1. m % Window \in 0..(Window - 1) /\ m \div Window \in Nat
          /\ m = Window * (m \div Window) + (m % Window)
    <3> HIDE DEF m
    <3> QED
      BY <1>1, <1>3
  <2>2. Window * d + 0 = Window * (m \div Window) + (m % Window)
    BY <1>1, <1>2, <2>1
  <2>3. 0 \in 0..(Window - 1)
    BY <1>1
  <2> DEFINE e == m \div Window
             s == m % Window
  <2>4. e \in Nat /\ s \in 0..(Window - 1) /\ Window * d + 0 = Window * e + s
    BY <2>1, <2>2
  <2> HIDE DEF m, e, s
  <2>5. 0 = s
    BY <1>1, <1>2, <2>3, <2>4, OneQuotient
  <2> QED
    BY <2>5 DEF s
<1>5. WindowStart(t) = t - (t % Window)
  BY DEF WindowStart
<1> HIDE DEF m
<1>6. m <= t /\ t < m + Window
  BY <1>1, <1>2, <1>3, <1>5
<1> QED
  BY <1>2, <1>3, <1>4, <1>6 DEF d, m

\* Windows that overlap are one.
LEMMA OneWindow ==
  ASSUME NEW t \in Nat, NEW u \in Nat,
         WindowStart(u) <= t, t < WindowStart(u) + Window
  PROVE  WindowStart(u) = WindowStart(t)
<1> DEFINE d == t \div Window
           e == u \div Window
           r == t - WindowStart(t)
           s == t - WindowStart(u)
<1>1. Window \in Nat /\ Window > 0
  BY LengthsAssumption
<1>2. /\ WindowStart(t) \in Nat /\ WindowStart(t) <= t /\ t < WindowStart(t) + Window
      /\ WindowStart(t) = Window * d /\ d \in Nat
  BY WindowIs
<1>3. WindowStart(u) \in Nat /\ WindowStart(u) = Window * e /\ e \in Nat
  BY WindowIs
<1> HIDE DEF d, e
<1>4. r \in 0..(Window - 1) /\ s \in 0..(Window - 1)
  BY <1>1, <1>2, <1>3
<1>5. Window * d + r = Window * e + s
  BY <1>2, <1>3
<1>6. d = e
  <2> HIDE DEF r, s
  <2> QED
    BY <1>1, <1>2, <1>3, <1>4, <1>5, OneQuotient
<1> QED
  BY <1>2, <1>3, <1>6

\* The first request of a run is one of its requests, and none was before it.
LEMMA FirstIs ==
  ASSUME NEW events \in Seq(Event), NEW i \in Asked(events)
  PROVE  /\ events[i].run \in DOMAIN FirstRequest(events)
         /\ FirstRequest(events)[events[i].run] \in Nat
         /\ \E j \in Asked(events) :
              /\ events[j].run = events[i].run
              /\ events[j].ts = FirstRequest(events)[events[i].run]
         /\ \A k \in Asked(events) : events[k].run = events[i].run =>
              FirstRequest(events)[events[i].run] <= events[k].ts
<1> DEFINE r == events[i].run
           T == {events[k].ts : k \in {j \in Asked(events) : events[j].run = r}}
<1>1. \A k \in Asked(events) : events[k].ts \in Nat
  <2> SUFFICES ASSUME NEW k \in Asked(events) PROVE events[k].ts \in Nat
    OBVIOUS
  <2>1. k \in 1..Len(events)
    BY LenProperties DEF Asked
  <2>2. events[k] \in Event
    BY <2>1, ElementOfSeq
  <2> QED
    BY <2>2 DEF Event
<1>2. T \subseteq Nat /\ T # {}
  BY <1>1
<1>3. Min(T) \in T /\ \A y \in T : Min(T) <= y
  <2> HIDE DEF T
  <2> QED
    BY <1>2, MinIs
<1>4. r \in DOMAIN FirstRequest(events) /\ FirstRequest(events)[r] = Min(T)
  BY DEF FirstRequest
<1>5. \A k \in Asked(events) : events[k].run = r => events[k].ts \in T
  OBVIOUS
<1>6. PICK j \in Asked(events) : events[j].run = r /\ events[j].ts = Min(T)
  BY <1>3
<1> HIDE DEF T
<1> QED
  BY <1>2, <1>3, <1>4, <1>5, <1>6

\* Whether a request is in the warm-up of its run, told from the events.
LEMMA KeptIs ==
  ASSUME NEW events \in Seq(Event), NEW i \in Asked(events)
  PROVE  i \in Kept(events) <=>
           ~ \E j \in Asked(events) :
               /\ events[j].run = events[i].run
               /\ \A k \in Asked(events) : events[k].run = events[i].run =>
                    events[j].ts <= events[k].ts
               /\ events[i].ts - events[j].ts < Warmup
<1> DEFINE r == events[i].run
           f == FirstRequest(events)[r]
<1>1. Warmup \in Nat
  BY LengthsAssumption
<1>2. \A k \in Asked(events) : events[k].ts \in Nat
  <2> SUFFICES ASSUME NEW k \in Asked(events) PROVE events[k].ts \in Nat
    OBVIOUS
  <2>1. k \in 1..Len(events)
    BY LenProperties DEF Asked
  <2>2. events[k] \in Event
    BY <2>1, ElementOfSeq
  <2> QED
    BY <2>2 DEF Event
<1>3. /\ r \in DOMAIN FirstRequest(events) /\ f \in Nat
      /\ \A k \in Asked(events) : events[k].run = r => f <= events[k].ts
  BY FirstIs
<1>4. PICK j \in Asked(events) : events[j].run = r /\ events[j].ts = f
  BY FirstIs
<1>5. i \in Kept(events) <=> events[i].ts >= f + Warmup
  <2>1. i \in DOMAIN events
    BY DEF Asked
  <2> QED
    BY <2>1, <1>3 DEF Kept, Retained
<1>6. ASSUME NEW h \in Asked(events), events[h].run = r,
             \A k \in Asked(events) : events[k].run = r => events[h].ts <= events[k].ts
      PROVE  events[h].ts = f
  <2>1. events[h].ts <= f /\ f <= events[h].ts
    BY <1>3, <1>4, <1>6
  <2> QED
    BY <2>1, <1>2, <1>3
<1> HIDE DEF f, r
<1>7. events[i].ts >= f + Warmup <=> ~ (events[i].ts - f < Warmup)
  BY <1>1, <1>2, <1>3
<1> QED
  BY <1>3, <1>4, <1>5, <1>6, <1>7 DEF r

\* The events of a sequence, by place.
LEMMA EventsAre ==
  ASSUME NEW events \in Seq(Event)
  PROVE  /\ IsFiniteSet(DOMAIN events)
         /\ \A i \in DOMAIN events : i \in Nat /\ events[i] \in Event
                                       /\ events[i].run \in Nat /\ events[i].ts \in Nat
<1>1. DOMAIN events = 1..Len(events) /\ Len(events) \in Nat
  BY LenProperties
<1>2. IsFiniteSet(1..Len(events))
  BY <1>1, FS_Interval
<1>3. ASSUME NEW i \in DOMAIN events
      PROVE  i \in Nat /\ events[i] \in Event /\ events[i].run \in Nat /\ events[i].ts \in Nat
  <2>1. i \in 1..Len(events)
    BY <1>1
  <2>2. events[i] \in Event
    BY <2>1, ElementOfSeq
  <2> QED
    BY <1>1, <2>1, <2>2 DEF Event
<1> QED
  BY <1>1, <1>2, <1>3

\* There is a row for each bucket that has requests.
LEMMA RowsAre ==
  ASSUME NEW events \in Seq(Event), NEW buckets,
         buckets = {BucketOf(events[i]) : i \in Kept(events) \cap Asked(events)}
  PROVE  /\ ToSet(AggregateEvents(events)) =
              {Row(events, b, {i \in Kept(events) : BucketOf(events[i]) = b}) : b \in buckets}
         /\ AggregateEvents(events) \in Seq(ToSet(AggregateEvents(events)))
<1> DEFINE S == buckets
           n == Cardinality(S)
           row(b) == Row(events, b, {i \in Kept(events) : BucketOf(events[i]) = b})
           below == [x \in S |-> {y \in S : Precedes(y, x)}]
           at == Ranked(S, Precedes)
           f == [k \in 1..n |-> row(at[k])]
<1>1. IsFiniteSet(S)
  <2> DEFINE P == Kept(events) \cap Asked(events)
             h == [i \in P |-> BucketOf(events[i])]
  <2>1. IsFiniteSet(P)
    <3>1. P \in SUBSET DOMAIN events /\ IsFiniteSet(DOMAIN events)
      BY EventsAre DEF Asked
    <3> HIDE DEF P
    <3> QED
      BY <3>1, FS_Subset
  <2>2. h \in [P -> S] /\ \A b \in S : \E i \in P : h[i] = b
    OBVIOUS
  <2>3. h \in Surjection(P, S)
    <3> HIDE DEF h, P
    <3> QED
      BY <2>2 DEF Surjection
  <2> HIDE DEF h, P
  <2> QED
    BY <2>1, <2>3, FS_Surjection
<1>2. n \in Nat
  BY <1>1, FS_CardinalityType
<1>3. \A x \in S : x = [run |-> x.run, start |-> x.start] /\ x.run \in Nat /\ x.start \in Nat
  <2> SUFFICES ASSUME NEW i \in Kept(events) \cap Asked(events), NEW x, x = BucketOf(events[i])
               PROVE  x = [run |-> x.run, start |-> x.start] /\ x.run \in Nat /\ x.start \in Nat
    OBVIOUS
  <2>1. i \in DOMAIN events
    BY DEF Asked
  <2>2. events[i].run \in Nat /\ events[i].ts \in Nat
    BY <2>1, EventsAre
  <2>3. WindowStart(events[i].ts) \in Nat
    BY <2>2, WindowIs
  <2> QED
    BY <2>2, <2>3 DEF BucketOf
<1> HIDE DEF S
<1>4. below \in [S -> SUBSET S]
  OBVIOUS
<1>5. \A x \in S : x \notin below[x]
  BY <1>3 DEF Precedes
<1>6. \A x, y \in S : x \in below[y] => below[x] \subseteq below[y]
  <2> SUFFICES ASSUME NEW x \in S, NEW y \in S, x \in below[y], NEW z \in below[x]
               PROVE  z \in below[y]
    OBVIOUS
  <2>1. z \in S /\ Precedes(z, x) /\ Precedes(x, y)
    OBVIOUS
  <2>2. Precedes(z, y)
    BY <2>1, <1>3 DEF Precedes
  <2> QED
    BY <2>1, <2>2
<1>7. \A x, y \in S : x = y \/ x \in below[y] \/ y \in below[x]
  <2> SUFFICES ASSUME NEW x \in S, NEW y \in S
               PROVE  x = y \/ Precedes(x, y) \/ Precedes(y, x)
    OBVIOUS
  <2>1. x.run \in Nat /\ x.start \in Nat /\ y.run \in Nat /\ y.start \in Nat
    BY <1>3
  <2>2. x.run = y.run /\ x.start = y.start => x = y
    BY <1>3
  <2> QED
    BY <2>1, <2>2 DEF Precedes
<1>8. at = [k \in 1..n |-> CHOOSE x \in S : Cardinality({y \in S : Precedes(y, x)}) = k - 1]
  BY DEF Ranked
<1>9. ASSUME NEW k \in 1..n, \E x \in S : Cardinality(below[x]) = k - 1
      PROVE  at[k] \in S /\ Cardinality(below[at[k]]) = k - 1
  <2>1. \E x \in S : Cardinality({y \in S : Precedes(y, x)}) = k - 1
    BY <1>9
  <2>2. at[k] = CHOOSE x \in S : Cardinality({y \in S : Precedes(y, x)}) = k - 1
    BY <1>8
  <2>3. at[k] \in S /\ Cardinality({y \in S : Precedes(y, at[k])}) = k - 1
    <3> HIDE DEF at
    <3> QED
      BY <2>1, <2>2
  <2> HIDE DEF at
  <2> QED
    BY <2>3
<1>10. at = [k \in 1..n |-> at[k]]
  BY <1>8
<1>11. at \in Bijection(1..n, S)
  <2> HIDE DEF at, below
  <2> QED
    BY <1>1, <1>4, <1>5, <1>6, <1>7, <1>9, <1>10, Ranks
<1>12. AggregateEvents(events) = f
  <2>1. DOMAIN at = 1..n
    BY <1>8
  <2>2. AggregateEvents(events) = f \o << >>
    BY <2>1 DEF AggregateEvents, Each, S
  <2>3. f = [k \in 1..n |-> f[k]]
    OBVIOUS
  <2> HIDE DEF f
  <2>4. f \o << >> = f
    BY <1>2, <2>3, NoTail
  <2> QED
    BY <2>2, <2>4
<1>13. (\A k \in 1..n : at[k] \in S) /\ \A b \in S : \E k \in 1..n : at[k] = b
  <2> HIDE DEF at
  <2> QED
    BY <1>11 DEF Bijection, Injection, Surjection
<1>14. ToSet(f) = {row(at[k]) : k \in 1..n}
  <2> HIDE DEF row, at
  <2> QED
    BY DEF ToSet
<1>15. f \in Seq(ToSet(f))
  <2>1. f \in [1..n -> ToSet(f)]
    BY <1>14
  <2> HIDE DEF f
  <2> QED
    BY <2>1, <1>2, SeqDef
<1> HIDE DEF at, row
<1>16. {row(at[k]) : k \in 1..n} = {row(b) : b \in S}
  BY <1>13
<1> HIDE DEF f
<1> QED
  BY <1>12, <1>14, <1>16, <1>15 DEF S, row

\* The rows of any events account for its requests.
LEMMA RowsAccount ==
  ASSUME NEW c \in DOMAIN Collections
  PROVE  RowsExact(c)
<1> DEFINE events == ReadLines(Collections[c].requests \o Collections[c].resources)
           rows == ToSet(RowsOf[c])
           asked == {i \in DOMAIN events : IsRequest(events[i])}
           early(i) == \E j \in asked : events[j].run = events[i].run
                         /\ \A k \in asked : events[k].run = events[i].run => events[j].ts <= events[k].ts
                         /\ events[i].ts - events[j].ts < Warmup
           counted == {i \in asked : ~ early(i)}
           within(i, row) == events[i].run = row.run
                               /\ row.start <= events[i].ts /\ events[i].ts < row.start + Window
           kept == Kept(events) \cap asked
           buckets == {BucketOf(events[i]) : i \in kept}
           places(b) == {i \in Kept(events) : BucketOf(events[i]) = b}
           row(b) == Row(events, b, places(b))
<1>1. events \in Seq(Event)
  <2>1. Collections[c].requests \in Seq(Seq(Event)) /\ Collections[c].resources \in Seq(Seq(Event))
    BY CollectionsAssumption
  <2>2. Collections[c].requests \o Collections[c].resources \in Seq(Seq(Event))
    BY <2>1, ConcatProperties
  <2> QED
    BY <2>2, FlattenType DEF ReadLines
<1>2. rows = ToSet(AggregateEvents(events))
  BY DEF RowsOf, AllRows
<1> HIDE DEF events
<1>3. asked = Asked(events)
  BY DEF Asked
<1>4. \A i \in asked : i \in DOMAIN events /\ events[i].run \in Nat /\ events[i].ts \in Nat
  BY <1>1, EventsAre
<1>5. counted = kept
  <2>1. \A i \in asked : i \in Kept(events) <=> ~ early(i)
    BY <1>1, <1>3, KeptIs
  <2> HIDE DEF early, asked
  <2> QED
    BY <2>1
<1>6. rows = {row(b) : b \in buckets}
  <2>1. buckets = {BucketOf(events[i]) : i \in Kept(events) \cap Asked(events)}
    BY <1>3
  <2> HIDE DEF buckets, rows
  <2> QED
    BY <1>1, <1>2, <2>1, RowsAre
<1>7. ASSUME NEW b \in buckets
      PROVE  /\ b.start \in Nat /\ b.start % Window = 0
             /\ \E i \in kept : b = BucketOf(events[i])
             /\ places(b) \in SUBSET DOMAIN events
             /\ places(b) \cap asked # {}
             /\ places(b) \cap asked = {i \in kept : BucketOf(events[i]) = b}
  <2>1. PICK i \in kept : b = BucketOf(events[i])
    OBVIOUS
  <2>2. b.start = WindowStart(events[i].ts) /\ i \in asked
    BY <2>1 DEF BucketOf
  <2>3. b.start \in Nat /\ b.start % Window = 0
    BY <2>2, <1>4, WindowIs
  <2>4. places(b) \in SUBSET DOMAIN events
    BY DEF Kept
  <2>5. i \in places(b) \cap asked
    BY <2>1, <2>2
  <2>6. places(b) \cap asked = {j \in kept : BucketOf(events[j]) = b}
    OBVIOUS
  <2> HIDE DEF places, kept, asked
  <2> QED
    BY <2>1, <2>3, <2>4, <2>5, <2>6
<1> HIDE DEF asked, early, counted, rows
<1>8. ASSUME NEW b \in buckets, NEW i \in kept
      PROVE  BucketOf(events[i]) = b <=>
               /\ events[i].run = b.run
               /\ b.start <= events[i].ts /\ events[i].ts < b.start + Window
  <2>1. PICK j \in kept : b = BucketOf(events[j])
    BY <1>7
  <2>2. i \in asked /\ j \in asked
    OBVIOUS
  <2>3. events[i].ts \in Nat /\ events[j].ts \in Nat
    BY <1>4, <2>2
  <2>4. b.run = events[j].run /\ b.start = WindowStart(events[j].ts)
    BY <2>1 DEF BucketOf
  <2>5. ASSUME b.start <= events[i].ts, events[i].ts < b.start + Window
        PROVE  b.start = WindowStart(events[i].ts)
    BY <2>3, <2>4, <2>5, OneWindow
  <2>6. ASSUME b.start = WindowStart(events[i].ts)
        PROVE  b.start <= events[i].ts /\ events[i].ts < b.start + Window
    BY <2>3, <2>6, WindowIs
  <2>7. BucketOf(events[i]) = b <=>
          events[i].run = events[j].run /\ WindowStart(events[i].ts) = WindowStart(events[j].ts)
    BY <2>1 DEF BucketOf
  <2> HIDE DEF buckets, kept
  <2> QED
    BY <2>4, <2>5, <2>6, <2>7
<1>9. ASSUME NEW b \in buckets
      PROVE  /\ row(b).run = b.run /\ row(b).start = b.start
             /\ row(b).requests = Cardinality(places(b) \cap asked) /\ row(b).requests > 0
             /\ row(b).requests = SumOver(row(b).operations)
             /\ row(b).errors = Cardinality({i \in places(b) \cap asked : ~ events[i].ok})
  <2> DEFINE P == places(b)
             r == Row(events, b, P)
             Q == P \cap Asked(events)
  <2>1. P \in SUBSET DOMAIN events /\ P \cap Asked(events) # {}
    BY <1>3, <1>7
  <2> HIDE DEF P
  <2>2. /\ r.run = b.run /\ r.start = b.start
        /\ r.requests = Cardinality(Q) /\ r.requests > 0
        /\ r.requests = SumOver(r.operations)
        /\ r.errors = Cardinality(Failed(events, Q))
    BY <1>1, <2>1, RowIs, ZenonT(60)
  <2>3. row(b) = r /\ places(b) \cap asked = Q
    BY <1>3 DEF P
  <2> HIDE DEF r, Q, row, places
  <2> QED
    BY <2>2, <2>3 DEF Failed
<1>10. ASSUME NEW b \in buckets
       PROVE  /\ places(b) \cap asked = {i \in counted : within(i, row(b))}
              /\ \A i \in counted : within(i, row(b)) <=> BucketOf(events[i]) = b
  <2>1. \A i \in counted : within(i, row(b)) <=> BucketOf(events[i]) = b
    <3> SUFFICES ASSUME NEW i \in counted PROVE within(i, row(b)) <=> BucketOf(events[i]) = b
      OBVIOUS
    <3>1. i \in kept
      BY <1>5
    <3>2. row(b).run = b.run /\ row(b).start = b.start
      BY <1>9
    <3> HIDE DEF row, buckets, kept
    <3> QED
      BY <3>1, <3>2, <1>8
  <2>2. places(b) \cap asked = {i \in counted : BucketOf(events[i]) = b}
    BY <1>5, <1>7
  <2> HIDE DEF within, places, row
  <2> QED
    BY <2>1, <2>2
<1>11. ASSUME NEW r \in rows
       PROVE  /\ r.start % Window = 0
              /\ r.requests = Cardinality({i \in counted : within(i, r)}) /\ r.requests > 0
              /\ r.requests = SumOver(r.operations)
              /\ r.errors = Cardinality({i \in counted : within(i, r) /\ ~ events[i].ok})
  <2>1. PICK b \in buckets : r = row(b)
    BY <1>6
  <2>2. {i \in counted : within(i, r) /\ ~ events[i].ok} = {i \in places(b) \cap asked : ~ events[i].ok}
    <3>1. places(b) \cap asked = {i \in counted : within(i, r)}
      BY <2>1, <1>10
    <3> HIDE DEF within, places
    <3> QED
      BY <3>1
  <2>3. {i \in counted : within(i, r)} = places(b) \cap asked
    BY <2>1, <1>10
  <2>4. r.start % Window = 0
    BY <2>1, <1>7, <1>9
  <2>5. /\ r.requests = Cardinality(places(b) \cap asked) /\ r.requests > 0
        /\ r.requests = SumOver(r.operations)
        /\ r.errors = Cardinality({i \in places(b) \cap asked : ~ events[i].ok})
    <3> HIDE DEF row, places, buckets
    <3> QED
      BY <2>1, <1>9
  <2> HIDE DEF within, places, row, buckets
  <2> QED
    BY <2>2, <2>3, <2>4, <2>5
<1>12. ASSUME NEW i \in counted
       PROVE  Cardinality({r \in rows : within(i, r)}) = 1
  <2> DEFINE b == BucketOf(events[i])
  <2>1. b \in buckets
    BY <1>5
  <2>2. row(b) \in rows /\ within(i, row(b))
    <3> HIDE DEF within, row, buckets
    <3> QED
      BY <2>1, <1>6, <1>10
  <2>3. ASSUME NEW r \in rows, within(i, r)
        PROVE  r = row(b)
    <3>1. PICK a \in buckets : r = row(a)
      BY <1>6
    <3>2. b = a
      <4> HIDE DEF within, row, buckets
      <4> QED
        BY <2>3, <3>1, <1>10
    <3> QED
      BY <3>1, <3>2
  <2>4. {r \in rows : within(i, r)} = {row(b)}
    <3> HIDE DEF within, row, b
    <3> QED
      BY <2>2, <2>3
  <2> QED
    BY <2>4, FS_Singleton
<1> HIDE DEF within
<1> QED
  BY <1>11, <1>12 DEF RowsExact, rows, asked, early, counted, within, events

\* stage3-train-evaluate.py writes the rows of a collection it accepts: the rows
\* on the disk account for every request of their collection after the warm-up,
\* each in one row, and for nothing else, whatever the events are.
THEOREM RowsComplete == Spec => []FeaturesAccountForRequests
<1>1. TypeInv /\ AcceptedInv => FeaturesAccountForRequests
  <2> SUFFICES ASSUME TypeInv, AcceptedInv, IsWhole("features-all")
               PROVE  disk["features-all"].of \in ExactCollections
    BY DEF FeaturesAccountForRequests
  <2>1. disk["features-all"].of \in Accepted[stage]
    BY DEF AcceptedInv
  <2>2. Accepted[stage] \subseteq DOMAIN Collections
    BY DEF Accepted, TypeInv
  <2> QED
    BY <2>1, <2>2, RowsAccount DEF ExactCollections
<1>2. Init => TypeInv
  BY TypeInit
<1>3. TypeInv /\ [Next]_vars => TypeInv'
  BY TypeNext
<1> QED
  BY <1>1, <1>2, <1>3, OnlyAccepted, PTL DEF Spec

-----------------------------------------------------------------------------
(* Parts of a list (training.py: the rows of some runs, in their order) *)

\* A function on 1..n is a list of length n.
LEMMA ListOf ==
  ASSUME NEW T, NEW n \in Nat, NEW f \in [1..n -> T]
  PROVE  f \in Seq(T) /\ Len(f) = n /\ DOMAIN f = 1..n
<1>1. f \in Seq(T)
  BY SeqDef
<1>2. DOMAIN f = 1..Len(f) /\ Len(f) \in Nat
  BY <1>1, LenProperties
<1>3. 1..Len(f) = 1..n
  BY <1>2
<1>4. Len(f) = n
  BY <1>2, <1>3
<1> QED
  BY <1>1, <1>2, <1>4

\* Numbers in order: each once.
LEMMA NumbersRanked ==
  ASSUME NEW S, S \subseteq Nat, IsFiniteSet(S)
  PROVE  /\ Cardinality(S) \in Nat
         /\ Ranked(S, <) \in Bijection(1..Cardinality(S), S)
<1> DEFINE n == Cardinality(S)
           below == [x \in S |-> {y \in S : y < x}]
           at == Ranked(S, <)
<1>1. n \in Nat
  BY FS_CardinalityType
<1>2. below \in [S -> SUBSET S]
  OBVIOUS
<1>3. /\ \A x \in S : x \notin below[x]
      /\ \A x, y \in S : x \in below[y] => below[x] \subseteq below[y]
      /\ \A x, y \in S : x = y \/ x \in below[y] \/ y \in below[x]
  <2>1. \A x \in S : x \in Nat
    OBVIOUS
  <2>2. \A x, y \in S : x \in below[y] => below[x] \subseteq below[y]
    <3> SUFFICES ASSUME NEW x \in S, NEW y \in S, x \in below[y], NEW z \in below[x]
                 PROVE  z \in below[y]
      OBVIOUS
    <3>1. z \in S /\ z < x /\ x < y
      OBVIOUS
    <3>2. z < y
      BY <2>1, <3>1
    <3> QED
      BY <3>1, <3>2
  <2> QED
    BY <2>1, <2>2
<1>4. at = [k \in 1..n |-> CHOOSE x \in S : Cardinality({y \in S : y < x}) = k - 1]
  BY DEF Ranked
<1>5. ASSUME NEW k \in 1..n, \E x \in S : Cardinality(below[x]) = k - 1
      PROVE  at[k] \in S /\ Cardinality(below[at[k]]) = k - 1
  <2>1. \E x \in S : Cardinality({y \in S : y < x}) = k - 1
    BY <1>5
  <2>2. at[k] = CHOOSE x \in S : Cardinality({y \in S : y < x}) = k - 1
    BY <1>4
  <2>3. at[k] \in S /\ Cardinality({y \in S : y < at[k]}) = k - 1
    <3> HIDE DEF at
    <3> QED
      BY <2>1, <2>2
  <2> HIDE DEF at
  <2> QED
    BY <2>3
<1>6. at = [k \in 1..n |-> at[k]]
  BY <1>4
<1>7. at \in Bijection(1..n, S)
  <2> HIDE DEF at, below
  <2> QED
    BY <1>2, <1>3, <1>5, <1>6, Ranks
<1> QED
  BY <1>1, <1>7

\* The elements at some places are those, each once.
LEMMA AtIs ==
  ASSUME NEW T, NEW s \in Seq(T), NEW places \in SUBSET DOMAIN s
  PROVE  /\ IsFiniteSet(places) /\ Cardinality(places) \in Nat
         /\ At(s, places) \in Seq(T) /\ Len(At(s, places)) = Cardinality(places)
         /\ \E at \in Bijection(1..Cardinality(places), places) :
              At(s, places) = [k \in 1..Cardinality(places) |-> s[at[k]]]
<1> DEFINE n == Cardinality(places)
           at == Ranked(places, <)
           f == [k \in 1..n |-> s[at[k]]]
<1>1. DOMAIN s = 1..Len(s) /\ Len(s) \in Nat /\ \A i \in DOMAIN s : s[i] \in T
  BY LenProperties, ElementOfSeq
<1>2. IsFiniteSet(places) /\ places \subseteq Nat
  <2>1. IsFiniteSet(1..Len(s))
    BY <1>1, FS_Interval
  <2> QED
    BY <1>1, <2>1, FS_Subset
<1>3. n \in Nat /\ at \in Bijection(1..n, places)
  BY <1>2, NumbersRanked
<1>4. At(s, places) = f
  <2>1. DOMAIN at = 1..n
    BY DEF Ranked
  <2>2. At(s, places) = f \o << >>
    BY <2>1 DEF At, Each
  <2>3. f = [k \in 1..n |-> f[k]]
    OBVIOUS
  <2> HIDE DEF f
  <2>4. f \o << >> = f
    BY <1>3, <2>3, NoTail
  <2> QED
    BY <2>2, <2>4
<1> HIDE DEF at
<1>5. \A k \in 1..n : at[k] \in places
  BY <1>3 DEF Bijection, Injection
<1>6. f \in [1..n -> T]
  BY <1>1, <1>5
<1>7. f \in Seq(T) /\ Len(f) = n
  <2> HIDE DEF f
  <2> QED
    BY <1>3, <1>6, ListOf
<1> QED
  BY <1>2, <1>3, <1>4, <1>7

\* How many elements of a list are in a set.
Tally(s, T) == Cardinality({i \in DOMAIN s : s[i] \in T})

\* It counts places.
LEMMA TallyAt ==
  ASSUME NEW T, NEW s \in Seq(T), NEW places \in SUBSET DOMAIN s, NEW V,
         NEW U, U = {i \in places : s[i] \in V}
  PROVE  /\ Tally(At(s, places), V) = Cardinality(U)
         /\ IsFiniteSet(U) /\ Cardinality(U) \in Nat
<1> DEFINE n == Cardinality(places)
           q == At(s, places)
           W == {k \in DOMAIN q : q[k] \in V}
<1>1. IsFiniteSet(places) /\ n \in Nat
  BY AtIs
<1>2. PICK at \in Bijection(1..n, places) : q = [k \in 1..n |-> s[at[k]]]
  BY AtIs
<1>3. \A k \in 1..n : at[k] \in places
  BY <1>2 DEF Bijection, Injection
<1>4. W = {k \in 1..n : at[k] \in U}
  <2>1. DOMAIN q = 1..n /\ \A k \in 1..n : q[k] = s[at[k]]
    BY <1>2
  <2> HIDE DEF q, n
  <2> QED
    BY <1>3, <2>1
<1>5. U \in SUBSET places
  OBVIOUS
<1>6. Cardinality(W) = Cardinality(U)
  <2> HIDE DEF W, q, n
  <2> QED
    BY <1>1, <1>2, <1>4, <1>5, Matched DEF n
<1>7. IsFiniteSet(U) /\ Cardinality(U) \in Nat
  BY <1>1, <1>5, FS_Subset, FS_CardinalityType
<1> QED
  BY <1>6, <1>7 DEF Tally

\* What is in it.
LEMMA ElementsAt ==
  ASSUME NEW T, NEW s \in Seq(T), NEW places \in SUBSET DOMAIN s
  PROVE  ToSet(At(s, places)) = {s[i] : i \in places}
<1> DEFINE n == Cardinality(places)
           q == At(s, places)
<1>1. PICK at \in Bijection(1..n, places) : q = [k \in 1..n |-> s[at[k]]]
  BY AtIs
<1>2. (\A k \in 1..n : at[k] \in places) /\ \A i \in places : \E k \in 1..n : at[k] = i
  BY <1>1 DEF Bijection, Injection, Surjection
<1>3. ToSet(q) = {s[at[k]] : k \in 1..n}
  <2> HIDE DEF n
  <2> QED
    BY <1>1 DEF ToSet
<1> QED
  <2> HIDE DEF q, n
  <2> QED
    BY <1>2, <1>3 DEF q

\* The elements of two lists are those of the one and of the other.
LEMMA TallyConcat ==
  ASSUME NEW T, NEW s \in Seq(T), NEW t \in Seq(T), NEW V
  PROVE  /\ Tally(s, V) \in Nat /\ Tally(t, V) \in Nat
         /\ Tally(s \o t, V) = Tally(s, V) + Tally(t, V)
         /\ ToSet(s \o t) = ToSet(s) \cup ToSet(t)
<1> DEFINE m == Len(s)
           n == Len(t)
           q == s \o t
           A == {i \in DOMAIN s : s[i] \in V}
           B == {i \in DOMAIN t : t[i] \in V}
           C == {i \in DOMAIN q : q[i] \in V}
           D == {i \in (m + 1)..(m + n) : t[i - m] \in V}
<1>1. m \in Nat /\ n \in Nat /\ DOMAIN s = 1..m /\ DOMAIN t = 1..n
  BY LenProperties
<1>2. /\ q \in Seq(T) /\ Len(q) = m + n
      /\ \A i \in 1..(m + n) : q[i] = IF i <= m THEN s[i] ELSE t[i - m]
  BY ConcatProperties
<1>3. DOMAIN q = 1..(m + n)
  BY <1>2, LenProperties
<1>4. IsFiniteSet(1..m) /\ IsFiniteSet(1..n) /\ IsFiniteSet((m + 1)..(m + n))
  BY <1>1, FS_Interval
<1>5. A \in SUBSET (1..m) /\ B \in SUBSET (1..n) /\ D \in SUBSET ((m + 1)..(m + n))
  BY <1>1
<1>6. IsFiniteSet(A) /\ IsFiniteSet(B) /\ IsFiniteSet(D)
  <2> HIDE DEF A, B, D
  <2> QED
    BY <1>4, <1>5, FS_Subset
<1>7. Cardinality(A) \in Nat /\ Cardinality(B) \in Nat /\ Cardinality(D) \in Nat
  <2> HIDE DEF A, B, D
  <2> QED
    BY <1>6, FS_CardinalityType
<1>8. C = A \cup D /\ A \cap D = {}
  <2>1. \A i \in 1..m : q[i] = s[i] /\ i \in 1..(m + n)
    BY <1>1, <1>2
  <2>2. \A i \in (m + 1)..(m + n) : q[i] = t[i - m] /\ i \in 1..(m + n)
    BY <1>1, <1>2
  <2>3. \A i \in 1..(m + n) : i \in 1..m \/ i \in (m + 1)..(m + n)
    BY <1>1
  <2>4. \A i \in 1..m : i \notin (m + 1)..(m + n)
    BY <1>1
  <2> HIDE DEF q, m, n
  <2>5. C = A \cup D
    BY <1>1, <1>3, <2>1, <2>2, <2>3
  <2>6. A \cap D = {}
    BY <1>1, <2>4
  <2> QED
    BY <2>5, <2>6
<1>9. Cardinality(C) = Cardinality(A) + Cardinality(D)
  <2>1. Cardinality(A \cap D) = 0
    BY <1>8, FS_EmptySet
  <2>2. Cardinality(A \cup D) = Cardinality(A) + Cardinality(D) - Cardinality(A \cap D)
    <3> HIDE DEF A, D
    <3> QED
      BY <1>6, FS_Union
  <2> HIDE DEF A, C, D
  <2> QED
    BY <1>7, <1>8, <2>1, <2>2
<1>10. Cardinality(D) = Cardinality(B)
  <2> DEFINE g == [i \in (m + 1)..(m + n) |-> i - m]
  <2>1. g \in [(m + 1)..(m + n) -> 1..n]
    BY <1>1
  <2>2. \A i, j \in (m + 1)..(m + n) : g[i] = g[j] => i = j
    BY <1>1
  <2>3. \A j \in 1..n : \E i \in (m + 1)..(m + n) : g[i] = j
    <3> SUFFICES ASSUME NEW j \in 1..n PROVE \E i \in (m + 1)..(m + n) : g[i] = j
      OBVIOUS
    <3>1. j + m \in (m + 1)..(m + n) /\ (j + m) - m = j
      BY <1>1
    <3> QED
      BY <3>1
  <2>4. D = {i \in (m + 1)..(m + n) : g[i] \in B}
    <3>1. \A i \in (m + 1)..(m + n) : g[i] = i - m /\ i - m \in 1..n
      BY <1>1
    <3> HIDE DEF g, m, n
    <3> QED
      BY <1>1, <3>1
  <2> HIDE DEF g, D, B, m, n
  <2>5. g \in Bijection((m + 1)..(m + n), 1..n)
    BY <2>1, <2>2, <2>3 DEF Bijection, Injection, Surjection, IsInjective
  <2> DEFINE P == (m + 1)..(m + n)
             Q == 1..n
  <2>6. /\ IsFiniteSet(Q) /\ B \in SUBSET Q /\ g \in Bijection(P, Q)
        /\ D = {i \in P : g[i] \in B}
    BY <1>4, <1>5, <2>4, <2>5
  <2> HIDE DEF P, Q
  <2> QED
    BY <2>6, Matched
<1>11. ToSet(q) = ToSet(s) \cup ToSet(t)
  <2>1. \A i \in 1..m : q[i] = s[i] /\ i \in 1..(m + n)
    BY <1>1, <1>2
  <2>2. \A j \in 1..n : q[j + m] = t[j] /\ j + m \in 1..(m + n)
    BY <1>1, <1>2
  <2>3. ASSUME NEW i \in 1..(m + n)
        PROVE  \/ q[i] = s[i] /\ i \in 1..m
               \/ q[i] = t[i - m] /\ i - m \in 1..n
    <3> HIDE DEF q, m, n
    <3>1. CASE i <= m
      <4>1. q[i] = s[i]
        BY <3>1, <1>2
      <4>2. i \in 1..m
        BY <3>1, <1>1
      <4> QED
        BY <4>1, <4>2
    <3>2. CASE ~ (i <= m)
      <4>1. q[i] = t[i - m]
        BY <3>2, <1>2
      <4>2. i - m \in 1..n
        BY <3>2, <1>1
      <4> QED
        BY <4>1, <4>2
    <3> QED
      BY <3>1, <3>2
  <2> HIDE DEF q, m, n
  <2>4. /\ ToSet(q) = {q[i] : i \in 1..(m + n)}
        /\ ToSet(s) = {s[i] : i \in 1..m} /\ ToSet(t) = {t[i] : i \in 1..n}
    BY <1>1, <1>3 DEF ToSet
  <2>5. ASSUME NEW x \in ToSet(q) PROVE x \in ToSet(s) \cup ToSet(t)
    BY <2>3, <2>4
  <2>6. ASSUME NEW x \in ToSet(s) \cup ToSet(t) PROVE x \in ToSet(q)
    BY <2>1, <2>2, <2>4
  <2> QED
    BY <2>5, <2>6
<1> HIDE DEF A, B, C, D
<1> QED
  BY <1>7, <1>9, <1>10, <1>11 DEF Tally, A, B, C

-----------------------------------------------------------------------------
(* What is in a row *)

\* The types a row has.
IsRow(row) ==
  /\ row.run \in Nat /\ row.start \in Nat /\ row.attack \in BOOLEAN
  /\ row.requests \in Nat \ {0} /\ row.errors \in Nat
  /\ row.bodyReuse[1] \in Int /\ row.bodyReuse[2] \in Nat

\* A share of what is there is a pair of numbers.
LEMMA ReuseIs ==
  ASSUME NEW n \in Nat, NEW values, DOMAIN values = 1..n
  PROVE  Reuse(values)[1] \in Int /\ Reuse(values)[2] \in Nat
<1> DEFINE there == {i \in DOMAIN values : values[i] # ""}
           kinds == {values[i] : i \in there}
           f == [i \in there |-> values[i]]
<1>1. IsFiniteSet(1..n)
  BY FS_Interval
<1>2. there \in SUBSET (1..n)
  OBVIOUS
<1>3. IsFiniteSet(there)
  <2> HIDE DEF there
  <2> QED
    BY <1>1, <1>2, FS_Subset
<1>4. f \in Surjection(there, kinds)
  <2>1. f \in [there -> kinds] /\ \A k \in kinds : \E i \in there : f[i] = k
    OBVIOUS
  <2> HIDE DEF f, there, kinds
  <2> QED
    BY <2>1 DEF Surjection
<1>5. IsFiniteSet(kinds)
  <2> HIDE DEF f, there, kinds
  <2> QED
    BY <1>3, <1>4, FS_Surjection
<1>6. Cardinality(there) \in Nat /\ Cardinality(kinds) \in Nat
  <2> HIDE DEF there, kinds
  <2> QED
    BY <1>3, <1>5, FS_CardinalityType
<1>7. Reuse(values) = <<Cardinality(there) - Cardinality(kinds), Cardinality(there)>>
  BY DEF Reuse
<1> HIDE DEF there, kinds
<1> QED
  BY <1>6, <1>7

\* The row of a bucket that has requests is one.
LEMMA RowTyped ==
  ASSUME NEW events \in Seq(Event), NEW b, b.run \in Nat, b.start \in Nat,
         NEW places \in SUBSET DOMAIN events, places \cap Asked(events) # {}
  PROVE  IsRow(Row(events, b, places))
<1> DEFINE asked == places \cap Asked(events)
           n == Cardinality(asked)
           q == ByTime(events, asked)
           row == Row(events, b, places)
           bodies == [i \in 1..n |-> q[i].body]
<1>1. asked \in SUBSET DOMAIN events
  OBVIOUS
<1>2. /\ row.run = b.run /\ row.start = b.start
      /\ row.requests = n /\ row.requests > 0
      /\ row.errors = Cardinality(Failed(events, asked))
  BY RowIs
<1>3. IsFiniteSet(asked) /\ n \in Nat
  <2> HIDE DEF asked
  <2> QED
    BY <1>1, ByTimeIs
<1>4. PICK at \in Bijection(1..n, asked) : q = [k \in 1..n |-> events[at[k]]]
  <2> HIDE DEF asked
  <2> QED
    BY <1>1, ByTimeIs
<1>5. row.attack \in BOOLEAN
  <2>1. 1 \in 1..n
    <3> HIDE DEF n, row
    <3> QED
      BY <1>2, <1>3
  <2>2. at[1] \in asked
    <3> HIDE DEF n, asked
    <3> QED
      BY <2>1, <1>4 DEF Bijection, Injection
  <2>3. events[at[1]] \in Event
    BY <2>2, <1>1, EventsAre
  <2>4. q[1] = events[at[1]]
    BY <2>1, <1>4
  <2>5. row.attack = q[1].attack
    BY DEF Row, RowOf
  <2> HIDE DEF row, q
  <2> QED
    BY <2>3, <2>4, <2>5 DEF Event
<1>6. row.errors \in Nat
  <2>1. Failed(events, asked) \in SUBSET asked
    BY DEF Failed
  <2> HIDE DEF asked, row
  <2> QED
    BY <1>2, <1>3, <2>1, FS_Subset, FS_CardinalityType
<1>7. row.bodyReuse[1] \in Int /\ row.bodyReuse[2] \in Nat
  <2>1. DOMAIN q = 1..n
    BY <1>4
  <2>2. bodies = [k \in 1..n |-> bodies[k]] /\ DOMAIN bodies = 1..n
    OBVIOUS
  <2>3. Each(q, LAMBDA e : e.body) = bodies \o << >>
    <3> HIDE DEF n, q
    <3> QED
      BY <2>1 DEF Each
  <2>4. row.bodyReuse = Reuse(Each(q, LAMBDA e : e.body))
    BY DEF Row, RowOf
  <2> HIDE DEF n, q, row, bodies
  <2>5. bodies \o << >> = bodies
    BY <2>2, <1>3, NoTail
  <2> QED
    BY <2>2, <2>3, <2>4, <2>5, <1>3, ReuseIs
<1>8. IsRow(row)
  <2> HIDE DEF row, n
  <2>1. row.run \in Nat /\ row.start \in Nat
    BY <1>2
  <2>2. row.requests \in Nat \ {0}
    BY <1>2, <1>3
  <2> QED
    BY <2>1, <2>2, <1>5, <1>6, <1>7 DEF IsRow
<1> QED
  BY <1>8

\* A list of such rows.
IsTable(rows) == rows \in Seq(ToSet(rows)) /\ \A row \in ToSet(rows) : IsRow(row)

\* The rows of a collection are one.
LEMMA TableOf ==
  ASSUME NEW c \in DOMAIN Collections
  PROVE  IsTable(RowsOf[c])
<1> DEFINE events == ReadLines(Collections[c].requests \o Collections[c].resources)
           kept == Kept(events) \cap Asked(events)
           buckets == {BucketOf(events[i]) : i \in kept}
           places(b) == {i \in Kept(events) : BucketOf(events[i]) = b}
<1>1. events \in Seq(Event)
  <2>1. Collections[c].requests \in Seq(Seq(Event)) /\ Collections[c].resources \in Seq(Seq(Event))
    BY CollectionsAssumption
  <2>2. Collections[c].requests \o Collections[c].resources \in Seq(Seq(Event))
    BY <2>1, ConcatProperties
  <2> QED
    BY <2>2, FlattenType DEF ReadLines
<1>2. RowsOf[c] = AggregateEvents(events)
  BY DEF RowsOf, AllRows
<1> HIDE DEF events
<1>3. /\ ToSet(AggregateEvents(events)) = {Row(events, b, places(b)) : b \in buckets}
      /\ AggregateEvents(events) \in Seq(ToSet(AggregateEvents(events)))
  BY <1>1, RowsAre
<1>4. ASSUME NEW b \in buckets
      PROVE  IsRow(Row(events, b, places(b)))
  <2>1. PICK i \in kept : b = BucketOf(events[i])
    OBVIOUS
  <2>2. i \in DOMAIN events
    BY DEF Asked
  <2>3. events[i].run \in Nat /\ WindowStart(events[i].ts) \in Nat
    BY <1>1, <2>2, EventsAre, WindowIs
  <2>4. b.run \in Nat /\ b.start \in Nat
    BY <2>1, <2>3 DEF BucketOf
  <2>5. i \in places(b) \cap Asked(events)
    BY <2>1
  <2>6. places(b) \in SUBSET DOMAIN events
    BY DEF Kept
  <2> HIDE DEF places
  <2> QED
    BY <1>1, <2>4, <2>5, <2>6, RowTyped
<1>5. \A row \in {Row(events, b, places(b)) : b \in buckets} : IsRow(row)
  <2> HIDE DEF places, buckets
  <2> QED
    BY <1>4
<1> HIDE DEF places, buckets
<1> QED
  BY <1>2, <1>3, <1>5 DEF IsTable

\* The elements of a list that are in a set.
Within(s, K) == At(s, {i \in DOMAIN s : s[i] \in K})

\* How long that is, what is in it and how often.
LEMMA WithinIs ==
  ASSUME NEW T, NEW s \in Seq(T), NEW K
  PROVE  /\ Within(s, K) \in Seq(T)
         /\ Len(Within(s, K)) = Tally(s, K) /\ Tally(s, K) \in Nat
         /\ ToSet(Within(s, K)) = ToSet(s) \cap K
         /\ \A V : Tally(Within(s, K), V) = Tally(s, V \cap K)
<1> DEFINE P == {i \in DOMAIN s : s[i] \in K}
<1>1. P \in SUBSET DOMAIN s
  OBVIOUS
<1>2. Tally(s, K) = Cardinality(P)
  BY DEF Tally
<1>3. ASSUME NEW V
      PROVE  Tally(At(s, P), V) = Tally(s, V \cap K)
  <2> DEFINE U == {i \in P : s[i] \in V}
  <2>1. Tally(At(s, P), V) = Cardinality(U)
    <3>1. U = {i \in P : s[i] \in V}
      OBVIOUS
    <3> HIDE DEF P, U
    <3> QED
      BY <1>1, <3>1, TallyAt
  <2>2. U = {i \in DOMAIN s : s[i] \in V \cap K}
    OBVIOUS
  <2> HIDE DEF P, U
  <2> QED
    BY <2>1, <2>2 DEF Tally
<1>4. ToSet(At(s, P)) = ToSet(s) \cap K
  <2>1. ToSet(s) = {s[i] : i \in DOMAIN s}
    BY LenProperties DEF ToSet
  <2>2. {s[i] : i \in P} = ToSet(s) \cap K
    BY <2>1
  <2> HIDE DEF P
  <2>3. ToSet(At(s, P)) = {s[i] : i \in P}
    BY <1>1, ElementsAt
  <2> QED
    BY <2>2, <2>3
<1>5. /\ At(s, P) \in Seq(T) /\ Len(At(s, P)) = Cardinality(P) /\ Cardinality(P) \in Nat
  <2> HIDE DEF P
  <2> QED
    BY <1>1, AtIs
<1>6. Within(s, K) = At(s, P)
  BY DEF Within
<1> HIDE DEF P
<1> QED
  BY <1>2, <1>3, <1>4, <1>5, <1>6

\* Elements of two sets are of the one or of the other.
LEMMA TallyUnion ==
  ASSUME NEW T, NEW s \in Seq(T), NEW V, NEW W, V \cap W \cap ToSet(s) = {}
  PROVE  Tally(s, V \cup W) = Tally(s, V) + Tally(s, W)
<1> DEFINE A == {i \in DOMAIN s : s[i] \in V}
           B == {i \in DOMAIN s : s[i] \in W}
           C == {i \in DOMAIN s : s[i] \in V \cup W}
<1>1. DOMAIN s = 1..Len(s) /\ Len(s) \in Nat
  BY LenProperties
<1>2. IsFiniteSet(1..Len(s))
  BY <1>1, FS_Interval
<1>3. A \in SUBSET (1..Len(s)) /\ B \in SUBSET (1..Len(s))
  BY <1>1
<1>4. ToSet(s) = {s[i] : i \in DOMAIN s}
  BY LenProperties DEF ToSet
<1>5. C = A \cup B /\ A \cap B = {}
  BY <1>4
<1>6. IsFiniteSet(A) /\ IsFiniteSet(B) /\ Cardinality(A) \in Nat /\ Cardinality(B) \in Nat
  <2> HIDE DEF A, B
  <2> QED
    BY <1>2, <1>3, FS_Subset, FS_CardinalityType
<1>7. Cardinality(A \cup B) = Cardinality(A) + Cardinality(B) - Cardinality(A \cap B)
  <2> HIDE DEF A, B
  <2> QED
    BY <1>6, FS_Union
<1>8. Cardinality(A \cap B) = 0
  BY <1>5, FS_EmptySet
<1>9. Cardinality(C) = Cardinality(A) + Cardinality(B)
  <2> HIDE DEF A, B, C
  <2> QED
    BY <1>5, <1>6, <1>7, <1>8
<1> QED
  BY <1>9 DEF Tally

\* Only those count that are in the list.
LEMMA TallySame ==
  ASSUME NEW T, NEW s \in Seq(T), NEW V, NEW W, V \cap ToSet(s) = W \cap ToSet(s)
  PROVE  Tally(s, V) = Tally(s, W)
<1>1. ToSet(s) = {s[i] : i \in DOMAIN s}
  BY LenProperties DEF ToSet
<1>2. \A i \in DOMAIN s : s[i] \in V <=> s[i] \in W
  BY <1>1
<1>3. {i \in DOMAIN s : s[i] \in V} = {i \in DOMAIN s : s[i] \in W}
  BY <1>2
<1> QED
  BY <1>3 DEF Tally

\* A list is as long as what is in it counts.
LEMMA TallyAll ==
  ASSUME NEW T, NEW s \in Seq(T), NEW V, ToSet(s) \subseteq V
  PROVE  Tally(s, V) = Len(s)
<1>1. DOMAIN s = 1..Len(s) /\ Len(s) \in Nat
  BY LenProperties
<1>2. ToSet(s) = {s[i] : i \in DOMAIN s}
  BY LenProperties DEF ToSet
<1>3. {i \in DOMAIN s : s[i] \in V} = 1..Len(s)
  BY <1>1, <1>2
<1>4. Cardinality(1..Len(s)) = Len(s)
  <2>1. Cardinality(1..Len(s)) = IF 1 > Len(s) THEN 0 ELSE Len(s) - 1 + 1
    BY <1>1, FS_Interval
  <2> QED
    BY <1>1, <2>1
<1> QED
  BY <1>3, <1>4 DEF Tally

\* Nor does it count what is not there.
LEMMA TallyNone ==
  ASSUME NEW T, NEW s \in Seq(T), NEW V, V \cap ToSet(s) = {}
  PROVE  Tally(s, V) = 0
<1>1. ToSet(s) = {s[i] : i \in DOMAIN s}
  BY LenProperties DEF ToSet
<1>2. {i \in DOMAIN s : s[i] \in V} = {}
  BY <1>1
<1> QED
  BY <1>2, FS_EmptySet DEF Tally

-----------------------------------------------------------------------------
(* The parts of a split (training.py)                                      *)

\* The greater of two numbers.
LEMMA MaxOfTwo ==
  ASSUME NEW a \in Int, NEW b \in Int
  PROVE  Max({a, b}) = IF a >= b THEN a ELSE b
BY DEF Max

\* Each part ends where the next begins, and none is beyond the last run.
LEMMA EndsOfParts ==
  ASSUME NEW n \in Nat, n >= 5
  PROVE  /\ TrainEnd(n) \in 1..n /\ ValidationEnd(n) \in 1..n
         /\ TrainEnd(n) < ValidationEnd(n)
<1>1. /\ (n * 6) \div 10 \in Nat /\ (n * 8) \div 10 \in Nat
      /\ (n * 6) \div 10 <= n - 1 /\ (n * 8) \div 10 <= n
  OBVIOUS
<1>2. TrainEnd(n) = IF 1 >= (n * 6) \div 10 THEN 1 ELSE (n * 6) \div 10
  BY <1>1, MaxOfTwo DEF TrainEnd
<1>3. TrainEnd(n) \in 1..(n - 1)
  BY <1>1, <1>2
<1>4. ValidationEnd(n) = IF TrainEnd(n) + 1 >= (n * 8) \div 10 THEN TrainEnd(n) + 1
                                                              ELSE (n * 8) \div 10
  BY <1>1, <1>3, MaxOfTwo DEF ValidationEnd
<1> QED
  BY <1>1, <1>3, <1>4

\* A list cut in three loses nothing.
LEMMA ThirdsAre ==
  ASSUME NEW T, NEW s \in Seq(T), Len(s) >= 5
  PROVE  Thirds(s).train \cup Thirds(s).validation \cup Thirds(s).test = {s[i] : i \in 1..Len(s)}
<1> DEFINE n == Len(s)
           a == TrainEnd(n)
           b == ValidationEnd(n)
<1>1. n \in Nat /\ a \in 1..n /\ b \in 1..n /\ a < b
  BY LenProperties, EndsOfParts
<1>2. /\ Thirds(s).train = {s[i] : i \in 1..a}
      /\ Thirds(s).validation = {s[i] : i \in (a + 1)..b}
      /\ Thirds(s).test = {s[i] : i \in (b + 1)..n}
  BY DEF Thirds
<1> HIDE DEF n, a, b
<1>3. 1..n = 1..a \cup (a + 1)..b \cup (b + 1)..n
  BY <1>1
<1> QED
  BY <1>2, <1>3 DEF n

\* Every run is in a part.
LEMMA CutIs ==
  ASSUME NEW ids, ids \subseteq Nat, IsFiniteSet(ids), Cardinality(ids) >= 5, NEW seed,
         {Permutation[seed][Cardinality(ids)][k] : k \in 1..Cardinality(ids)} = 1..Cardinality(ids)
  PROVE  Cut(ids, seed).train \cup Cut(ids, seed).validation \cup Cut(ids, seed).test = ids
<1> DEFINE n == Cardinality(ids)
           r == Ranked(ids, <)
           p == Permutation[seed][n]
           q == [k \in 1..n |-> r[p[k]]]
<1>1. n \in Nat /\ r \in Bijection(1..n, ids)
  BY NumbersRanked
<1> HIDE DEF r
<1>2. r \in [1..n -> ids] /\ \A x \in ids : \E k \in 1..n : r[k] = x
  BY <1>1 DEF Bijection, Injection, Surjection
<1>3. Len(r) = n /\ DOMAIN r = 1..n
  <2> HIDE DEF n
  <2> QED
    BY <1>1, <1>2, ListOf
<1>4. (\A k \in 1..n : p[k] \in 1..n) /\ \A j \in 1..n : \E k \in 1..n : p[k] = j
  <2>1. {p[k] : k \in 1..n} = 1..n
    OBVIOUS
  <2> HIDE DEF n, p
  <2> QED
    BY <2>1
<1>5. Shuffled(r, seed) = q
  BY <1>3 DEF Shuffled
<1>6. q \in [1..n -> ids]
  <2> HIDE DEF n, p
  <2> QED
    BY <1>2, <1>4
<1>7. q \in Seq(ids) /\ Len(q) = n
  <2> HIDE DEF n, q
  <2> QED
    BY <1>1, <1>6, ListOf
<1>8. {q[k] : k \in 1..n} = ids
  <2>1. \A k \in 1..n : q[k] \in ids
    BY <1>6
  <2>2. \A x \in ids : \E k \in 1..n : q[k] = x
    <3> SUFFICES ASSUME NEW x \in ids PROVE \E k \in 1..n : q[k] = x
      OBVIOUS
    <3>1. PICK j \in 1..n : r[j] = x
      BY <1>2
    <3>2. PICK k \in 1..n : p[k] = j
      BY <1>4
    <3>3. q[k] = x
      BY <3>1, <3>2
    <3> QED
      BY <3>3
  <2> HIDE DEF q, n
  <2> QED
    BY <2>1, <2>2
<1>9. Cut(ids, seed) = Thirds(q)
  BY <1>5 DEF Cut, r
<1> HIDE DEF q, n
<1>10. n >= 5
  BY DEF n
<1> QED
  BY <1>7, <1>8, <1>9, <1>10, ThirdsAre

\* The benign rows of a list, those of attacks, and those of some runs.
Quiet(rows) == {row \in ToSet(rows) : ~ row.attack}

Hostile(rows) == {row \in ToSet(rows) : row.attack}

OfSome(rows, ids) == {row \in ToSet(rows) : row.run \in ids}

\* They are parts of the list.
LEMMA PartsAre ==
  ASSUME NEW T, NEW rows \in Seq(T)
  PROVE  /\ Benign(rows) = Within(rows, Quiet(rows)) /\ Attacks(rows) = Within(rows, Hostile(rows))
         /\ \A ids : OfRuns(rows, ids) = Within(rows, OfSome(rows, ids))
<1>1. \A i \in DOMAIN rows : rows[i] \in ToSet(rows)
  BY LenProperties DEF ToSet
<1>2. Benign(rows) = Within(rows, Quiet(rows))
  <2>1. {i \in DOMAIN rows : ~ rows[i].attack} = {i \in DOMAIN rows : rows[i] \in Quiet(rows)}
    BY <1>1 DEF Quiet
  <2> QED
    BY <2>1 DEF Benign, Chosen, Within
<1>3. Attacks(rows) = Within(rows, Hostile(rows))
  <2>1. {i \in DOMAIN rows : rows[i].attack} = {i \in DOMAIN rows : rows[i] \in Hostile(rows)}
    BY <1>1 DEF Hostile
  <2> QED
    BY <2>1 DEF Attacks, Chosen, Within
<1>4. ASSUME NEW ids
      PROVE  OfRuns(rows, ids) = Within(rows, OfSome(rows, ids))
  <2>1. {i \in DOMAIN rows : rows[i].run \in ids} = {i \in DOMAIN rows : rows[i] \in OfSome(rows, ids)}
    BY <1>1 DEF OfSome
  <2> QED
    BY <2>1 DEF OfRuns, Chosen, Within
<1> QED
  BY <1>2, <1>3, <1>4

\* The runs of a table are finitely many numbers, and so are any of them.
LEMMA RunsAre ==
  ASSUME NEW rows, IsTable(rows), NEW ids \in SUBSET RunIds(rows)
  PROVE  /\ ids \subseteq Nat /\ IsFiniteSet(ids) /\ Cardinality(ids) \in Nat
         /\ Cardinality(ids) <= Cardinality(RunIds(rows)) /\ Cardinality(RunIds(rows)) \in Nat
<1> DEFINE f == [i \in DOMAIN rows |-> rows[i].run]
<1>1. /\ DOMAIN rows = 1..Len(rows) /\ Len(rows) \in Nat
      /\ ToSet(rows) = {rows[i] : i \in DOMAIN rows}
  BY LenProperties DEF IsTable, ToSet
<1>2. IsFiniteSet(DOMAIN rows)
  BY <1>1, FS_Interval
<1>3. f \in Surjection(DOMAIN rows, RunIds(rows))
  <2>1. RunIds(rows) = {rows[i].run : i \in DOMAIN rows}
    BY <1>1 DEF RunIds
  <2>2. f \in [DOMAIN rows -> RunIds(rows)] /\ \A r \in RunIds(rows) : \E i \in DOMAIN rows : f[i] = r
    BY <2>1
  <2> HIDE DEF f
  <2> QED
    BY <2>2 DEF Surjection
<1>4. IsFiniteSet(RunIds(rows))
  <2> HIDE DEF f
  <2> QED
    BY <1>2, <1>3, FS_Surjection
<1>5. RunIds(rows) \subseteq Nat
  BY DEF RunIds, IsTable, IsRow
<1> QED
  BY <1>4, <1>5, FS_Subset, FS_CardinalityType

\* Every benign run of a collection is in a part, however it is split.
LEMMA SplitIs ==
  ASSUME NEW c \in DOMAIN Collections, NEW s \in Stages, CanSplitRows(RowsOf[c], Configs[s])
  PROVE  \E cut : /\ SplitRows(RowsOf[c], Configs[s]) = Rows3(RowsOf[c], cut)
                  /\ RunIds(Benign(RowsOf[c])) \subseteq cut.train \cup cut.validation \cup cut.test
<1> DEFINE rows == RowsOf[c]
           config == Configs[s]
           benign == Benign(rows)
<1>1. IsTable(rows) /\ rows \in Seq(ToSet(rows))
  BY TableOf DEF IsTable
<1>2. ToSet(benign) \subseteq ToSet(rows)
  <2> HIDE DEF rows
  <2> QED
    BY <1>1, PartsAre, WithinIs
<1>3. RunIds(benign) \in SUBSET RunIds(rows)
  <2> HIDE DEF rows, benign
  <2> QED
    BY <1>2 DEF RunIds
<1>4. ASSUME NEW ids \in SUBSET RunIds(rows), Cardinality(ids) >= 5,
             NEW seed \in {"all"} \cup UNION {Configs[t].benign : t \in Stages}
      PROVE  Cut(ids, seed).train \cup Cut(ids, seed).validation \cup Cut(ids, seed).test = ids
  <2> DEFINE n == Cardinality(ids)
  <2>1. /\ ids \subseteq Nat /\ IsFiniteSet(ids) /\ n \in Nat
        /\ n <= Cardinality(RunIds(rows)) /\ Cardinality(RunIds(rows)) \in Nat
    <3> HIDE DEF rows
    <3> QED
      BY <1>1, RunsAre
  <2>2. n \in 1..Cardinality(RunIds(rows))
    BY <2>1, <1>4
  <2>3. {Permutation[seed][n][k] : k \in 1..n} = 1..n
    BY <2>2, PermutationAssumption
  <2> QED
    BY <2>1, <2>3, <1>4, CutIs
<1>5. CASE ~ config.stratify
  <2> DEFINE cut == Cut(RunIds(benign), "all")
  <2>1. SplitRows(rows, config) = Rows3(rows, cut)
    BY <1>5 DEF SplitRows, Split
  <2>2. Cardinality(RunIds(benign)) >= 5
    BY <1>5 DEF CanSplitRows, CanSplit
  <2>3. cut.train \cup cut.validation \cup cut.test = RunIds(benign)
    <3> HIDE DEF rows, benign
    <3> QED
      BY <1>3, <1>4, <2>2
  <2> HIDE DEF cut, benign, config
  <2> QED
    BY <2>1, <2>3 DEF benign, config
<1>6. CASE config.stratify
  <2> DEFINE cuts == [t \in config.benign |-> Cut(RunsOf(rows, t), t)]
             cut == Merged(cuts)
  <2>1. SplitRows(rows, config) = Rows3(rows, cut)
    BY <1>6 DEF SplitRows, Stratified
  <2>2. /\ Scenarios(benign) = config.benign
        /\ \A t \in config.benign : Cardinality(RunsOf(rows, t)) >= 5
    BY <1>6 DEF CanSplitRows, CanStratify
  <2>3. ASSUME NEW t \in config.benign
        PROVE  cuts[t].train \cup cuts[t].validation \cup cuts[t].test = RunsOf(rows, t)
    <3>1. RunsOf(rows, t) \in SUBSET RunIds(rows)
      BY <1>2 DEF RunsOf, RunIds
    <3>2. t \in {"all"} \cup UNION {Configs[u].benign : u \in Stages}
      OBVIOUS
    <3>3. cuts[t] = Cut(RunsOf(rows, t), t)
      OBVIOUS
    <3> HIDE DEF rows, cuts, config
    <3> QED
      BY <1>4, <2>2, <3>1, <3>2, <3>3
  <2>4. /\ cut.train = UNION {cuts[t].train : t \in config.benign}
        /\ cut.validation = UNION {cuts[t].validation : t \in config.benign}
        /\ cut.test = UNION {cuts[t].test : t \in config.benign}
    <3>1. DOMAIN cuts = config.benign
      OBVIOUS
    <3> HIDE DEF cuts, config
    <3> QED
      BY <3>1 DEF Merged
  <2>5. ASSUME NEW r \in RunIds(benign)
        PROVE  r \in cut.train \cup cut.validation \cup cut.test
    <3>1. PICK row \in ToSet(benign) : r = row.run
      BY DEF RunIds
    <3>2. row.scenario \in config.benign
      BY <2>2 DEF Scenarios
    <3>3. r \in RunsOf(rows, row.scenario)
      BY <3>1 DEF RunsOf
    <3> HIDE DEF rows, cuts, cut, config, benign
    <3>4. r \in cuts[row.scenario].train \cup cuts[row.scenario].validation \cup cuts[row.scenario].test
      BY <2>3, <3>2, <3>3
    <3> QED
      BY <2>4, <3>2, <3>4
  <2> HIDE DEF cut, benign, config
  <2>6. RunIds(benign) \subseteq cut.train \cup cut.validation \cup cut.test
    BY <2>5
  <2> QED
    BY <2>1, <2>6 DEF benign, config
<1> QED
  BY <1>5, <1>6

\* Parts that share no run have each benign window once.
LEMMA PartsAddUp ==
  ASSUME NEW rows, IsTable(rows), NEW cut, NEW parts, parts = Rows3(rows, cut),
         RunIds(Benign(rows)) \subseteq cut.train \cup cut.validation \cup cut.test,
         RunIds(parts.train) \cap RunIds(parts.validation) = {},
         RunIds(parts.train) \cap RunIds(parts.test) = {},
         RunIds(parts.validation) \cap RunIds(parts.test) = {}
  PROVE  /\ \A p \in {"train", "validation", "test"} :
              parts[p] \in Seq(ToSet(rows)) /\ ToSet(parts[p]) \subseteq Quiet(rows)
         /\ Len(parts.train) + Len(parts.validation) + Len(parts.test) = Len(Benign(rows))
         /\ ToSet(parts.train) \cup ToSet(parts.validation) \cup ToSet(parts.test)
              = ToSet(Benign(rows))
<1> DEFINE T == ToSet(rows)
           s == Benign(rows)
           A == OfSome(s, cut.train)
           B == OfSome(s, cut.validation)
           C == OfSome(s, cut.test)
<1>1. rows \in Seq(T)
  BY DEF IsTable
<1>2. s \in Seq(T) /\ ToSet(s) = T \cap Quiet(rows)
  <2>1. s = Within(rows, Quiet(rows))
    BY <1>1, PartsAre
  <2> HIDE DEF s
  <2> QED
    BY <1>1, <2>1, WithinIs
<1> HIDE DEF T
<1>3. /\ parts.train = OfRuns(s, cut.train) /\ parts.validation = OfRuns(s, cut.validation)
      /\ parts.test = OfRuns(s, cut.test)
  BY DEF Rows3
<1> HIDE DEF s
<1>4. /\ parts.train = Within(s, A) /\ parts.validation = Within(s, B) /\ parts.test = Within(s, C)
  BY <1>2, <1>3, PartsAre
<1>5. /\ A \subseteq ToSet(s) /\ B \subseteq ToSet(s) /\ C \subseteq ToSet(s)
  BY DEF OfSome
<1>6. A \cup B \cup C = ToSet(s)
  <2>1. \A row \in ToSet(s) : row.run \in cut.train \cup cut.validation \cup cut.test
    BY DEF RunIds, s
  <2> QED
    BY <1>5, <2>1 DEF OfSome
<1>7. /\ parts.train \in Seq(T) /\ ToSet(parts.train) = ToSet(s) \cap A
      /\ Len(parts.train) = Tally(s, A) /\ Tally(s, A) \in Nat
  <2> HIDE DEF A
  <2> QED
    BY <1>2, <1>4, WithinIs
<1>8. /\ parts.validation \in Seq(T) /\ ToSet(parts.validation) = ToSet(s) \cap B
      /\ Len(parts.validation) = Tally(s, B) /\ Tally(s, B) \in Nat
  <2> HIDE DEF B
  <2> QED
    BY <1>2, <1>4, WithinIs
<1>9. /\ parts.test \in Seq(T) /\ ToSet(parts.test) = ToSet(s) \cap C
      /\ Len(parts.test) = Tally(s, C) /\ Tally(s, C) \in Nat
  <2> HIDE DEF C
  <2> QED
    BY <1>2, <1>4, WithinIs
<1>10. A \cap B = {} /\ A \cap C = {} /\ B \cap C = {}
  <2>1. ToSet(parts.train) = A /\ ToSet(parts.validation) = B /\ ToSet(parts.test) = C
    BY <1>5, <1>7, <1>8, <1>9
  <2> HIDE DEF A, B, C
  <2> QED
    BY <2>1 DEF RunIds
<1> HIDE DEF A, B, C
<1>11. Tally(s, A \cup B) = Tally(s, A) + Tally(s, B)
  BY <1>2, <1>10, TallyUnion
<1>12. Tally(s, (A \cup B) \cup C) = Tally(s, A \cup B) + Tally(s, C)
  <2>1. (A \cup B) \cap C \cap ToSet(s) = {}
    BY <1>10
  <2> QED
    BY <1>2, <2>1, TallyUnion
<1>13. Tally(s, (A \cup B) \cup C) = Len(s)
  <2>1. ToSet(s) \subseteq (A \cup B) \cup C
    BY <1>6
  <2> QED
    BY <1>2, <2>1, TallyAll
<1>14. Len(parts.train) + Len(parts.validation) + Len(parts.test) = Len(s)
  BY <1>7, <1>8, <1>9, <1>11, <1>12, <1>13
<1>15. \A p \in {"train", "validation", "test"} :
         parts[p] \in Seq(T) /\ ToSet(parts[p]) \subseteq Quiet(rows)
  BY <1>2, <1>7, <1>8, <1>9
<1>16. ToSet(parts.train) \cup ToSet(parts.validation) \cup ToSet(parts.test) = ToSet(s)
  BY <1>6, <1>7, <1>8, <1>9
<1> QED
  BY <1>14, <1>15, <1>16 DEF s, T

-----------------------------------------------------------------------------
(* What is measured of a detector (evaluation.py)                          *)

\* The rows that alert.
Alarming(model, rows) == {row \in ToSet(rows) : Alerts(model, row)}

\* The tallies of a list of windows.
LEMMA Tallies ==
  ASSUME NEW rows, IsTable(rows), NEW model
  PROVE  LET m == MetricsOn(model, rows, AllWindows(rows))
         IN  /\ m.tp = Tally(rows, Hostile(rows) \cap Alarming(model, rows))
             /\ m.fp = Tally(rows, Quiet(rows) \cap Alarming(model, rows))
             /\ m.tn = Tally(rows, Quiet(rows) \ Alarming(model, rows))
             /\ m.fn = Tally(rows, Hostile(rows) \ Alarming(model, rows))
             /\ \A f \in {"precision", "recall", "f1"} :
                  m[f] = Rates(m.tp, m.fp, m.tn, m.fn, 0)[f]
<1> DEFINE n == Len(rows)
           labels == [i \in 1..n |-> rows[i].attack]
           scores == [i \in 1..n |-> Score(model, rows[i])]
           m == MetricsOn(model, rows, AllWindows(rows))
           alert(i) == 100 * scores[i] > model.threshold
           count(a, b) == Cardinality({i \in DOMAIN labels : labels[i] = a /\ alert(i) = b})
<1>1. n \in Nat /\ DOMAIN rows = 1..n
  BY LenProperties DEF IsTable
<1> HIDE DEF n
<1>2. AllWindows(rows) = [i \in 1..n |-> i]
  BY <1>1 DEF AllWindows
<1>3. Each(AllWindows(rows), LAMBDA i : rows[i].attack) = labels
  <2>1. Each(AllWindows(rows), LAMBDA i : rows[i].attack) = labels \o << >>
    BY <1>2 DEF Each
  <2>2. labels = [i \in 1..n |-> labels[i]]
    OBVIOUS
  <2> HIDE DEF labels
  <2> QED
    BY <1>1, <2>1, <2>2, NoTail
<1>4. Each(AllWindows(rows), LAMBDA i : Score(model, rows[i])) = scores
  <2>1. Each(AllWindows(rows), LAMBDA i : Score(model, rows[i])) = scores \o << >>
    BY <1>2 DEF Each
  <2>2. scores = [i \in 1..n |-> scores[i]]
    OBVIOUS
  <2> HIDE DEF scores
  <2> QED
    BY <1>1, <2>1, <2>2, NoTail
<1>5. m = Classify(labels, scores, model.threshold)
  <2> HIDE DEF labels, scores
  <2> QED
    BY <1>3, <1>4 DEF MetricsOn
<1>6. /\ m.tp = count(TRUE, TRUE) /\ m.fp = count(FALSE, TRUE)
      /\ m.tn = count(FALSE, FALSE) /\ m.fn = count(TRUE, FALSE)
      /\ \A f \in {"precision", "recall", "f1"} :
           m[f] = Rates(count(TRUE, TRUE), count(FALSE, TRUE), count(FALSE, FALSE),
                        count(TRUE, FALSE), 0)[f]
  <2> HIDE DEF m, labels, scores
  <2> QED
    BY <1>5 DEF Classify, Rates
<1>7. \A i \in 1..n : /\ rows[i] \in ToSet(rows) /\ rows[i].attack \in BOOLEAN
                      /\ labels[i] = rows[i].attack
                      /\ alert(i) = Alerts(model, rows[i])
  <2>1. \A i \in 1..n : rows[i] \in ToSet(rows)
    BY <1>1 DEF ToSet
  <2>2. \A i \in 1..n : rows[i].attack \in BOOLEAN
    BY <2>1 DEF IsTable, IsRow
  <2>3. \A i \in 1..n : alert(i) = Alerts(model, rows[i])
    BY DEF Alerts
  <2> QED
    BY <2>1, <2>2, <2>3
<1>8. DOMAIN labels = 1..n
  OBVIOUS
<1> HIDE DEF labels, scores
<1>9. /\ {i \in 1..n : labels[i] = TRUE /\ alert(i) = TRUE} =
           {i \in 1..n : rows[i] \in Hostile(rows) \cap Alarming(model, rows)}
      /\ {i \in 1..n : labels[i] = FALSE /\ alert(i) = TRUE} =
           {i \in 1..n : rows[i] \in Quiet(rows) \cap Alarming(model, rows)}
      /\ {i \in 1..n : labels[i] = FALSE /\ alert(i) = FALSE} =
           {i \in 1..n : rows[i] \in Quiet(rows) \ Alarming(model, rows)}
      /\ {i \in 1..n : labels[i] = TRUE /\ alert(i) = FALSE} =
           {i \in 1..n : rows[i] \in Hostile(rows) \ Alarming(model, rows)}
  <2> HIDE DEF alert
  <2> QED
    BY <1>7 DEF Hostile, Quiet, Alarming
<1>10. /\ count(TRUE, TRUE) = Tally(rows, Hostile(rows) \cap Alarming(model, rows))
       /\ count(FALSE, TRUE) = Tally(rows, Quiet(rows) \cap Alarming(model, rows))
       /\ count(FALSE, FALSE) = Tally(rows, Quiet(rows) \ Alarming(model, rows))
       /\ count(TRUE, FALSE) = Tally(rows, Hostile(rows) \ Alarming(model, rows))
  BY <1>1, <1>8, <1>9 DEF Tally
<1> HIDE DEF count, m
<1> QED
  BY <1>6, <1>10 DEF m

\* The windows of the scenarios are all windows, and those that alert are all that do.
LEMMA ScenariosAddUp ==
  ASSUME NEW rows, IsTable(rows), NEW model
  PROVE  LET p == PerScenario(model, rows)
         IN  /\ SumOver([s \in DOMAIN p |-> p[s].windows]) = Len(rows)
             /\ SumOver([s \in DOMAIN p |-> p[s].alertWindows]) = Tally(rows, Alarming(model, rows))
<1> DEFINE p == PerScenario(model, rows)
           D == DOMAIN rows
           those(s) == {i \in D : rows[i].scenario = s}
           S == {i \in D : rows[i] \in Alarming(model, rows)}
           f == [i \in D |-> rows[i].scenario]
           g == [s \in DOMAIN p |-> p[s].windows]
           h == [s \in DOMAIN p |-> p[s].alertWindows]
<1>1. /\ D = 1..Len(rows) /\ Len(rows) \in Nat /\ IsFiniteSet(1..Len(rows))
      /\ ToSet(rows) = {rows[i] : i \in D}
  BY LenProperties, FS_Interval DEF IsTable, ToSet
<1>2. IsFiniteSet(D) /\ IsFiniteSet(S) /\ Cardinality(D) = Len(rows)
  <2>1. Cardinality(1..Len(rows)) = IF 1 > Len(rows) THEN 0 ELSE Len(rows) - 1 + 1
    BY <1>1, FS_Interval
  <2>2. Cardinality(D) = Len(rows)
    BY <1>1, <2>1
  <2>3. S \in SUBSET D
    OBVIOUS
  <2> HIDE DEF D, S
  <2> QED
    BY <1>1, <2>2, <2>3, FS_Subset
<1>3. DOMAIN p = {rows[i].scenario : i \in D}
  <2>1. Scenarios(rows) = {rows[i].scenario : i \in D}
    BY <1>1 DEF Scenarios
  <2> HIDE DEF D
  <2> QED
    BY <2>1 DEF PerScenario
<1>4. \A s \in DOMAIN p : /\ p[s].windows = Cardinality(those(s))
                          /\ p[s].alertWindows = Cardinality({i \in those(s) : Alerts(model, rows[i])})
  BY DEF PerScenario
<1> HIDE DEF p
<1>5. \A i \in D : f[i] = rows[i].scenario /\ f[i] \in DOMAIN p
  BY <1>3
<1>6. DOMAIN g = {f[x] : x \in D} /\ \A o \in DOMAIN g : g[o] = Cardinality({x \in D : f[x] = o})
  <2>1. DOMAIN g = {f[x] : x \in D}
    BY <1>3
  <2>2. ASSUME NEW o \in DOMAIN g
        PROVE  g[o] = Cardinality({x \in D : f[x] = o})
    <3>1. those(o) = {x \in D : f[x] = o}
      OBVIOUS
    <3>2. g[o] = Cardinality(those(o))
      BY <1>4
    <3> HIDE DEF D, f, g
    <3> QED
      BY <3>1, <3>2
  <2> HIDE DEF D, f, g
  <2> QED
    BY <2>1, <2>2
<1>7. SumOver(g) = Cardinality(D)
  <2> HIDE DEF D, f, g
  <2> QED
    BY <1>2, <1>6, ClassSizes
<1>8. IsFiniteSet(DOMAIN h)
  <2>1. f \in [D -> DOMAIN p] /\ \A s \in DOMAIN p : \E i \in D : f[i] = s
    BY <1>3
  <2>2. DOMAIN h = DOMAIN p
    OBVIOUS
  <2> HIDE DEF D, f, h
  <2>3. f \in Surjection(D, DOMAIN p)
    BY <2>1 DEF Surjection
  <2> QED
    BY <1>2, <2>2, <2>3, FS_Surjection
<1>9. ASSUME NEW o \in DOMAIN h
      PROVE  h[o] = Cardinality({x \in S : f[x] = o})
  <2>1. h[o] = Cardinality({i \in those(o) : Alerts(model, rows[i])})
    BY <1>4
  <2>2. \A i \in D : Alerts(model, rows[i]) <=> rows[i] \in Alarming(model, rows)
    BY <1>1 DEF Alarming
  <2>3. {i \in those(o) : Alerts(model, rows[i])} = {x \in S : f[x] = o}
    BY <2>2
  <2> HIDE DEF S, f, h
  <2> QED
    BY <2>1, <2>3
<1>10. \A x \in S : f[x] \in DOMAIN h
  BY <1>3
<1>11. SumOver(h) = Cardinality(S)
  <2> HIDE DEF S, f, h
  <2> QED
    BY <1>2, <1>8, <1>9, <1>10, ClassesAddUp
<1>12. Cardinality(S) = Tally(rows, Alarming(model, rows))
  BY DEF Tally
<1> HIDE DEF S, D, g, h
<1> QED
  BY <1>2, <1>7, <1>11, <1>12 DEF g, h, p

\* An attack that is seen has a delay.
LEMMA DelaysAre ==
  ASSUME NEW rows, IsTable(rows), NEW model, NEW r \in RunIds(Attacks(rows)),
         \A row \in ToSet(rows) : row.run = r => row.attack
  PROVE  (Delays(model, rows)[r] = NoDelay)
           <=> (\A row \in ToSet(rows) : row.run = r => ~ Alerts(model, row))
<1> DEFINE those == {q \in ToSet(Attacks(rows)) : q.run = r}
           windows == {row.start : row \in those}
           alerted == {row.start : row \in {q \in ToSet(Attacks(rows)) :
                                              q.run = r /\ Alerts(model, q)}}
           delay == Delays(model, rows)[r]
<1>1. rows \in Seq(ToSet(rows)) /\ \A row \in ToSet(rows) : IsRow(row)
  BY DEF IsTable
<1>2. ToSet(Attacks(rows)) = Hostile(rows)
  <2>1. ToSet(Attacks(rows)) = ToSet(rows) \cap Hostile(rows)
    BY <1>1, PartsAre, WithinIs
  <2> QED
    BY <2>1 DEF Hostile
<1>3. those = {row \in ToSet(rows) : row.run = r} /\ those # {}
  BY <1>2 DEF Hostile, RunIds
<1>4. windows \subseteq Nat /\ windows # {} /\ alerted \subseteq windows
  <2>1. windows \subseteq Nat
    BY <1>1, <1>3 DEF IsRow
  <2>2. windows # {} /\ alerted \subseteq windows
    BY <1>3
  <2> QED
    BY <2>1, <2>2
<1>5. alerted = {} <=> \A row \in ToSet(rows) : row.run = r => ~ Alerts(model, row)
  <2>1. alerted = {} <=> \A q \in ToSet(Attacks(rows)) : ~ (q.run = r /\ Alerts(model, q))
    OBVIOUS
  <2>2. \A q : q \in ToSet(Attacks(rows)) /\ q.run = r <=> q \in ToSet(rows) /\ q.run = r
    BY <1>3
  <2> HIDE DEF alerted
  <2> QED
    BY <2>1, <2>2
<1>6. delay = IF alerted = {} THEN NoDelay ELSE Min(alerted) - Min(windows)
  BY DEF Delays
<1>7. ASSUME alerted # {}
      PROVE  Min(alerted) - Min(windows) # NoDelay
  <2> HIDE DEF alerted, windows
  <2>1. Min(alerted) \in alerted
    BY <1>4, <1>7, MinIs
  <2>2. Min(windows) \in windows /\ \A y \in windows : Min(windows) <= y
    BY <1>4, MinIs
  <2>3. Min(alerted) \in Nat /\ Min(windows) \in Nat /\ Min(windows) <= Min(alerted)
    BY <1>4, <2>1, <2>2
  <2> QED
    BY <2>3 DEF NoDelay
<1> HIDE DEF alerted, windows, delay
<1>8. (delay = NoDelay) <=> alerted = {}
  BY <1>6, <1>7
<1> QED
  BY <1>5, <1>8 DEF delay

-----------------------------------------------------------------------------
(* The 99th percentile (features.py, training.py)                          *)

\* A sorted list has the same elements, the lesser first.
LEMMA SortedIs ==
  ASSUME NEW s \in Seq(Int)
  PROVE  \E at \in Bijection(1..Len(s), 1..Len(s)) :
           /\ InOrder(s, s) = [k \in 1..Len(s) |-> s[at[k]]]
           /\ \A i, j \in 1..Len(s) : i < j => s[at[i]] <= s[at[j]]
<1> DEFINE n == Len(s)
           S == DOMAIN s
           before(i, j) == s[i] < s[j] \/ (s[i] = s[j] /\ i < j)
           below == [x \in S |-> {y \in S : before(y, x)}]
           at == Ranked(S, before)
<1>1. n \in Nat /\ S = 1..n /\ IsFiniteSet(1..n)
  BY LenProperties, FS_Interval
<1>2. IsFiniteSet(S) /\ Cardinality(S) = n
  <2>1. Cardinality(1..n) = IF 1 > n THEN 0 ELSE n - 1 + 1
    BY <1>1, FS_Interval
  <2> HIDE DEF S, n
  <2> QED
    BY <1>1, <2>1
<1>3. \A i \in S : i \in Nat /\ s[i] \in Int
  <2> SUFFICES ASSUME NEW i \in S PROVE i \in Nat /\ s[i] \in Int
    OBVIOUS
  <2>1. i \in 1..Len(s) /\ Len(s) \in Nat
    BY <1>1
  <2> QED
    BY <2>1, ElementOfSeq
<1> HIDE DEF S, n
<1>4. below \in [S -> SUBSET S]
  OBVIOUS
<1>5. \A x \in S : x \notin below[x]
  BY <1>3
<1>6. \A x, y \in S : x \in below[y] => below[x] \subseteq below[y]
  <2> SUFFICES ASSUME NEW x \in S, NEW y \in S, x \in below[y], NEW z \in below[x]
               PROVE  z \in below[y]
    OBVIOUS
  <2>1. z \in S /\ before(z, x) /\ before(x, y)
    OBVIOUS
  <2>2. before(z, y)
    BY <2>1, <1>3
  <2> QED
    BY <2>1, <2>2
<1>7. \A x, y \in S : x = y \/ x \in below[y] \/ y \in below[x]
  BY <1>3
<1>8. at = [k \in 1..n |-> CHOOSE x \in S : Cardinality({y \in S : before(y, x)}) = k - 1]
  BY <1>2 DEF Ranked
<1>9. ASSUME NEW k \in 1..n, \E x \in S : Cardinality(below[x]) = k - 1
      PROVE  at[k] \in S /\ Cardinality(below[at[k]]) = k - 1
  <2>1. \E x \in S : Cardinality({y \in S : before(y, x)}) = k - 1
    BY <1>9
  <2>2. at[k] = CHOOSE x \in S : Cardinality({y \in S : before(y, x)}) = k - 1
    BY <1>8
  <2>3. at[k] \in S /\ Cardinality({y \in S : before(y, at[k])}) = k - 1
    <3> HIDE DEF at, before
    <3> QED
      BY <2>1, <2>2
  <2> HIDE DEF at, before
  <2> QED
    BY <2>3
<1>10. at = [k \in 1..n |-> at[k]]
  BY <1>8
<1>11. at \in Bijection(1..n, S) /\ \A i, j \in 1..n : i < j => at[i] \in below[at[j]]
  <2> HIDE DEF at, below
  <2>1. \A k \in 1..Cardinality(S) : (\E x \in S : Cardinality(below[x]) = k - 1) =>
          at[k] \in S /\ Cardinality(below[at[k]]) = k - 1
    BY <1>2, <1>9
  <2>2. at = [k \in 1..Cardinality(S) |-> at[k]]
    BY <1>2, <1>10
  <2>3. /\ at \in Bijection(1..Cardinality(S), S)
        /\ \A i, j \in 1..Cardinality(S) : i < j => at[i] \in below[at[j]]
    BY <1>2, <1>4, <1>5, <1>6, <1>7, <2>1, <2>2, Ranks
  <2> QED
    BY <1>2, <2>3
<1>12. \A i, j \in 1..n : i < j => s[at[i]] <= s[at[j]]
  <2> SUFFICES ASSUME NEW i \in 1..n, NEW j \in 1..n, i < j PROVE s[at[i]] <= s[at[j]]
    OBVIOUS
  <2>1. at[i] \in S /\ at[j] \in S
    <3> HIDE DEF at
    <3> QED
      BY <1>11 DEF Bijection, Injection
  <2>2. before(at[i], at[j])
    <3>1. at[i] \in below[at[j]]
      BY <1>11
    <3> HIDE DEF at, before
    <3> QED
      BY <2>1, <3>1
  <2> HIDE DEF at
  <2> QED
    BY <1>3, <2>1, <2>2
<1>13. InOrder(s, s) = [k \in 1..n |-> s[at[k]]]
  <2> DEFINE f == [k \in 1..n |-> s[at[k]]]
  <2>1. DOMAIN at = 1..n
    BY <1>8
  <2>2. InOrder(s, s) = f \o << >>
    BY <2>1 DEF InOrder, Each, S
  <2>3. f = [k \in 1..n |-> f[k]]
    OBVIOUS
  <2> HIDE DEF f
  <2>4. f \o << >> = f
    BY <1>1, <2>3, NoTail
  <2> QED
    BY <2>2, <2>4 DEF f
<1> HIDE DEF at
<1> QED
  BY <1>1, <1>11, <1>12, <1>13 DEF n

\* Where a percentile is: between two places of the list.
Placed(n, of, lower, weight) ==
  /\ lower \in 0..(n - 1) /\ weight \in 0..99
  /\ (n - 1) * of = 100 * lower + weight
  /\ weight # 0 => lower + 2 \in 1..n

LEMMA PlaceIs ==
  ASSUME NEW n \in Nat, n >= 1, NEW of \in 0..100
  PROVE  Placed(n, of, ((n - 1) * of) \div 100, ((n - 1) * of) % 100)
<1> DEFINE place == (n - 1) * of
           lower == place \div 100
           weight == place % 100
<1>1. place \in Nat /\ place <= 100 * (n - 1)
  <2>1. (n - 1) \in Nat /\ of \in Nat /\ 100 - of \in Nat
    OBVIOUS
  <2>2. (n - 1) * of \in Nat /\ (n - 1) * (100 - of) \in Nat
    BY <2>1
  <2>3. (n - 1) * (100 - of) = 100 * (n - 1) - (n - 1) * of
    OBVIOUS
  <2> QED
    BY <2>2, <2>3
<1> HIDE DEF place
<1>2. lower \in Nat /\ weight \in 0..99 /\ place = 100 * lower + weight
  BY <1>1
<1> HIDE DEF lower, weight
<1>3. lower \in 0..(n - 1)
  BY <1>1, <1>2
<1>4. weight # 0 => lower + 2 \in 1..n
  BY <1>1, <1>2
<1> QED
  <2>1. Placed(n, of, lower, weight)
    BY <1>2, <1>3, <1>4 DEF Placed, place
  <2> QED
    BY <2>1 DEF lower, weight, place

\* What is between two numbers is no less than the first.
LEMMA Between ==
  ASSUME NEW a \in Int, NEW b \in Int, NEW w \in 0..99
  PROVE  /\ a * (100 - w) + b * w \in Int
         /\ a <= b => a * (100 - w) + b * w >= 100 * a
<1>1. a * (100 - w) \in Int /\ b * w \in Int
  OBVIOUS
<1>2. ASSUME a <= b
      PROVE  a * (100 - w) + b * w >= 100 * a
  <2>1. b - a \in Nat /\ w \in Nat
    BY <1>2
  <2>2. (b - a) * w \in Nat
    BY <2>1
  <2>3. (b - a) * w = b * w - a * w
    OBVIOUS
  <2>4. a * (100 - w) = 100 * a - a * w
    OBVIOUS
  <2>5. a * w \in Int
    OBVIOUS
  <2> QED
    BY <1>1, <2>2, <2>3, <2>4, <2>5
<1> QED
  BY <1>1, <1>2

\* A percentile of numbers is a number, and not before its place.
LEMMA PercentileIs ==
  ASSUME NEW s \in Seq(Int), Len(s) >= 1, NEW of \in 0..100,
         NEW at \in Bijection(1..Len(s), 1..Len(s)),
         InOrder(s, s) = [k \in 1..Len(s) |-> s[at[k]]],
         \A i, j \in 1..Len(s) : i < j => s[at[i]] <= s[at[j]]
  PROVE  LET lower == ((Len(s) - 1) * of) \div 100
         IN  /\ Percentile(s, of, 100) \in Int
             /\ Percentile(s, of, 100) >= 100 * s[at[lower + 1]]
<1> DEFINE n == Len(s)
           q == InOrder(s, s)
           place == (n - 1) * of
           lower == place \div 100
           weight == place % 100
           p == Percentile(s, of, 100)
<1>1. n \in Nat /\ n >= 1 /\ s # << >>
  BY LenProperties, EmptySeq
<1>2. /\ lower \in 0..(n - 1) /\ weight \in 0..99
      /\ weight # 0 => lower + 2 \in 1..n
  <2>1. Placed(n, of, lower, weight)
    <3> HIDE DEF n
    <3> QED
      BY <1>1, PlaceIs
  <2> HIDE DEF n, lower, weight
  <2> QED
    BY <2>1 DEF Placed
<1>3. p = IF weight = 0 THEN q[lower + 1] * 100
          ELSE q[lower + 1] * (100 - weight) + q[lower + 2] * weight
  BY <1>1 DEF Percentile, Interpolated
<1> HIDE DEF n, q, place, lower, weight, p
<1>4. \A k \in 1..n : q[k] = s[at[k]] /\ q[k] \in Int
  <2>1. \A k \in 1..n : at[k] \in 1..n
    BY DEF Bijection, Injection, n
  <2>2. \A k \in 1..n : s[k] \in Int
    BY ElementOfSeq DEF n
  <2> QED
    BY <2>1, <2>2 DEF q, n
<1>5. \A i, j \in 1..n : i < j => q[i] <= q[j]
  BY <1>4 DEF n
<1>6. lower + 1 \in 1..n
  BY <1>1, <1>2
<1>7. p \in Int /\ p >= 100 * q[lower + 1]
  <2>1. CASE weight = 0
    <3>1. q[lower + 1] \in Int
      BY <1>4, <1>6
    <3> QED
      BY <2>1, <3>1, <1>3
  <2>2. CASE weight # 0
    <3>1. lower + 2 \in 1..n /\ lower + 1 < lower + 2
      BY <2>2, <1>2
    <3>2. q[lower + 1] \in Int /\ q[lower + 2] \in Int /\ q[lower + 1] <= q[lower + 2]
      BY <3>1, <1>4, <1>5, <1>6
    <3>3. p = q[lower + 1] * (100 - weight) + q[lower + 2] * weight
      BY <2>2, <1>3
    <3> DEFINE a == q[lower + 1]
               b == q[lower + 2]
    <3> HIDE DEF a, b
    <3>4. a * (100 - weight) + b * weight \in Int /\ a * (100 - weight) + b * weight >= 100 * a
      BY <3>2, <1>2, Between DEF a, b
    <3> QED
      BY <3>3, <3>4 DEF a, b
  <2> QED
    BY <2>1, <2>2
<1>8. q[lower + 1] = s[at[lower + 1]]
  BY <1>4, <1>6
<1> QED
  BY <1>7, <1>8 DEF lower, place, n, p

\* Of the scores it is calibrated on, a detector alerts on one in a hundred.
LEMMA Calibration ==
  ASSUME NEW s \in Seq(Int), NEW U, U = {i \in 1..Len(s) : 100 * s[i] > Percentile(s, 99, 100)}
  PROVE  Cardinality(U) <= (Len(s) - 1 + 99) \div 100
<1> DEFINE n == Len(s)
           place == (n - 1) * 99
           lower == place \div 100
           weight == place % 100
<1>1. n \in Nat
  BY LenProperties
<1>2. CASE n = 0
  <2>1. U = {}
    BY <1>2
  <2>2. Cardinality(U) = 0
    BY <2>1, FS_EmptySet
  <2> QED
    BY <1>2, <2>2
<1>3. CASE n >= 1
  <2>1. 99 \in 0..100 /\ Len(s) >= 1
    BY <1>3
  <2>2. PICK at \in Bijection(1..n, 1..n) :
          /\ InOrder(s, s) = [k \in 1..n |-> s[at[k]]]
          /\ \A i, j \in 1..n : i < j => s[at[i]] <= s[at[j]]
    BY SortedIs
  <2>3. Percentile(s, 99, 100) \in Int /\ Percentile(s, 99, 100) >= 100 * s[at[lower + 1]]
    <3> HIDE DEF n
    <3> QED
      BY <2>2, <2>1, PercentileIs DEF n
  <2>4. /\ lower \in 0..(n - 1) /\ weight \in 0..99
        /\ (n - 1) * 99 = 100 * lower + weight
    <3> HIDE DEF n
    <3>1. Placed(n, 99, lower, weight)
      BY <1>1, <1>3, <2>1, PlaceIs
    <3> HIDE DEF lower, weight
    <3> QED
      BY <3>1 DEF Placed
  <2> HIDE DEF lower, weight
  <2> DEFINE W == {k \in 1..n : at[k] \in U}
             B == (lower + 2)..n
  <2>5. /\ \A k \in 1..n : at[k] \in 1..n /\ s[at[k]] \in Int
        /\ \A i \in 1..n : s[i] \in Int
    <3>1. \A k \in 1..n : at[k] \in 1..n
      BY <2>2 DEF Bijection, Injection
    <3> QED
      BY <3>1, ElementOfSeq
  <2>6. Cardinality(W) = Cardinality(U)
    <3> DEFINE P == 1..n
    <3>1. IsFiniteSet(P) /\ U \in SUBSET P /\ at \in Bijection(P, P)
      BY <1>1, <2>2, FS_Interval
    <3>2. W = {k \in P : at[k] \in U}
      OBVIOUS
    <3> HIDE DEF W, P
    <3>3. IsFiniteSet(W) /\ Cardinality(W) = Cardinality(U)
      BY <3>1, <3>2, Matched, SMTT(30)
    <3> QED
      BY <3>3
  <2>7. W \in SUBSET B
    <3> SUFFICES ASSUME NEW k \in 1..n, at[k] \in U PROVE k \in B
      OBVIOUS
    <3>1. 100 * s[at[k]] > Percentile(s, 99, 100)
      OBVIOUS
    <3>2. lower + 1 \in 1..n
      BY <1>1, <2>4
    <3> DEFINE a == s[at[k]]
               b == s[at[lower + 1]]
               p == Percentile(s, 99, 100)
    <3>3. a > b
      <4>1. a \in Int /\ b \in Int /\ p \in Int /\ 100 * a > p /\ p >= 100 * b
        BY <2>3, <2>5, <3>1, <3>2
      <4> HIDE DEF a, b, p
      <4> QED
        BY <4>1
    <3>4. ~ (k <= lower + 1)
      <4>1. k < lower + 1 => a <= b
        BY <2>2, <3>2
      <4>2. k = lower + 1 => a = b
        OBVIOUS
      <4>3. k \in Int /\ lower + 1 \in Int /\ a \in Int /\ b \in Int
        BY <1>1, <2>5, <3>2
      <4> HIDE DEF a, b
      <4> QED
        BY <3>3, <4>1, <4>2, <4>3
    <3> QED
      BY <3>4, <1>1, <2>4
  <2>8. IsFiniteSet(B) /\ Cardinality(B) = n - 1 - lower
    <3>1. lower + 2 \in Int /\ n \in Int
      BY <1>1, <2>4
    <3>2. IsFiniteSet(B) /\ Cardinality(B) = IF lower + 2 > n THEN 0 ELSE n - (lower + 2) + 1
      <4> HIDE DEF n
      <4> QED
        BY <3>1, FS_Interval
    <3> QED
      BY <1>1, <2>4, <3>2
  <2>9. Cardinality(W) <= Cardinality(B) /\ Cardinality(W) \in Nat
    <3> HIDE DEF W, B
    <3> QED
      BY <2>7, <2>8, FS_Subset, FS_CardinalityType
  <2>10. n - 1 - lower <= (n - 1 + 99) \div 100
    <3> HIDE DEF n
    <3> QED
      BY <1>1, <1>3, <2>4
  <2> HIDE DEF W, B
  <2> QED
    BY <1>1, <2>4, <2>6, <2>8, <2>9, <2>10
<1> QED
  BY <1>1, <1>2, <1>3

\* A percentile of numbers is a number.
LEMMA PercentileType ==
  ASSUME NEW s \in Seq(Int), NEW of \in 0..100
  PROVE  Percentile(s, of, 100) \in Int
<1>1. CASE s = << >>
  BY <1>1 DEF Percentile
<1>2. CASE s # << >>
  <2>1. Len(s) >= 1
    BY <1>2, EmptySeq
  <2>2. PICK at \in Bijection(1..Len(s), 1..Len(s)) :
          /\ InOrder(s, s) = [k \in 1..Len(s) |-> s[at[k]]]
          /\ \A i, j \in 1..Len(s) : i < j => s[at[i]] <= s[at[j]]
    BY SortedIs
  <2> QED
    BY <2>1, <2>2, PercentileIs
<1> QED
  BY <1>1, <1>2

-----------------------------------------------------------------------------
(* Scores are numbers (threshold.py, iforest_runtime.py)                   *)

\* Wherever g does not give a number outright, it does so if it does at a lesser rank.
Descends(D, rank, g) ==
  /\ rank \in [D -> Nat]
  /\ \A d \in D : \/ g[d] \in Int
                  \/ \E e \in D : rank[e] < rank[d] /\ (g[e] \in Int => g[d] \in Int)

\* Such a function gives numbers.
LEMMA NumbersUpward ==
  ASSUME NEW D, NEW rank, NEW g, Descends(D, rank, g)
  PROVE  \A d \in D : g[d] \in Int
<1>0. /\ rank \in [D -> Nat]
      /\ \A d \in D : \/ g[d] \in Int
                      \/ \E e \in D : rank[e] < rank[d] /\ (g[e] \in Int => g[d] \in Int)
  BY DEF Descends
<1> DEFINE bad == {rank[d] : d \in {e \in D : g[e] \notin Int}}
<1> SUFFICES ASSUME NEW x \in D, g[x] \notin Int PROVE FALSE
  OBVIOUS
<1>1. bad \subseteq Nat /\ bad # {}
  BY <1>0
<1>2. PICK m \in bad : \A y \in bad : m <= y
  <2> HIDE DEF bad
  <2> QED
    BY <1>1, LeastNumber
<1>3. PICK d \in D : g[d] \notin Int /\ rank[d] = m
  OBVIOUS
<1>4. PICK e \in D : rank[e] < rank[d] /\ (g[e] \in Int => g[d] \in Int)
  BY <1>0, <1>3
<1>5. rank[e] \in bad
  BY <1>3, <1>4
<1>6. rank[e] \in Nat /\ rank[d] \in Nat
  BY <1>0
<1> HIDE DEF bad
<1> QED
  BY <1>2, <1>3, <1>4, <1>5, <1>6

\* A number for each place in D: base where it stops, and elsewhere F of the number
\* of another place, of a lesser rank.
Recursion(D, N, rank, stop, base, prev, F) ==
  /\ rank \in [D -> 0..N]
  /\ \A d \in D : d \in stop => base[d] \in Int
  /\ \A d \in D : d \notin stop => /\ prev[d] \in D /\ rank[prev[d]] < rank[d]
                                   /\ F[d] \in [Int -> Int]

Solution(g, D, stop, base, prev, F) ==
  \A d \in D : g[d] = IF d \in stop THEN base[d] ELSE F[d][g[prev[d]]]

\* There are such numbers.
LEMMA RecursionExists ==
  ASSUME NEW D, NEW N \in Nat, NEW rank, NEW stop, NEW base, NEW prev, NEW F,
         Recursion(D, N, rank, stop, base, prev, F)
  PROVE  \E g \in [D -> Int] : Solution(g, D, stop, base, prev, F)
<1>1. /\ rank \in [D -> 0..N]
      /\ \A d \in D : d \in stop => base[d] \in Int
      /\ \A d \in D : d \notin stop => /\ prev[d] \in D /\ rank[prev[d]] < rank[d]
                                       /\ F[d] \in [Int -> Int]
  BY DEF Recursion
<1> DEFINE next(g, d) == IF d \in stop THEN base[d] ELSE F[d][g[prev[d]]]
           upto(g, m) == \A d \in D : rank[d] <= m => g[d] = next(g, d)
           bad == {m \in Nat : ~ \E g \in [D -> Int] : upto(g, m)}
<1>2. \A g \in [D -> Int] : \A d \in D : next(g, d) \in Int
  BY <1>1
<1>3. \A g, h \in [D -> Int] : \A d \in D :
         (\A e \in D : rank[e] < rank[d] => g[e] = h[e]) => next(g, d) = next(h, d)
  BY <1>1
<1>4. bad = {}
  <2> SUFFICES ASSUME bad # {} PROVE FALSE
    OBVIOUS
  <2>1. PICK m \in bad : \A k \in bad : m <= k
    BY LeastNumber
  <2>2. \E g \in [D -> Int] : \A d \in D : rank[d] < m => g[d] = next(g, d)
    <3>1. CASE m = 0
      <4> DEFINE g == [d \in D |-> 0]
      <4>1. g \in [D -> Int] /\ \A d \in D : ~ (rank[d] < m)
        BY <3>1, <1>1
      <4> QED
        BY <4>1
    <3>2. CASE m # 0
      <4>1. m - 1 \in Nat /\ m - 1 \notin bad
        BY <3>2, <2>1
      <4>2. PICK g \in [D -> Int] : upto(g, m - 1)
        BY <4>1
      <4>3. \A d \in D : rank[d] < m => rank[d] <= m - 1
        BY <4>1, <1>1
      <4> QED
        BY <4>2, <4>3
    <3> QED
      BY <3>1, <3>2
  <2>3. PICK g \in [D -> Int] : \A d \in D : rank[d] < m => g[d] = next(g, d)
    BY <2>2
  <2> DEFINE h == [d \in D |-> IF rank[d] < m THEN g[d] ELSE next(g, d)]
  <2>4. h \in [D -> Int]
    <3> HIDE DEF next
    <3> QED
      BY <1>2
  <2>5. \A d \in D : rank[d] <= m => \A e \in D : rank[e] < rank[d] => g[e] = h[e]
    BY <1>1
  <2>6. \A d \in D : rank[d] <= m => h[d] = next(g, d)
    <3> HIDE DEF next
    <3> QED
      BY <2>3
  <2>7. upto(h, m)
    <3> HIDE DEF next, h
    <3> QED
      BY <1>3, <2>4, <2>5, <2>6
  <2> QED
    <3> HIDE DEF upto, h
    <3> QED
      BY <2>1, <2>4, <2>7
<1>5. PICK g \in [D -> Int] : upto(g, N)
  BY <1>4
<1>6. \A d \in D : rank[d] <= N
  BY <1>1
<1> QED
  BY <1>5, <1>6 DEF Solution

\* The value of a feature is a number.
LEMMA ValueIs ==
  ASSUME NEW row, IsRow(row), NEW f \in Features
  PROVE  Value(row, f) \in Int
<1>1. /\ row.requests \in Nat /\ row.requests > 0 /\ row.errors \in Nat
      /\ row.bodyReuse[1] \in Int /\ row.bodyReuse[2] \in Nat
  BY DEF IsRow
<1>2. (60 * row.errors) \div row.requests \in Int
  <2> DEFINE a == 60 * row.errors
             b == row.requests
  <2>1. a \in Int /\ b \in Nat /\ b > 0
    BY <1>1
  <2> HIDE DEF a, b
  <2>2. a \div b \in Int
    BY <2>1
  <2> QED
    BY <2>2 DEF a, b
<1>3. CASE f = "request_rate"
  BY <1>1, <1>3 DEF Value
<1>4. CASE f = "error_ratio"
  BY <1>2, <1>4 DEF Value
<1>5. CASE f = "request_reuse_ratio"
  <2> DEFINE a == 60 * row.bodyReuse[1]
             b == row.bodyReuse[2]
  <2>1. Value(row, f) = IF b = 0 THEN 0 ELSE a \div b
    BY <1>5 DEF Value
  <2>2. a \in Int /\ b \in Nat
    BY <1>1
  <2> HIDE DEF a, b
  <2>3. b # 0 => a \div b \in Int
    BY <2>2
  <2> QED
    BY <2>1, <2>3
<1> QED
  BY <1>3, <1>4, <1>5 DEF Features

\* So is a column of a table a list of numbers.
LEMMA ColumnIs ==
  ASSUME NEW T, \A row \in T : IsRow(row), NEW rows \in Seq(T), NEW f \in Features
  PROVE  Column(rows, f) \in Seq(Int)
<1> DEFINE n == Len(rows)
           g == [i \in 1..n |-> Value(rows[i], f)]
<1>1. n \in Nat /\ DOMAIN rows = 1..n
  BY LenProperties
<1>2. \A i \in 1..n : Value(rows[i], f) \in Int
  BY ElementOfSeq, ValueIs
<1>3. g \in [1..n -> Int] /\ g = [i \in 1..n |-> g[i]]
  BY <1>2
<1>4. Column(rows, f) = g \o << >>
  <2> HIDE DEF n
  <2> QED
    BY <1>1 DEF Column, Each
<1> HIDE DEF g, n
<1>5. g \o << >> = g
  BY <1>1, <1>3, NoTail
<1> QED
  BY <1>1, <1>3, <1>4, <1>5, ListOf

\* A finite set of numbers that is not empty has a greatest one.
LEMMA MaxIs ==
  ASSUME NEW S, S \subseteq Int, IsFiniteSet(S), S # {}
  PROVE  Max(S) \in S /\ \A y \in S : Max(S) >= y
<1> DEFINE top(A) == \E x \in A : \A y \in A : x >= y
           bad == {m \in Nat : \E A \in SUBSET S : A # {} /\ Cardinality(A) = m /\ ~ top(A)}
<1>1. bad = {}
  <2> SUFFICES ASSUME bad # {} PROVE FALSE
    OBVIOUS
  <2>1. PICK m \in bad : \A k \in bad : m <= k
    BY LeastNumber
  <2>2. PICK A \in SUBSET S : A # {} /\ Cardinality(A) = m /\ ~ top(A)
    OBVIOUS
  <2>3. PICK x \in A : TRUE
    BY <2>2
  <2> DEFINE B == A \ {x}
  <2>4. /\ IsFiniteSet(A) /\ IsFiniteSet(B) /\ Cardinality(B) = m - 1 /\ Cardinality(B) \in Nat
        /\ m \in Nat
    <3>1. IsFiniteSet(A)
      BY FS_Subset
    <3>2. IsFiniteSet(B) /\ Cardinality(B) = Cardinality(A) - 1
      BY <3>1, <2>3, FS_RemoveElement
    <3> HIDE DEF B
    <3> QED
      BY <3>1, <3>2, <2>2, FS_CardinalityType
  <2>5. CASE B = {}
    <3>1. \A y \in A : y = x
      BY <2>5
    <3>2. top(A)
      BY <3>1, <2>3
    <3> QED
      BY <3>2, <2>2
  <2>6. CASE B # {}
    <3>1. m - 1 \notin bad
      <4> HIDE DEF bad
      <4> QED
        BY <2>1, <2>4
    <3>2. top(B)
      <4>1. B \in SUBSET S
        OBVIOUS
      <4> HIDE DEF B, top
      <4> QED
        BY <3>1, <4>1, <2>4, <2>6
    <3>3. PICK z \in B : \A y \in B : z >= y
      BY <3>2
    <3>4. CASE x >= z
      <4>1. \A y \in A : x >= y
        BY <3>3, <3>4, <2>3
      <4> QED
        BY <4>1, <2>2, <2>3
    <3>5. CASE ~ (x >= z)
      <4>1. \A y \in A : z >= y
        BY <3>3, <3>5, <2>3
      <4> QED
        BY <4>1, <2>2, <3>3
    <3> QED
      BY <3>4, <3>5
  <2> QED
    BY <2>5, <2>6
<1>2. Cardinality(S) \in Nat
  BY FS_CardinalityType
<1>3. top(S)
  BY <1>1, <1>2
<1> QED
  BY <1>3 DEF Max

\* The common denominator of numbers is one.
LEMMA CommonUnitIs ==
  ASSUME NEW scales \in Seq(Int)
  PROVE  CommonUnit(scales) \in Int
<1> DEFINE n == Len(scales)
           D == 0..n
           solves(g) == g = [i \in D |-> IF i = 0 THEN 1 ELSE scales[i] * g[i - 1]]
           unit == CHOOSE g : solves(g)
           rank == [i \in D |-> i]
           stop == {0}
           base == [i \in D |-> 1]
           prev == [i \in D |-> i - 1]
           F == [i \in D |-> [x \in Int |-> scales[i] * x]]
<1>1. n \in Nat /\ \A i \in 1..n : scales[i] \in Int
  BY LenProperties, ElementOfSeq
<1> HIDE DEF n
<1>2. \E g : solves(g)
  <2>1. rank \in [D -> 0..n]
    BY <1>1
  <2>2. \A d \in D : d \in stop => base[d] \in Int
    OBVIOUS
  <2>3. ASSUME NEW d \in D, d \notin stop
        PROVE  prev[d] \in D /\ rank[prev[d]] < rank[d] /\ F[d] \in [Int -> Int]
    <3>1. d - 1 \in D /\ d \in 1..n
      BY <1>1, <2>3
    <3>2. \A x \in Int : scales[d] * x \in Int
      BY <1>1, <3>1
    <3> QED
      BY <3>1, <3>2
  <2>4. Recursion(D, n, rank, stop, base, prev, F)
    <3> HIDE DEF D, rank, stop, base, prev, F
    <3> QED
      BY <2>1, <2>2, <2>3 DEF Recursion
  <2>5. PICK g \in [D -> Int] : \A d \in D : g[d] = IF d \in stop THEN base[d] ELSE F[d][g[prev[d]]]
    <3> HIDE DEF D, rank, stop, base, prev, F
    <3> QED
      BY <1>1, <2>4, RecursionExists DEF Solution
  <2>6. ASSUME NEW d \in D
        PROVE  g[d] = IF d = 0 THEN 1 ELSE scales[d] * g[d - 1]
    <3>1. CASE d = 0
      BY <2>5, <3>1
    <3>2. CASE d # 0
      <4>1. g[d - 1] \in Int
        BY <3>2, <1>1
      <4>2. g[d] = F[d][g[d - 1]]
        BY <2>5, <3>2
      <4> QED
        BY <3>2, <4>1, <4>2
    <3> QED
      BY <3>1, <3>2
  <2>7. solves(g)
    <3>1. DOMAIN g = D
      OBVIOUS
    <3> HIDE DEF D
    <3> QED
      BY <2>6, <3>1
  <2> QED
    BY <2>7
<1>3. solves(unit)
  <2> HIDE DEF solves
  <2> QED
    BY <1>2
<1>4. CommonUnit(scales) = unit[n]
  BY DEF CommonUnit, n
<1> HIDE DEF unit
<1>5. ASSUME NEW d \in D
      PROVE  \/ unit[d] \in Int
             \/ \E e \in D : rank[e] < rank[d] /\ (unit[e] \in Int => unit[d] \in Int)
  <2>1. CASE d = 0
    <3>1. unit[d] = 1
      BY <1>3, <2>1
    <3> QED
      BY <3>1
  <2>2. CASE d # 0
    <3>1. d - 1 \in D /\ rank[d - 1] < rank[d] /\ scales[d] \in Int
      BY <1>1, <2>2
    <3>2. unit[d] = scales[d] * unit[d - 1]
      BY <1>3, <2>2
    <3>3. unit[d - 1] \in Int => unit[d] \in Int
      BY <3>1, <3>2
    <3> QED
      BY <3>1, <3>3
  <2> QED
    BY <2>1, <2>2
<1>6. rank \in [D -> Nat]
  BY <1>1
<1>7. n \in D
  BY <1>1
<1> HIDE DEF D, rank, solves, stop, base, prev, F
<1>8. \A d \in D : unit[d] \in Int
  <2>1. Descends(D, rank, unit)
    BY <1>5, <1>6 DEF Descends
  <2> QED
    BY <2>1, NumbersUpward
<1> QED
  BY <1>4, <1>7, <1>8

\* What is made of each element of a list is a list.
LEMMA EachIs ==
  ASSUME NEW R, NEW n \in Nat, NEW g \in [1..n -> R]
  PROVE  g \o << >> \in Seq(R) /\ Len(g \o << >>) = n /\ g \o << >> = g
<1>1. g = [i \in 1..n |-> g[i]]
  OBVIOUS
<1>2. g \o << >> = g
  BY <1>1, NoTail
<1> QED
  BY <1>2, ListOf

\* How far a row is from the centres is a number.
LEMMA DeviationIs ==
  ASSUME NEW row, IsRow(row), NEW model, model.features \in Seq(Features), model.features # << >>,
         model.centres \in Seq(Int), Len(model.centres) = Len(model.features),
         model.scales \in Seq(Int), Len(model.scales) = Len(model.features),
         \A i \in 1..Len(model.scales) : model.scales[i] >= 1
  PROVE  Deviation(model, row) \in Int
<1> DEFINE n == Len(model.features)
           unit == CommonUnit(model.scales)
           x == [i \in 1..n |-> Absolute(100 * Value(row, model.features[i]) - model.centres[i])
                                  * (unit \div model.scales[i])]
           S == {x[i] : i \in 1..n}
<1>1. n \in Nat /\ n >= 1 /\ DOMAIN model.features = 1..n
  BY LenProperties, EmptySeq
<1>2. unit \in Int
  BY CommonUnitIs
<1>3. ASSUME NEW i \in 1..n PROVE x[i] \in Int
  <2>1. /\ model.features[i] \in Features /\ model.centres[i] \in Int
        /\ model.scales[i] \in Int /\ model.scales[i] >= 1
    BY ElementOfSeq
  <2> DEFINE v == Value(row, model.features[i])
             c == model.centres[i]
             d == model.scales[i]
  <2>2. v \in Int
    BY <2>1, ValueIs
  <2>3. x[i] = Absolute(100 * v - c) * (unit \div d)
    OBVIOUS
  <2>4. c \in Int /\ d \in Int /\ d >= 1
    BY <2>1
  <2> HIDE DEF v, c, d, x, unit
  <2>5. Absolute(100 * v - c) \in Int
    BY <2>2, <2>4 DEF Absolute
  <2>6. unit \div d \in Int
    BY <1>2, <2>4
  <2> DEFINE a == Absolute(100 * v - c)
             b == unit \div d
  <2>7. a \in Int /\ b \in Int /\ x[i] = a * b
    BY <2>3, <2>5, <2>6
  <2> HIDE DEF a, b
  <2> QED
    BY <2>7
<1>4. Deviation(model, row) = Max(S)
  <2>1. S = {Absolute(100 * Value(row, model.features[i]) - model.centres[i])
               * (unit \div model.scales[i]) : i \in 1..n}
    OBVIOUS
  <2> HIDE DEF S
  <2> QED
    BY <1>1, <2>1 DEF Deviation
<1> HIDE DEF x, n
<1>5. x \in Surjection(1..n, S)
  <2>1. DOMAIN x = 1..n /\ x = [i \in 1..n |-> x[i]]
    BY DEF x
  <2> QED
    BY <2>1 DEF Surjection
<1>6. S \subseteq Int /\ S # {} /\ IsFiniteSet(S)
  <2>1. S \subseteq Int
    BY <1>3
  <2>2. 1 \in 1..n
    BY <1>1
  <2>3. S # {}
    BY <2>2
  <2>4. IsFiniteSet(1..n)
    BY <1>1, FS_Interval
  <2> HIDE DEF S
  <2> QED
    BY <1>5, <2>1, <2>3, <2>4, FS_Surjection
<1> HIDE DEF S
<1>7. Max(S) \in S
  BY <1>6, MaxIs
<1> QED
  BY <1>4, <1>6, <1>7

\* The expected length of a path is a number.
LEMMA AveragePathIs ==
  ASSUME NEW n \in Nat
  PROVE  AveragePath(n) \in Int
<1> DEFINE S == {n, 12}
<1>1. Len(PathLengths) = 12 /\ \A i \in 1..12 : PathLengths[i] \in Int
  BY DEF PathLengths
<1>2. CASE n = 0
  BY <1>2 DEF AveragePath
<1>3. CASE n # 0
  <2>1. S \subseteq Nat /\ S # {} /\ n \in S /\ 12 \in S
    OBVIOUS
  <2>2. Min(S) \in S /\ \A y \in S : Min(S) <= y
    <3> HIDE DEF S
    <3> QED
      BY <2>1, MinIs
  <2>3. Min(S) \in 1..12
    <3>1. Min(S) \in Nat /\ Min(S) # 0 /\ Min(S) <= 12
      BY <2>1, <2>2, <1>3
    <3> HIDE DEF S
    <3> QED
      BY <3>1
  <2>4. AveragePath(n) = PathLengths[Min(S)]
    BY <1>1, <1>3 DEF AveragePath
  <2> HIDE DEF S
  <2> QED
    BY <1>1, <2>3, <2>4
<1> QED
  BY <1>2, <1>3

\* A path down a tree ends, and has a length.
LEMMA ForestScore ==
  ASSUME NEW T, NEW training \in Seq(T), NEW R, NEW features \in Seq(R), NEW values
  PROVE  SampleScore(Forest(training, features), values) \in Int
<1> DEFINE tree == Forest(training, features)
           least == [f \in ToSet(features) |-> Min({Value(row, f) : row \in ToSet(training)})]
           chosen == {i \in DOMAIN features :
                        \E row \in ToSet(training) : Value(row, features[i]) > least[features[i]]}
           varied == At(features, chosen)
           k == Len(varied)
           D == 0..(2 * k)
           inner(n) == n % 2 = 0 /\ n < 2 * k
           onward(j) == {i \in DOMAIN training : \A h \in 1..j :
                           Value(training[i], varied[h]) > least[varied[h]]}
<1>1. k \in Nat
  <2>1. chosen \in SUBSET DOMAIN features
    OBVIOUS
  <2> HIDE DEF chosen
  <2> QED
    BY <2>1, AtIs
<1>2. tree = Grown(training, features, least, varied)
  BY DEF Forest, Chosen
<1> HIDE DEF least, varied
<1>3. /\ DOMAIN tree.left = D
      /\ \A n \in D : /\ tree.left[n] = IF inner(n) THEN n + 1 ELSE -1
                      /\ tree.right[n] = IF inner(n) THEN n + 2 ELSE -1
                      /\ tree.samples[n] =
                           IF n % 2 = 0 THEN Cardinality(onward(n \div 2))
                           ELSE Cardinality(onward(n \div 2) \ onward(n \div 2 + 1))
  <2> HIDE DEF tree
  <2> QED
    BY <1>2 DEF Grown
<1>4. \A n \in D : tree.samples[n] \in Nat
  <2>1. DOMAIN training = 1..Len(training) /\ Len(training) \in Nat /\ IsFiniteSet(1..Len(training))
    BY LenProperties, FS_Interval
  <2>2. \A A \in SUBSET DOMAIN training : Cardinality(A) \in Nat
    BY <2>1, FS_Subset, FS_CardinalityType
  <2>3. \A j : onward(j) \in SUBSET DOMAIN training
    OBVIOUS
  <2> HIDE DEF onward, tree, D
  <2> QED
    BY <1>3, <2>2, <2>3
<1> HIDE DEF tree, onward
<1>5. ASSUME NEW n \in D, tree.left[n] # -1
      PROVE  Child(tree, values, n) \in D /\ Child(tree, values, n) > n
  <2>1. inner(n)
    BY <1>3, <1>5
  <2>2. n + 1 \in D /\ n + 2 \in D /\ n + 1 > n /\ n + 2 > n
    BY <1>1, <2>1
  <2>3. tree.left[n] = n + 1 /\ tree.right[n] = n + 2
    BY <1>3, <2>1
  <2> HIDE DEF D
  <2> QED
    BY <2>2, <2>3 DEF Child
<1> DEFINE solves(g) == g = [n \in DOMAIN tree.left |->
                               IF tree.left[n] = -1 THEN AveragePath(tree.samples[n])
                                                    ELSE 100 + g[Child(tree, values, n)]]
           path == CHOOSE g : solves(g)
           rank == [n \in D |-> 2 * k - n]
           stop == {n \in D : tree.left[n] = -1}
           base == [n \in D |-> AveragePath(tree.samples[n])]
           prev == [n \in D |-> Child(tree, values, n)]
           F == [n \in D |-> [x \in Int |-> 100 + x]]
<1>6. rank \in [D -> 0..(2 * k)] /\ 2 * k \in Nat
  BY <1>1
<1>7. \A n \in D : n \in stop => base[n] \in Int
  BY <1>4, AveragePathIs
<1>8. \A n \in D : n \notin stop => /\ prev[n] \in D /\ rank[prev[n]] < rank[n]
                                    /\ F[n] \in [Int -> Int]
  <2> SUFFICES ASSUME NEW n \in D, n \notin stop
               PROVE  prev[n] \in D /\ rank[prev[n]] < rank[n] /\ F[n] \in [Int -> Int]
    OBVIOUS
  <2> DEFINE c == Child(tree, values, n)
  <2>1. c \in D /\ c > n
    BY <1>5
  <2>2. prev[n] = c
    OBVIOUS
  <2>3. F[n] \in [Int -> Int]
    OBVIOUS
  <2> HIDE DEF c, prev, F
  <2>4. rank[c] < rank[n]
    BY <1>1, <2>1
  <2> QED
    BY <2>1, <2>2, <2>3, <2>4
<1>9. \E g : solves(g)
  <2>1. Recursion(D, 2 * k, rank, stop, base, prev, F)
    <3> HIDE DEF D, rank, stop, base, prev, F
    <3> QED
      BY <1>6, <1>7, <1>8 DEF Recursion
  <2>2. PICK g \in [D -> Int] : \A n \in D : g[n] = IF n \in stop THEN base[n] ELSE F[n][g[prev[n]]]
    <3> DEFINE N == 2 * k
    <3>1. N \in Nat /\ Recursion(D, N, rank, stop, base, prev, F)
      BY <1>6, <2>1
    <3> HIDE DEF D, rank, stop, base, prev, F, N
    <3> QED
      BY <3>1, RecursionExists DEF Solution
  <2>3. ASSUME NEW n \in D
        PROVE  g[n] = IF tree.left[n] = -1 THEN AveragePath(tree.samples[n])
                                           ELSE 100 + g[Child(tree, values, n)]
    <3>1. CASE n \in stop
      BY <2>2, <3>1
    <3>2. CASE n \notin stop
      <4>1. prev[n] \in D /\ prev[n] = Child(tree, values, n)
        BY <1>8, <3>2
      <4>2. g[prev[n]] \in Int
        <5> HIDE DEF D, prev
        <5> QED
          BY <4>1
      <4>3. g[n] = F[n][g[prev[n]]]
        BY <2>2, <3>2
      <4>4. F[n][g[prev[n]]] = 100 + g[prev[n]]
        <5> HIDE DEF prev
        <5> QED
          BY <4>2
      <4>5. tree.left[n] # -1
        BY <3>2
      <4> QED
        BY <4>1, <4>3, <4>4, <4>5
    <3> QED
      BY <3>1, <3>2
  <2>4. solves(g)
    <3>1. DOMAIN g = D
      OBVIOUS
    <3> HIDE DEF D
    <3> QED
      BY <1>3, <2>3, <3>1
  <2> QED
    BY <2>4
<1>10. solves(path)
  <2> HIDE DEF solves
  <2> QED
    BY <1>9
<1>11. SampleScore(tree, values) = 100 * Cardinality(D) - path[0]
  <2>1. SampleScore(tree, values) = ScoreOfPath(tree, path[0])
    BY DEF SampleScore
  <2> HIDE DEF path, D
  <2> QED
    BY <1>3, <2>1 DEF ScoreOfPath
<1> HIDE DEF path
<1>12. ASSUME NEW n \in D
       PROVE  \/ path[n] \in Int
              \/ \E e \in D : rank[e] < rank[n] /\ (path[e] \in Int => path[n] \in Int)
  <2>1. path[n] = IF tree.left[n] = -1 THEN AveragePath(tree.samples[n])
                                       ELSE 100 + path[Child(tree, values, n)]
    <3> HIDE DEF D
    <3> QED
      BY <1>3, <1>10
  <2>2. CASE tree.left[n] = -1
    <3>1. AveragePath(tree.samples[n]) \in Int
      BY <1>4, AveragePathIs
    <3> QED
      BY <2>1, <2>2, <3>1
  <2>3. CASE tree.left[n] # -1
    <3> DEFINE e == Child(tree, values, n)
    <3>1. e \in D /\ prev[n] = e /\ n \notin stop
      BY <1>5, <2>3
    <3>2. rank[e] < rank[n]
      <4> HIDE DEF e, D, rank, prev, F, stop
      <4> QED
        BY <1>8, <3>1
    <3>3. path[n] = 100 + path[e]
      BY <2>1, <2>3
    <3> HIDE DEF e, D, rank
    <3> QED
      BY <3>1, <3>2, <3>3
  <2> QED
    BY <2>2, <2>3
<1>13. rank \in [D -> Nat]
  BY <1>1
<1>14. 0 \in D
  BY <1>1
<1>15. Cardinality(D) \in Nat
  <2>1. IsFiniteSet(0..(2 * k))
    BY <1>1, FS_Interval
  <2> HIDE DEF D
  <2> QED
    BY <2>1, FS_CardinalityType DEF D
<1> HIDE DEF D, rank
<1>16. \A n \in D : path[n] \in Int
  <2>1. Descends(D, rank, path)
    BY <1>12, <1>13 DEF Descends
  <2> QED
    BY <2>1, NumbersUpward
<1>17. path[0] \in Int
  BY <1>14, <1>16
<1> QED
  BY <1>11, <1>15, <1>17 DEF tree

-----------------------------------------------------------------------------
(* The evaluation of a training (stage3-train-evaluate.py)                 *)

\* A list is one of its own elements.
LEMMA OwnElements ==
  ASSUME NEW T, NEW s \in Seq(T)
  PROVE  s \in Seq(ToSet(s))
<1>1. DOMAIN s = 1..Len(s) /\ Len(s) \in Nat /\ ToSet(s) = {s[i] : i \in DOMAIN s}
  BY LenProperties DEF ToSet
<1>2. s = [i \in 1..Len(s) |-> s[i]]
  BY <1>1
<1>3. s \in [1..Len(s) -> ToSet(s)]
  BY <1>1, <1>2
<1> QED
  BY <1>1, <1>3, ListOf

\* The threshold of a detector is the 99th percentile of its scores.
CalibratedOn(model, validation, scores) ==
  /\ scores \in Seq(Int) /\ Len(scores) = Len(validation)
  /\ \A i \in 1..Len(validation) : Score(model, validation[i]) = scores[i]
  /\ model.threshold = Percentile(scores, 99, 100)

\* Such a detector alerts on one in a hundred of them.
LEMMA CalibratedIs ==
  ASSUME NEW model, NEW T, NEW validation \in Seq(T), NEW scores,
         CalibratedOn(model, validation, scores)
  PROVE  Cardinality({i \in DOMAIN validation : Alerts(model, validation[i])})
           <= (Len(validation) - 1 + 99) \div 100
<1> DEFINE n == Len(scores)
           U == {i \in 1..n : 100 * scores[i] > Percentile(scores, 99, 100)}
<1>0. /\ scores \in Seq(Int) /\ n = Len(validation)
      /\ \A i \in 1..n : Score(model, validation[i]) = scores[i]
      /\ model.threshold = Percentile(scores, 99, 100)
  BY DEF CalibratedOn
<1>1. DOMAIN validation = 1..n
  BY <1>0, LenProperties
<1>2. \A i \in 1..n : Alerts(model, validation[i]) <=> 100 * scores[i] > Percentile(scores, 99, 100)
  BY <1>0 DEF Alerts
<1>3. {i \in DOMAIN validation : Alerts(model, validation[i])} = U
  BY <1>1, <1>2
<1>4. Cardinality(U) <= (n - 1 + 99) \div 100
  <2>1. U = {i \in 1..Len(scores) : 100 * scores[i] > Percentile(scores, 99, 100)}
    OBVIOUS
  <2> HIDE DEF U
  <2> QED
    BY <1>0, <2>1, Calibration
<1> HIDE DEF U
<1> QED
  BY <1>0, <1>3, <1>4

\* The exported forest is calibrated on what the library scores, and so on what the
\* runtime does, if the two agree.
LEMMA ForestCalibrated ==
  ASSUME NEW T, NEW training \in Seq(T), NEW validation \in Seq(T), NEW R, NEW features \in Seq(R),
         NEW tree, tree = Forest(training, features),
         NEW m, m = ExportForest(tree, validation, features),
         \A i \in 1..Len(validation) :
            RuntimeScore(m, validation[i]) = SampleScore(tree, Values(validation[i], m.features))
  PROVE  Cardinality({i \in DOMAIN validation : Alerts(m, validation[i])})
           <= (Len(validation) - 1 + 99) \div 100
<1> DEFINE k == Len(validation)
           scores == [i \in 1..k |-> SampleScore(tree, Values(validation[i], features))]
<1>1. k \in Nat /\ DOMAIN validation = 1..k
  BY LenProperties
<1>2. \A i \in 1..k : SampleScore(tree, Values(validation[i], features)) \in Int
  BY ForestScore
<1>3. scores \in [1..k -> Int]
  <2> HIDE DEF k
  <2> QED
    BY <1>2
<1>4. Each(validation, LAMBDA row : SampleScore(tree, Values(row, features))) = scores
  <2>1. Each(validation, LAMBDA row : SampleScore(tree, Values(row, features))) = scores \o << >>
    <3> HIDE DEF k
    <3> QED
      BY <1>1 DEF Each
  <2> HIDE DEF scores, k
  <2> QED
    BY <1>1, <1>3, <2>1, EachIs
<1>5. scores \in Seq(Int) /\ Len(scores) = k
  <2> HIDE DEF scores, k
  <2> QED
    BY <1>1, <1>3, ListOf
<1>6. m.kind = "iforest" /\ m.features = features /\ m.threshold = Percentile(scores, 99, 100)
  <2> HIDE DEF scores
  <2> QED
    BY <1>4 DEF ExportForest
<1>7. \A i \in 1..k : Score(m, validation[i]) = scores[i]
  BY <1>6 DEF Score
<1> HIDE DEF scores
<1> QED
  <2>1. CalibratedOn(m, validation, scores)
    BY <1>5, <1>6, <1>7 DEF CalibratedOn
  <2> QED
    BY <2>1, CalibratedIs

\* The other detector is calibrated on its own scores.
LEMMA FitCalibrated ==
  ASSUME NEW T, \A row \in T : IsRow(row), NEW training \in Seq(T), NEW validation \in Seq(T),
         NEW features \in Seq(Features), features # << >>,
         NEW m, m = FitPercentile(training, validation, features)
  PROVE  Cardinality({i \in DOMAIN validation : Alerts(m, validation[i])})
           <= (Len(validation) - 1 + 99) \div 100
<1> DEFINE n == Len(features)
           k == Len(validation)
           at(f, p) == Percentile(Column(training, f), p, 100)
           c == [i \in 1..n |-> at(features[i], 50)]
           d == [i \in 1..n |-> Max({at(features[i], 50) - at(features[i], 1),
                                     at(features[i], 99) - at(features[i], 50), 1})]
           P == [kind |-> "percentile", features |-> features, threshold |-> 0,
                 centres |-> c, scales |-> d]
           scores == [i \in 1..k |-> Deviation(P, validation[i])]
<1>1. /\ n \in Nat /\ DOMAIN features = 1..n /\ k \in Nat /\ DOMAIN validation = 1..k
  BY LenProperties
<1>2. ASSUME NEW f \in Features, NEW p \in 0..100 PROVE at(f, p) \in Int
  BY ColumnIs, PercentileType
<1>3. ASSUME NEW i \in 1..n PROVE c[i] \in Int /\ d[i] \in Int /\ d[i] >= 1
  <2>1. features[i] \in Features
    BY ElementOfSeq
  <2> DEFINE a == at(features[i], 50) - at(features[i], 1)
             b == at(features[i], 99) - at(features[i], 50)
  <2>2. /\ at(features[i], 50) \in Int /\ at(features[i], 1) \in Int
        /\ at(features[i], 99) \in Int
    <3> HIDE DEF at
    <3>1. 50 \in 0..100 /\ 1 \in 0..100 /\ 99 \in 0..100
      OBVIOUS
    <3> QED
      BY <2>1, <1>2, <3>1
  <2>3. a \in Int /\ b \in Int
    <3> HIDE DEF at
    <3> QED
      BY <2>2
  <2>4. c[i] = at(features[i], 50) /\ d[i] = Max({a, b, 1})
    OBVIOUS
  <2> HIDE DEF a, b, at
  <2>5. IsFiniteSet({a, b, 1})
    <3>1. IsFiniteSet({}) /\ IsFiniteSet({} \cup {a}) /\ IsFiniteSet(({} \cup {a}) \cup {b})
             /\ IsFiniteSet((({} \cup {a}) \cup {b}) \cup {1})
      BY FS_EmptySet, FS_AddElement
    <3>2. (({} \cup {a}) \cup {b}) \cup {1} = {a, b, 1}
      OBVIOUS
    <3> QED
      BY <3>1, <3>2
  <2> DEFINE S == {a, b, 1}
  <2>6. S \subseteq Int /\ S # {} /\ IsFiniteSet(S) /\ 1 \in S
    BY <2>3, <2>5
  <2> HIDE DEF S
  <2>7. Max(S) \in S /\ \A y \in S : Max(S) >= y
    BY <2>6, MaxIs
  <2>8. Max(S) \in Int /\ Max(S) >= 1
    BY <2>6, <2>7
  <2>9. d[i] = Max(S)
    BY <2>4 DEF S
  <2> QED
    BY <2>2, <2>4, <2>8, <2>9
<1>4. /\ c \in [1..n -> Int] /\ d \in [1..n -> Int]
  <2>1. DOMAIN c = 1..n /\ c = [i \in 1..n |-> c[i]] /\ DOMAIN d = 1..n /\ d = [i \in 1..n |-> d[i]]
    OBVIOUS
  <2> HIDE DEF c, d
  <2> QED
    BY <1>3, <2>1
<1>5. /\ Each(features, LAMBDA f : at(f, 50)) = c
      /\ Each(features, LAMBDA f : Max({at(f, 50) - at(f, 1), at(f, 99) - at(f, 50), 1})) = d
  <2>1. /\ Each(features, LAMBDA f : at(f, 50)) = c \o << >>
        /\ Each(features, LAMBDA f : Max({at(f, 50) - at(f, 1), at(f, 99) - at(f, 50), 1}))
             = d \o << >>
    <3> HIDE DEF n, at
    <3> QED
      BY <1>1 DEF Each
  <2> HIDE DEF c, d, n
  <2> QED
    BY <1>1, <1>4, <2>1, EachIs
<1>6. /\ c \in Seq(Int) /\ Len(c) = n /\ d \in Seq(Int) /\ Len(d) = n
  <2> HIDE DEF c, d, n
  <2> QED
    BY <1>1, <1>4, ListOf
<1>7. \A row \in T : Deviation(P, row) \in Int
  <2> SUFFICES ASSUME NEW row \in T PROVE Deviation(P, row) \in Int
    OBVIOUS
  <2>1. P.features = features /\ P.centres = c /\ P.scales = d
    OBVIOUS
  <2> HIDE DEF P, c, d
  <2> QED
    BY <1>3, <1>6, <2>1, DeviationIs DEF n
<1>8. scores \in [1..k -> Int]
  <2>1. \A i \in 1..k : validation[i] \in T
    BY ElementOfSeq
  <2> HIDE DEF P, k
  <2> QED
    BY <1>7, <2>1
<1>9. Each(validation, LAMBDA row : Deviation(P, row)) = scores
  <2>1. Each(validation, LAMBDA row : Deviation(P, row)) = scores \o << >>
    <3> HIDE DEF P, k
    <3> QED
      BY <1>1 DEF Each
  <2> HIDE DEF scores, k
  <2> QED
    BY <1>1, <1>8, <2>1, EachIs
<1>10. scores \in Seq(Int) /\ Len(scores) = k
  <2> HIDE DEF scores, k
  <2> QED
    BY <1>1, <1>8, ListOf
<1>11. m = [P EXCEPT !.threshold = Percentile(scores, 99, 100)]
  <2> DEFINE Q == [kind |-> "percentile", features |-> features, threshold |-> 0,
                   centres |-> Each(features, LAMBDA f : at(f, 50)),
                   scales |-> Each(features, LAMBDA f : Max({at(f, 50) - at(f, 1),
                                                            at(f, 99) - at(f, 50), 1}))]
  <2>1. Q = P
    <3> HIDE DEF c, d, at
    <3> QED
      BY <1>5
  <2>2. m = [Q EXCEPT !.threshold =
               Percentile(Each(validation, LAMBDA row : Deviation(Q, row)), 99, 100)]
    BY DEF FitPercentile
  <2> HIDE DEF P, Q, scores
  <2> QED
    BY <1>9, <2>1, <2>2
<1>12. /\ m.kind = "percentile" /\ m.threshold = Percentile(scores, 99, 100)
       /\ m.features = P.features /\ m.centres = P.centres /\ m.scales = P.scales
  <2> HIDE DEF scores, c, d
  <2> QED
    BY <1>11
<1>13. \A row : Deviation(m, row) = Deviation(P, row)
  <2> HIDE DEF P
  <2> QED
    BY <1>12 DEF Deviation
<1>14. \A i \in 1..k : Score(m, validation[i]) = scores[i]
  <2> HIDE DEF P
  <2> QED
    BY <1>12, <1>13 DEF Score
<1> HIDE DEF scores
<1> QED
  <2>1. CalibratedOn(m, validation, scores)
    BY <1>10, <1>12, <1>14 DEF CalibratedOn
  <2> QED
    BY <2>1, CalibratedIs

\* What is tested is a part of the benign windows and every attack window.
LEMMA TestIs ==
  ASSUME NEW rows, IsTable(rows), NEW parts, parts.test \in Seq(ToSet(rows)),
         ToSet(parts.test) \subseteq Quiet(rows)
  PROVE  LET test == TestRows(rows, parts)
         IN  /\ IsTable(test) /\ ToSet(test) = ToSet(parts.test) \cup Hostile(rows)
             /\ Hostile(test) = Hostile(rows) /\ Quiet(test) = ToSet(parts.test)
             /\ Tally(test, Hostile(test)) = Len(Attacks(rows))
             /\ Tally(test, Quiet(test)) = Len(parts.test)
<1> DEFINE T == ToSet(rows)
           s == parts.test
           t == Attacks(rows)
           test == TestRows(rows, parts)
<1>1. rows \in Seq(T) /\ \A row \in T : IsRow(row)
  BY DEF IsTable
<1>2. t \in Seq(T) /\ ToSet(t) = Hostile(rows)
  <2>1. t = Within(rows, Hostile(rows))
    BY <1>1, PartsAre
  <2>2. T \cap Hostile(rows) = Hostile(rows)
    BY DEF Hostile
  <2> HIDE DEF t
  <2> QED
    BY <1>1, <2>1, <2>2, WithinIs
<1>3. test = s \o t
  BY DEF TestRows
<1> HIDE DEF T, s, t, test
<1>4. s \in Seq(T) /\ ToSet(s) \subseteq Quiet(rows)
  BY DEF s, T
<1>5. /\ \A V : /\ Tally(s, V) \in Nat /\ Tally(t, V) \in Nat
                /\ Tally(test, V) = Tally(s, V) + Tally(t, V)
      /\ ToSet(test) = ToSet(s) \cup ToSet(t)
  BY <1>2, <1>3, <1>4, TallyConcat, SMTT(60)
<1>6. test \in Seq(T)
  BY <1>2, <1>3, <1>4, ConcatProperties
<1>7. ToSet(test) \subseteq T
  BY <1>2, <1>4, <1>5 DEF Hostile, Quiet, T
<1>8. IsTable(test)
  BY <1>1, <1>6, <1>7, OwnElements DEF IsTable
<1>9. Hostile(test) = Hostile(rows) /\ Quiet(test) = ToSet(s)
  BY <1>2, <1>4, <1>5 DEF Hostile, Quiet
<1>10. Tally(test, Hostile(test)) = Len(t)
  <2>1. Tally(s, Hostile(test)) = 0
    <3>1. Hostile(test) \cap ToSet(s) = {}
      BY <1>4 DEF Hostile, Quiet
    <3> QED
      BY <1>4, <3>1, TallyNone
  <2>2. Tally(t, Hostile(test)) = Len(t)
    <3>1. ToSet(t) \subseteq Hostile(test)
      BY <1>2, <1>9
    <3> QED
      BY <1>2, <3>1, TallyAll
  <2>3. Len(t) \in Nat
    BY <1>2, LenProperties
  <2> QED
    BY <1>5, <2>1, <2>2, <2>3
<1>11. Tally(test, Quiet(test)) = Len(s)
  <2>1. Tally(t, Quiet(test)) = 0
    <3>1. Quiet(test) \cap ToSet(t) = {}
      BY <1>2 DEF Hostile, Quiet
    <3> QED
      BY <1>2, <3>1, TallyNone
  <2>2. Tally(s, Quiet(test)) = Len(s)
    <3>1. ToSet(s) \subseteq Quiet(test)
      BY <1>9
    <3> QED
      BY <1>4, <3>1, TallyAll
  <2>3. Len(s) \in Nat
    BY <1>4, LenProperties
  <2> QED
    BY <1>5, <2>1, <2>2, <2>3
<1> QED
  BY <1>2, <1>5, <1>8, <1>9, <1>10, <1>11 DEF test, s, t

\* What is measured on it, whatever the detector.
LEMMA MeasuredIs ==
  ASSUME NEW rows, IsTable(rows), NEW parts, parts.test \in Seq(ToSet(rows)),
         ToSet(parts.test) \subseteq Quiet(rows),
         RunIds(parts.test) \cap RunIds(Attacks(rows)) = {},
         NEW model, NEW test, test = TestRows(rows, parts), NEW m, m = Evaluate(model, test)
  PROVE  /\ m.overall.tp + m.overall.fn = Len(Attacks(rows))
         /\ m.overall.fp + m.overall.tn = Len(parts.test)
         /\ SumOver([s \in DOMAIN m.perScenario |-> m.perScenario[s].windows]) = Len(test)
         /\ SumOver([s \in DOMAIN m.perScenario |-> m.perScenario[s].alertWindows])
              = m.overall.tp + m.overall.fp
         /\ \A r \in RunIds(Attacks(rows)) :
              (m.delays[r] = NoDelay)
                <=> (\A row \in ToSet(test) : row.run = r => ~ Alerts(model, row))
<1> DEFINE H == Hostile(test)
           Q == Quiet(test)
           A == Alarming(model, test)
<1>1. /\ IsTable(test) /\ ToSet(test) = ToSet(parts.test) \cup Hostile(rows)
      /\ H = Hostile(rows) /\ Q = ToSet(parts.test)
      /\ Tally(test, H) = Len(Attacks(rows)) /\ Tally(test, Q) = Len(parts.test)
  BY TestIs
<1>2. /\ m.overall = MetricsOn(model, test, AllWindows(test))
      /\ m.perScenario = PerScenario(model, test) /\ m.delays = Delays(model, test)
  BY DEF Evaluate
<1>3. /\ m.overall.tp = Tally(test, H \cap A) /\ m.overall.fp = Tally(test, Q \cap A)
      /\ m.overall.tn = Tally(test, Q \ A) /\ m.overall.fn = Tally(test, H \ A)
  <2> HIDE DEF H, Q, A
  <2> QED
    BY <1>1, <1>2, Tallies DEF H, Q, A
<1>4. test \in Seq(ToSet(test)) /\ \A row \in ToSet(test) : IsRow(row)
  BY <1>1 DEF IsTable
<1>5. H \cup Q = ToSet(test) /\ H \cap Q = {} /\ A \subseteq ToSet(test)
  BY <1>4 DEF Hostile, Quiet, IsRow, Alarming
<1> HIDE DEF H, Q, A
<1>6. Tally(test, H) = Tally(test, H \cap A) + Tally(test, H \ A)
  <2>1. (H \cap A) \cup (H \ A) = H /\ (H \cap A) \cap (H \ A) \cap ToSet(test) = {}
    OBVIOUS
  <2>2. Tally(test, (H \cap A) \cup (H \ A)) = Tally(test, H \cap A) + Tally(test, H \ A)
    BY <1>4, <2>1, TallyUnion
  <2> QED
    BY <2>1, <2>2
<1>7. Tally(test, Q) = Tally(test, Q \cap A) + Tally(test, Q \ A)
  <2>1. (Q \cap A) \cup (Q \ A) = Q /\ (Q \cap A) \cap (Q \ A) \cap ToSet(test) = {}
    OBVIOUS
  <2>2. Tally(test, (Q \cap A) \cup (Q \ A)) = Tally(test, Q \cap A) + Tally(test, Q \ A)
    BY <1>4, <2>1, TallyUnion
  <2> QED
    BY <2>1, <2>2
<1>8. Tally(test, A) = Tally(test, H \cap A) + Tally(test, Q \cap A)
  <2>1. (H \cap A) \cup (Q \cap A) = A /\ (H \cap A) \cap (Q \cap A) \cap ToSet(test) = {}
    BY <1>5
  <2>2. Tally(test, (H \cap A) \cup (Q \cap A)) = Tally(test, H \cap A) + Tally(test, Q \cap A)
    BY <1>4, <2>1, TallyUnion
  <2> QED
    BY <2>1, <2>2
<1>9. /\ SumOver([s \in DOMAIN m.perScenario |-> m.perScenario[s].windows]) = Len(test)
      /\ SumOver([s \in DOMAIN m.perScenario |-> m.perScenario[s].alertWindows]) = Tally(test, A)
  BY <1>1, <1>2, ScenariosAddUp DEF A
<1>10. ASSUME NEW r \in RunIds(Attacks(rows))
       PROVE  (m.delays[r] = NoDelay)
                <=> (\A row \in ToSet(test) : row.run = r => ~ Alerts(model, row))
  <2>1. ToSet(Attacks(rows)) = Hostile(rows)
    <3>1. rows \in Seq(ToSet(rows))
      BY DEF IsTable
    <3>2. ToSet(Attacks(rows)) = ToSet(rows) \cap Hostile(rows)
      BY <3>1, PartsAre, WithinIs
    <3> QED
      BY <3>2 DEF Hostile
  <2>2. ToSet(Attacks(test)) = Hostile(test)
    <3>1. Attacks(test) = Within(test, Hostile(test))
      BY <1>4, PartsAre
    <3>2. ToSet(Attacks(test)) = ToSet(test) \cap Hostile(test)
      BY <1>4, <3>1, WithinIs
    <3> QED
      BY <3>2 DEF Hostile
  <2>3. RunIds(Attacks(test)) = RunIds(Attacks(rows))
    BY <1>1, <2>1, <2>2 DEF RunIds, H
  <2>4. ASSUME NEW row \in ToSet(test), row.run = r
        PROVE  row.attack
    <3>1. row \notin ToSet(parts.test)
      BY <2>4 DEF RunIds
    <3> QED
      BY <1>1, <3>1 DEF Hostile
  <2>5. (Delays(model, test)[r] = NoDelay)
          <=> (\A row \in ToSet(test) : row.run = r => ~ Alerts(model, row))
    <3>1. IsTable(test) /\ r \in RunIds(Attacks(test))
      BY <1>1, <2>3
    <3>2. \A row \in ToSet(test) : row.run = r => row.attack
      BY <2>4
    <3> QED
      BY <3>1, <3>2, DelaysAre
  <2> QED
    BY <1>2, <2>5
<1> QED
  BY <1>1, <1>3, <1>6, <1>7, <1>8, <1>9, <1>10

\* What a part has of anything, the list has among what is in the part.
LEMMA PartTally ==
  ASSUME NEW rows, IsTable(rows), NEW ids, NEW test, test = OfRuns(Benign(rows), ids), NEW V
  PROVE  Tally(test, V) = Tally(rows, V \cap ToSet(test))
<1> DEFINE T == ToSet(rows)
           s == Benign(rows)
           K == OfSome(s, ids)
<1>1. rows \in Seq(T)
  BY DEF IsTable
<1>2. s = Within(rows, Quiet(rows))
  BY <1>1, PartsAre
<1> HIDE DEF T, s, K
<1>3. s \in Seq(T) /\ ToSet(s) = T \cap Quiet(rows)
  BY <1>1, <1>2, WithinIs DEF T
<1>4. test = Within(s, K)
  BY <1>3, PartsAre DEF K, s
<1>5. ToSet(test) = ToSet(s) \cap K
  BY <1>3, <1>4, WithinIs
<1>6. Tally(test, V) = Tally(s, V \cap K)
  BY <1>3, <1>4, WithinIs
<1>7. Tally(s, V \cap K) = Tally(rows, (V \cap K) \cap Quiet(rows))
  BY <1>1, <1>2, WithinIs
<1>8. (V \cap K) \cap Quiet(rows) = V \cap ToSet(test)
  BY <1>3, <1>5 DEF Quiet, T
<1> QED
  BY <1>6, <1>7, <1>8

\* A training whose parts share no run has each benign window in one part.
LEMMA SplitSound ==
  ASSUME NEW s \in Stages, NEW c \in Splittable[s], NEW o, o.rows = RowsOf[c],
         o.parts = SplitRows(RowsOf[c], Configs[s]), Disjoint(o)
  PROVE  /\ IsTable(o.rows)
         /\ \A p \in {"train", "validation", "test"} :
              o.parts[p] \in Seq(ToSet(o.rows)) /\ ToSet(o.parts[p]) \subseteq Quiet(o.rows)
         /\ RunIds(o.parts.test) \cap RunIds(Attacks(o.rows)) = {}
         /\ RunIds(o.parts.train) \cup RunIds(o.parts.validation)
              \subseteq RunIds(Benign(o.rows)) \ (RunIds(o.parts.test) \cup RunIds(Attacks(o.rows)))
         /\ \A V : Tally(o.parts.test, V) = Tally(o.rows, V \cap ToSet(o.parts.test))
         /\ Len(o.parts.train) + Len(o.parts.validation) + Len(o.parts.test) = Len(Benign(o.rows))
         /\ ToSet(o.parts.train) \cup ToSet(o.parts.validation) \cup ToSet(o.parts.test)
              = ToSet(Benign(o.rows))
<1>1. c \in DOMAIN Collections /\ CanSplitRows(RowsOf[c], Configs[s])
  BY DEF Splittable
<1>2. PICK cut : /\ o.parts = Rows3(RowsOf[c], cut)
                 /\ RunIds(Benign(RowsOf[c])) \subseteq cut.train \cup cut.validation \cup cut.test
  BY <1>1, SplitIs
<1>3. IsTable(o.rows)
  BY <1>1, TableOf
<1>4. /\ RunIds(o.parts.train) \cap RunIds(o.parts.validation) = {}
      /\ RunIds(o.parts.train) \cap RunIds(o.parts.test) = {}
      /\ RunIds(o.parts.validation) \cap RunIds(o.parts.test) = {}
      /\ RunIds(o.parts.test) \cap RunIds(Attacks(o.rows)) = {}
      /\ RunIds(o.parts.train) \cap RunIds(Attacks(o.rows)) = {}
      /\ RunIds(o.parts.validation) \cap RunIds(Attacks(o.rows)) = {}
  <2> DEFINE ids == <<RunIds(o.parts.train), RunIds(o.parts.validation),
                      RunIds(o.parts.test), RunIds(Attacks(o.rows))>>
  <2>1. \A i, j \in 1..4 : i < j => ids[i] \cap ids[j] = {}
    BY DEF Disjoint
  <2>2. /\ ids[1] = RunIds(o.parts.train) /\ ids[2] = RunIds(o.parts.validation)
        /\ ids[3] = RunIds(o.parts.test) /\ ids[4] = RunIds(Attacks(o.rows))
    OBVIOUS
  <2> HIDE DEF ids
  <2>3. /\ ids[1] \cap ids[2] = {} /\ ids[1] \cap ids[3] = {} /\ ids[2] \cap ids[3] = {}
        /\ ids[1] \cap ids[4] = {} /\ ids[2] \cap ids[4] = {} /\ ids[3] \cap ids[4] = {}
    BY <2>1
  <2> QED
    BY <2>2, <2>3
<1>5. o.parts = Rows3(o.rows, cut) /\ RunIds(Benign(o.rows)) \subseteq cut.train \cup cut.validation \cup cut.test
  BY <1>2
<1>6. /\ \A p \in {"train", "validation", "test"} :
           o.parts[p] \in Seq(ToSet(o.rows)) /\ ToSet(o.parts[p]) \subseteq Quiet(o.rows)
      /\ Len(o.parts.train) + Len(o.parts.validation) + Len(o.parts.test) = Len(Benign(o.rows))
      /\ ToSet(o.parts.train) \cup ToSet(o.parts.validation) \cup ToSet(o.parts.test)
           = ToSet(Benign(o.rows))
  <2> DEFINE rows == o.rows
             parts == o.parts
  <2>1. /\ IsTable(rows) /\ parts = Rows3(rows, cut)
        /\ RunIds(Benign(rows)) \subseteq cut.train \cup cut.validation \cup cut.test
        /\ RunIds(parts.train) \cap RunIds(parts.validation) = {}
        /\ RunIds(parts.train) \cap RunIds(parts.test) = {}
        /\ RunIds(parts.validation) \cap RunIds(parts.test) = {}
    BY <1>3, <1>4, <1>5
  <2> HIDE DEF rows, parts
  <2>2. /\ \A p \in {"train", "validation", "test"} :
             parts[p] \in Seq(ToSet(rows)) /\ ToSet(parts[p]) \subseteq Quiet(rows)
        /\ Len(parts.train) + Len(parts.validation) + Len(parts.test) = Len(Benign(rows))
        /\ ToSet(parts.train) \cup ToSet(parts.validation) \cup ToSet(parts.test)
             = ToSet(Benign(rows))
    BY <2>1, PartsAddUp
  <2> QED
    BY <2>2 DEF rows, parts
<1>7. RunIds(o.parts.train) \cup RunIds(o.parts.validation)
        \subseteq RunIds(Benign(o.rows)) \ (RunIds(o.parts.test) \cup RunIds(Attacks(o.rows)))
  <2>1. /\ RunIds(o.parts.train) \subseteq RunIds(Benign(o.rows))
        /\ RunIds(o.parts.validation) \subseteq RunIds(Benign(o.rows))
    BY <1>6 DEF RunIds
  <2> QED
    BY <1>4, <2>1
<1>8. \A V : Tally(o.parts.test, V) = Tally(o.rows, V \cap ToSet(o.parts.test))
  <2> DEFINE rows == o.rows
             test == o.parts.test
  <2>1. IsTable(rows) /\ test = OfRuns(Benign(rows), cut.test)
    BY <1>3, <1>5 DEF Rows3
  <2> HIDE DEF rows, test
  <2>2. \A V : Tally(test, V) = Tally(rows, V \cap ToSet(test))
    BY <2>1, PartTally
  <2> QED
    BY <2>2 DEF rows, test
<1> QED
  BY <1>3, <1>4, <1>6, <1>7, <1>8

\* An evaluation that a training gets to is sound.
LEMMA EvaluationIs ==
  ASSUME NEW s \in {"stage3", "stage4"}, NEW c \in Sound[s], <<c, c>> \in Reproduces[s]
  PROVE  c \in SoundEvaluations[s]
<1> DEFINE o == Outcome[s][c]
           parts == o.parts
           rows == o.rows
           T == ToSet(rows)
           test == TestRows(rows, parts)
           e == Evaluated[s][c]
           percentile == PercentileOf(parts)
           allowed == (Len(parts.validation) - 1 + 99) \div 100
<1>1. s \in Stages /\ c \in Splittable[s] /\ SplitIsSound(o, Configs[s])
  BY DEF Stages, Sound
<1>2. /\ rows = RowsOf[c] /\ parts = SplitRows(RowsOf[c], Configs[s])
      /\ o.tree = Forest(parts.train, Baseline)
      /\ o.forest = ExportForest(o.tree, parts.validation, Baseline)
  <2>1. o = Trained(RowsOf[c], Baseline, Configs[s])
    BY <1>1 DEF Outcome
  <2> HIDE DEF o
  <2> QED
    BY <2>1 DEF Trained, TrainedOn
<1>3. /\ e.iforest = Evaluate(o.forest, test) /\ e.percentile = Evaluate(percentile, test)
  <2>1. e = EvaluationOf(o)
    BY <1>1 DEF Evaluated
  <2> HIDE DEF o, e
  <2> QED
    BY <2>1 DEF EvaluationOf
<1>4. /\ IsTable(rows) /\ parts.test \in Seq(T) /\ ToSet(parts.test) \subseteq Quiet(rows)
      /\ parts.train \in Seq(T) /\ parts.validation \in Seq(T)
      /\ RunIds(parts.test) \cap RunIds(Attacks(rows)) = {}
      /\ Len(parts.train) + Len(parts.validation) + Len(parts.test) = Len(Benign(rows))
      /\ ToSet(parts.train) \cup ToSet(parts.validation) \cup ToSet(parts.test) = ToSet(Benign(rows))
  <2>1. Disjoint(o)
    BY <1>1 DEF SplitIsSound
  <2>2. /\ IsTable(o.rows)
        /\ \A p \in {"train", "validation", "test"} :
             o.parts[p] \in Seq(ToSet(o.rows)) /\ ToSet(o.parts[p]) \subseteq Quiet(o.rows)
        /\ RunIds(o.parts.test) \cap RunIds(Attacks(o.rows)) = {}
        /\ Len(o.parts.train) + Len(o.parts.validation) + Len(o.parts.test) = Len(Benign(o.rows))
        /\ ToSet(o.parts.train) \cup ToSet(o.parts.validation) \cup ToSet(o.parts.test)
             = ToSet(Benign(o.rows))
    <3> HIDE DEF o
    <3> QED
      BY <1>1, <1>2, <2>1, SplitSound
  <2> HIDE DEF o
  <2> QED
    BY <2>2
<1>5. AgreesWith(o.forest, o)
  BY <1>1 DEF Reproduces, ModelOf
<1> HIDE DEF o
<1>6. \A i \in 1..Len(parts.validation) :
        RuntimeScore(o.forest, parts.validation[i])
          = SampleScore(o.tree, Values(parts.validation[i], o.forest.features))
  <2> DEFINE v == parts.validation
             all == ParityRows(rows, parts)
  <2>1. \A i \in DOMAIN all :
          RuntimeScore(o.forest, all[i]) = SampleScore(o.tree, Values(all[i], o.forest.features))
    BY <1>5 DEF AgreesWith, Agrees
  <2>2. test \in Seq(T)
    <3>1. Attacks(rows) = Within(rows, Hostile(rows)) /\ rows \in Seq(T)
      BY <1>4, PartsAre DEF IsTable
    <3> HIDE DEF T, parts, rows
    <3>2. Attacks(rows) \in Seq(T)
      BY <3>1, WithinIs
    <3> QED
      BY <1>4, <3>2, ConcatProperties DEF TestRows
  <2>3. all = v \o test
    BY DEF ParityRows
  <2>4. v \in Seq(T)
    BY <1>4
  <2> HIDE DEF v, all, test, T
  <2>5. /\ Len(v) \in Nat /\ Len(test) \in Nat /\ all \in Seq(T) /\ Len(all) = Len(v) + Len(test)
        /\ \A i \in 1..Len(v) : all[i] = v[i]
    BY <2>2, <2>3, <2>4, ConcatProperties, LenProperties
  <2>6. \A i \in 1..Len(v) : i \in DOMAIN all
    BY <2>5, LenProperties
  <2>7. \A i \in 1..Len(v) :
          RuntimeScore(o.forest, v[i]) = SampleScore(o.tree, Values(v[i], o.forest.features))
    BY <2>1, <2>5, <2>6
  <2> QED
    BY <2>7 DEF v
<1>7. \A row \in T : IsRow(row)
  BY <1>4 DEF IsTable
<1> HIDE DEF parts, rows, T
<1>8. Cardinality({i \in DOMAIN parts.validation : Alerts(o.forest, parts.validation[i])}) <= allowed
  <2> DEFINE m == o.forest
             tree == o.tree
             training == parts.train
             v == parts.validation
  <2>1. /\ training \in Seq(T) /\ v \in Seq(T) /\ Baseline \in Seq(Features)
        /\ tree = Forest(training, Baseline) /\ m = ExportForest(tree, v, Baseline)
        /\ \A i \in 1..Len(v) : RuntimeScore(m, v[i]) = SampleScore(tree, Values(v[i], m.features))
    BY <1>2, <1>4, <1>6, BaselineAssumption
  <2> HIDE DEF m, tree, training, v
  <2>2. Cardinality({i \in DOMAIN v : Alerts(m, v[i])}) <= (Len(v) - 1 + 99) \div 100
    BY <2>1, ForestCalibrated, SMTT(60)
  <2> QED
    BY <2>2 DEF m, v
<1>9. Cardinality({i \in DOMAIN parts.validation : Alerts(percentile, parts.validation[i])}) <= allowed
  <2> DEFINE training == parts.train
             v == parts.validation
  <2>1. /\ training \in Seq(T) /\ v \in Seq(T) /\ percentile = FitPercentile(training, v, Baseline)
    BY <1>4 DEF PercentileOf
  <2> HIDE DEF training, v, percentile
  <2>2. Cardinality({i \in DOMAIN v : Alerts(percentile, v[i])}) <= (Len(v) - 1 + 99) \div 100
    BY <1>7, <2>1, BaselineAssumption, FitCalibrated
  <2> QED
    BY <2>2 DEF v
<1>10. ASSUME NEW model, NEW m, m = Evaluate(model, test)
       PROVE  /\ m.overall.tp + m.overall.fn = Len(Attacks(rows))
              /\ m.overall.fp + m.overall.tn = Len(parts.test)
              /\ SumOver([x \in DOMAIN m.perScenario |-> m.perScenario[x].windows]) = Len(test)
              /\ SumOver([x \in DOMAIN m.perScenario |-> m.perScenario[x].alertWindows])
                   = m.overall.tp + m.overall.fp
              /\ \A r \in RunIds(Attacks(rows)) :
                   (m.delays[r] = NoDelay)
                     <=> (\A row \in ToSet(test) : row.run = r => ~ Alerts(model, row))
  <2>1. parts.test \in Seq(ToSet(rows))
    BY <1>4 DEF T
  <2> DEFINE t == TestRows(rows, parts)
  <2>2. t = TestRows(rows, parts) /\ m = Evaluate(model, t)
    BY <1>10
  <2> HIDE DEF t
  <2>3. /\ m.overall.tp + m.overall.fn = Len(Attacks(rows))
        /\ m.overall.fp + m.overall.tn = Len(parts.test)
        /\ SumOver([x \in DOMAIN m.perScenario |-> m.perScenario[x].windows]) = Len(t)
        /\ SumOver([x \in DOMAIN m.perScenario |-> m.perScenario[x].alertWindows])
             = m.overall.tp + m.overall.fp
        /\ \A r \in RunIds(Attacks(rows)) :
             (m.delays[r] = NoDelay)
               <=> (\A row \in ToSet(t) : row.run = r => ~ Alerts(model, row))
    BY <1>4, <2>1, <2>2, MeasuredIs, SMTT(60)
  <2> QED
    BY <2>3 DEF t
<1> HIDE DEF e, percentile, test
<1>11. EvaluationSound(o, e)
  <2>1. /\ o.parts = parts /\ o.rows = rows /\ PercentileOf(o.parts) = percentile
        /\ TestRows(o.rows, o.parts) = test
    BY DEF parts, rows, percentile, test
  <2> DEFINE sum(m, field) == SumOver([x \in DOMAIN m.perScenario |-> m.perScenario[x][field]])
             sound(m, model) ==
               /\ m.overall.tp + m.overall.fn = Len(Attacks(o.rows))
               /\ m.overall.fp + m.overall.tn = Len(o.parts.test)
               /\ sum(m, "windows") = Len(test)
               /\ sum(m, "alertWindows") = m.overall.tp + m.overall.fp
               /\ \A r \in RunIds(Attacks(o.rows)) :
                    (m.delays[r] = NoDelay)
                      <=> (\A row \in ToSet(test) : row.run = r => ~ Alerts(model, row))
               /\ Cardinality({i \in DOMAIN o.parts.validation : Alerts(model, o.parts.validation[i])})
                    <= allowed
  <2>2. sound(e.iforest, o.forest)
    <3> DEFINE m == e.iforest
               model == o.forest
    <3>1. m = Evaluate(model, test)
      BY <1>3
    <3> HIDE DEF m, model
    <3>2. /\ m.overall.tp + m.overall.fn = Len(Attacks(o.rows))
          /\ m.overall.fp + m.overall.tn = Len(o.parts.test)
          /\ sum(m, "windows") = Len(test)
          /\ sum(m, "alertWindows") = m.overall.tp + m.overall.fp
      BY <1>10, <2>1, <3>1
    <3>3. \A r \in RunIds(Attacks(o.rows)) :
            (m.delays[r] = NoDelay)
              <=> (\A row \in ToSet(test) : row.run = r => ~ Alerts(model, row))
      BY <1>10, <2>1, <3>1
    <3>4. Cardinality({i \in DOMAIN o.parts.validation : Alerts(model, o.parts.validation[i])})
            <= allowed
      BY <1>8, <2>1 DEF model
    <3>5. sound(m, model)
      BY <3>2, <3>3, <3>4
    <3> QED
      BY <3>5 DEF m, model
  <2>3. sound(e.percentile, percentile)
    <3> DEFINE m == e.percentile
    <3>1. m = Evaluate(percentile, test)
      BY <1>3
    <3> HIDE DEF m
    <3>2. /\ m.overall.tp + m.overall.fn = Len(Attacks(o.rows))
          /\ m.overall.fp + m.overall.tn = Len(o.parts.test)
          /\ sum(m, "windows") = Len(test)
          /\ sum(m, "alertWindows") = m.overall.tp + m.overall.fp
      BY <1>10, <2>1, <3>1
    <3>3. \A r \in RunIds(Attacks(o.rows)) :
            (m.delays[r] = NoDelay)
              <=> (\A row \in ToSet(test) : row.run = r => ~ Alerts(percentile, row))
      BY <1>10, <2>1, <3>1
    <3>4. Cardinality({i \in DOMAIN o.parts.validation : Alerts(percentile, o.parts.validation[i])})
            <= allowed
      BY <1>9, <2>1
    <3>5. sound(m, percentile)
      BY <3>2, <3>3, <3>4
    <3> QED
      BY <3>5 DEF m
  <2>4. /\ Len(o.parts.train) + Len(o.parts.validation) + Len(o.parts.test) = Len(Benign(o.rows))
        /\ ToSet(o.parts.train) \cup ToSet(o.parts.validation) \cup ToSet(o.parts.test)
             = ToSet(Benign(o.rows))
    BY <1>4, <2>1
  <2> QED
    BY <2>1, <2>2, <2>3, <2>4 DEF EvaluationSound
<1> QED
  BY <1>1, <1>11 DEF SoundEvaluations, o, e

-----------------------------------------------------------------------------
(* The comparison of two trainings (stage5-statistical-comparison.py)      *)

\* Ones for one set and minus ones for another add up to the difference of their sizes.
LEMMA DifferenceAdds ==
  ASSUME NEW h, IsFiniteSet(DOMAIN h), NEW A \in SUBSET DOMAIN h, NEW B \in SUBSET DOMAIN h,
         \A k \in DOMAIN h : h[k] = (IF k \in B THEN 1 ELSE 0) - (IF k \in A THEN 1 ELSE 0)
  PROVE  SumOver(h) = Cardinality(B) - Cardinality(A)
<1> DEFINE D == DOMAIN h
           pick(s) == CHOOSE x \in s : TRUE
           part(X, s) == {x \in s : x \in X}
<1>1. IsFiniteSet(D)
  OBVIOUS
<1>2. PICK it : IsSum(it, h) /\ SumOver(h) = it[D]
  BY <1>1, SumOverIs
<1>3. /\ \A s \in SUBSET D : s = {} => it[s] = 0
      /\ \A s \in SUBSET D : s # {} => it[s] = h[pick(s)] + it[s \ {pick(s)}]
  BY <1>2 DEF IsSum
<1>4. ASSUME NEW s \in SUBSET D, s # {}
      PROVE  /\ pick(s) \in s /\ s \ {pick(s)} \in SUBSET D
             /\ Cardinality(s) \in Nat
             /\ Cardinality(s \ {pick(s)}) = Cardinality(s) - 1
  <2>1. IsFiniteSet(s) /\ pick(s) \in s
    BY <1>1, <1>4, FS_Subset
  <2>2. Cardinality(s) \in Nat
    BY <2>1, FS_CardinalityType
  <2>3. Cardinality(s \ {pick(s)}) = Cardinality(s) - 1
    <3> HIDE DEF pick
    <3> QED
      BY <2>1, FS_RemoveElement
  <2> QED
    BY <2>1, <2>2, <2>3
<1>5. ASSUME NEW X, NEW s \in SUBSET D, NEW o \in s
      PROVE  /\ Cardinality(part(X, s)) = (IF o \in X THEN 1 ELSE 0) + Cardinality(part(X, s \ {o}))
             /\ Cardinality(part(X, s \ {o})) \in Nat
  <2> DEFINE P == part(X, s)
             Q == part(X, s \ {o})
  <2>1. IsFiniteSet(P) /\ IsFiniteSet(Q)
    <3>1. P \in SUBSET D /\ Q \in SUBSET D
      OBVIOUS
    <3> HIDE DEF P, Q
    <3> QED
      BY <1>1, <3>1, FS_Subset
  <2>2. Cardinality(P) \in Nat /\ Cardinality(Q) \in Nat
    <3> HIDE DEF P, Q
    <3> QED
      BY <2>1, FS_CardinalityType
  <2>3. CASE o \in X
    <3>1. Q = P \ {o} /\ o \in P
      BY <2>3
    <3> HIDE DEF P, Q
    <3>2. Cardinality(Q) = Cardinality(P) - 1
      BY <2>1, <3>1, FS_RemoveElement
    <3>3. Cardinality(P) = 1 + Cardinality(Q)
      BY <2>2, <3>2
    <3> QED
      BY <2>2, <2>3, <3>3 DEF P, Q
  <2>4. CASE o \notin X
    <3>1. Q = P
      BY <2>4
    <3> HIDE DEF P, Q
    <3>2. Cardinality(P) = 0 + Cardinality(Q)
      BY <2>2, <3>1
    <3> QED
      BY <2>2, <2>4, <3>2 DEF P, Q
  <2> QED
    BY <2>3, <2>4
<1> DEFINE gap(s) == Cardinality(part(B, s)) - Cardinality(part(A, s))
           bad == {n \in Nat : \E s \in SUBSET D : Cardinality(s) = n /\ it[s] # gap(s)}
<1>6. bad = {}
  <2> SUFFICES ASSUME bad # {} PROVE FALSE
    OBVIOUS
  <2>1. PICK m \in bad : \A k \in bad : m <= k
    BY LeastNumber
  <2>2. PICK s \in SUBSET D : Cardinality(s) = m /\ it[s] # gap(s)
    OBVIOUS
  <2>3. s # {}
    <3>1. CASE s = {}
      <4>1. part(A, s) = {} /\ part(B, s) = {}
        BY <3>1
      <4>2. Cardinality(part(A, s)) = 0 /\ Cardinality(part(B, s)) = 0 /\ it[s] = 0
        BY <4>1, <3>1, <1>3, FS_EmptySet
      <4> QED
        BY <4>2, <2>2
    <3> QED
      BY <3>1
  <2> DEFINE o == pick(s)
             t == s \ {o}
  <2>4. o \in s /\ t \in SUBSET D /\ Cardinality(t) = m - 1 /\ m \in Nat
    BY <2>2, <2>3, <1>4
  <2>5. Cardinality(t) \in Nat
    <3>1. IsFiniteSet(t)
      BY <1>1, <2>4, FS_Subset
    <3> HIDE DEF t
    <3> QED
      BY <3>1, FS_CardinalityType
  <2>6. m - 1 \notin bad
    <3> HIDE DEF bad, t
    <3> QED
      BY <2>1, <2>4
  <2>7. it[t] = gap(t)
    <3> HIDE DEF gap, t
    <3> QED
      BY <2>4, <2>5, <2>6
  <2>8. it[s] = h[o] + it[t]
    BY <1>3, <2>3
  <2>9. /\ Cardinality(part(B, s)) = (IF o \in B THEN 1 ELSE 0) + Cardinality(part(B, t))
        /\ Cardinality(part(A, s)) = (IF o \in A THEN 1 ELSE 0) + Cardinality(part(A, t))
        /\ Cardinality(part(B, t)) \in Nat /\ Cardinality(part(A, t)) \in Nat
    <3> HIDE DEF part, o
    <3> QED
      BY <2>4, <1>5
  <2>10. h[o] = (IF o \in B THEN 1 ELSE 0) - (IF o \in A THEN 1 ELSE 0)
    BY <2>4
  <2> HIDE DEF part, o, t
  <2>11. gap(s) = h[o] + gap(t)
    BY <2>9, <2>10
  <2> QED
    BY <2>2, <2>7, <2>8, <2>11
<1>7. Cardinality(D) \in Nat
  BY FS_CardinalityType
<1>8. it[D] = gap(D)
  <2>1. Cardinality(D) \notin bad
    BY <1>6
  <2> HIDE DEF gap, D
  <2> QED
    BY <1>7, <2>1
<1>9. part(A, D) = A /\ part(B, D) = B
  OBVIOUS
<1> HIDE DEF part
<1> QED
  BY <1>2, <1>8, <1>9

\* The rows of the tested runs are the tested rows: no run of them is in another part.
LEMMA ComparedRowsAre ==
  ASSUME NEW s \in Stages, NEW c \in Splittable[s], NEW o, o.rows = RowsOf[c],
         o.parts = SplitRows(RowsOf[c], Configs[s]), Disjoint(o),
         NEW test, test = TestRows(o.rows, o.parts)
  PROVE  /\ IsTable(test) /\ IsTable(ComparedRows(o)) /\ ToSet(ComparedRows(o)) = ToSet(test)
         /\ \A V : Tally(ComparedRows(o), V) = Tally(test, V)
<1> DEFINE rows == o.rows
           parts == o.parts
           T == ToSet(rows)
           C == ToSet(parts.test)
           H == Hostile(rows)
           K == OfSome(rows, RunIds(test))
           compared == ComparedRows(o)
<1>1. /\ IsTable(rows) /\ parts.test \in Seq(T) /\ C \subseteq Quiet(rows)
      /\ RunIds(parts.train) \cup RunIds(parts.validation)
           \subseteq RunIds(Benign(rows)) \ (RunIds(parts.test) \cup RunIds(Attacks(rows)))
      /\ RunIds(parts.test) \cap RunIds(Attacks(rows)) = {}
      /\ ToSet(parts.train) \cup ToSet(parts.validation) \cup C = ToSet(Benign(rows))
      /\ \A V : Tally(parts.test, V) = Tally(rows, V \cap C)
  BY SplitSound
<1>2. test = TestRows(rows, parts) /\ compared = OfRuns(rows, RunIds(test))
  BY DEF ComparedRows
<1> HIDE DEF rows, parts, compared
<1>3. rows \in Seq(T)
  BY <1>1 DEF IsTable
<1>4. IsTable(test) /\ ToSet(test) = C \cup H
  <2>1. parts.test \in Seq(ToSet(rows)) /\ ToSet(parts.test) \subseteq Quiet(rows)
    BY <1>1
  <2> QED
    BY <1>1, <1>2, <2>1, TestIs
<1>5. ToSet(Attacks(rows)) = H /\ ToSet(Benign(rows)) = Quiet(rows)
      /\ Attacks(rows) = Within(rows, H)
  <2>1. Attacks(rows) = Within(rows, H) /\ Benign(rows) = Within(rows, Quiet(rows))
    BY <1>3, PartsAre
  <2>2. /\ ToSet(Within(rows, H)) = T \cap H /\ ToSet(Within(rows, Quiet(rows))) = T \cap Quiet(rows)
    <3> HIDE DEF T, H
    <3> QED
      BY <1>3, WithinIs DEF T
  <2>3. T \cap H = H /\ T \cap Quiet(rows) = Quiet(rows)
    BY DEF Hostile, Quiet
  <2> QED
    BY <2>1, <2>2, <2>3
<1>6. K = C \cup H
  <2>1. C \cup H \subseteq T
    BY <1>1 DEF Hostile, Quiet
  <2>2. ASSUME NEW row \in C \cup H PROVE row \in K
    BY <1>4, <2>1, <2>2 DEF OfSome, RunIds
  <2>3. ASSUME NEW row \in K PROVE row \in C \cup H
    <3>1. row \in T /\ row.run \in RunIds(test)
      BY DEF OfSome
    <3>2. row.run \in RunIds(parts.test) \cup RunIds(Attacks(rows))
      BY <3>1, <1>4, <1>5 DEF RunIds
    <3>3. row.attack \in BOOLEAN
      BY <1>1, <3>1 DEF IsTable, IsRow
    <3>4. CASE row.attack
      BY <3>1, <3>4 DEF Hostile
    <3>5. CASE ~ row.attack
      <4>1. row \in Quiet(rows)
        BY <3>1, <3>5 DEF Quiet
      <4>2. row \in ToSet(parts.train) \cup ToSet(parts.validation) \cup C
        BY <4>1, <1>1, <1>5
      <4>3. row \notin ToSet(parts.train) \cup ToSet(parts.validation)
        <5>1. row.run \notin RunIds(parts.train) \cup RunIds(parts.validation)
          BY <3>2, <1>1
        <5> QED
          BY <5>1 DEF RunIds
      <4> QED
        BY <4>2, <4>3
    <3> QED
      BY <3>3, <3>4, <3>5
  <2> QED
    BY <2>2, <2>3
<1>7. compared = Within(rows, K)
  BY <1>2, <1>3, PartsAre
<1>8. /\ compared \in Seq(T) /\ ToSet(compared) = T \cap K
      /\ \A V : Tally(compared, V) = Tally(rows, V \cap K)
  <2> HIDE DEF K, T
  <2> QED
    BY <1>3, <1>7, WithinIs DEF T
<1>9. K \subseteq T
  BY DEF OfSome
<1>10. IsTable(compared) /\ ToSet(compared) = ToSet(test)
  <2>1. ToSet(compared) = ToSet(test)
    BY <1>4, <1>6, <1>8, <1>9
  <2>2. compared \in Seq(ToSet(compared))
    BY <1>8, OwnElements
  <2> QED
    BY <1>4, <2>1, <2>2 DEF IsTable
<1>11. ASSUME NEW V
       PROVE  Tally(compared, V) = Tally(test, V)
  <2>1. Tally(test, V) = Tally(parts.test, V) + Tally(Attacks(rows), V)
    <3>1. Attacks(rows) \in Seq(T)
      <4> HIDE DEF T, H
      <4> QED
        BY <1>3, <1>5, WithinIs DEF T
    <3>2. test = parts.test \o Attacks(rows)
      BY <1>2 DEF TestRows
    <3> HIDE DEF T
    <3> QED
      BY <1>1, <3>1, <3>2, TallyConcat DEF T
  <2>2. Tally(Attacks(rows), V) = Tally(rows, V \cap H)
    <3> HIDE DEF T, H
    <3> QED
      BY <1>3, <1>5, WithinIs DEF T
  <2>3. Tally(rows, (V \cap C) \cup (V \cap H)) = Tally(rows, V \cap C) + Tally(rows, V \cap H)
    <3>1. (V \cap C) \cap (V \cap H) \cap T = {}
      BY <1>1 DEF Hostile, Quiet
    <3> HIDE DEF C, H
    <3> QED
      BY <1>3, <3>1, TallyUnion DEF T
  <2>4. (V \cap C) \cup (V \cap H) = V \cap K
    BY <1>6
  <2> HIDE DEF C, H, K
  <2> QED
    BY <1>1, <1>8, <2>1, <2>2, <2>3, <2>4
<1> QED
  BY <1>4, <1>10, <1>11 DEF compared

\* The rates depend on the tallies alone.
LEMMA SameRates ==
  ASSUME NEW a, IsTable(a), NEW b, IsTable(b), ToSet(a) = ToSet(b),
         \A V : Tally(a, V) = Tally(b, V), NEW model, NEW f \in {"precision", "recall", "f1"}
  PROVE  MetricsOn(model, a, AllWindows(a))[f] = MetricsOn(model, b, AllWindows(b))[f]
<1> DEFINE x == MetricsOn(model, a, AllWindows(a))
           y == MetricsOn(model, b, AllWindows(b))
<1>1. /\ x.tp = Tally(a, Hostile(a) \cap Alarming(model, a))
      /\ x.fp = Tally(a, Quiet(a) \cap Alarming(model, a))
      /\ x.tn = Tally(a, Quiet(a) \ Alarming(model, a))
      /\ x.fn = Tally(a, Hostile(a) \ Alarming(model, a))
      /\ x[f] = Rates(x.tp, x.fp, x.tn, x.fn, 0)[f]
  BY Tallies
<1>2. /\ y.tp = Tally(b, Hostile(b) \cap Alarming(model, b))
      /\ y.fp = Tally(b, Quiet(b) \cap Alarming(model, b))
      /\ y.tn = Tally(b, Quiet(b) \ Alarming(model, b))
      /\ y.fn = Tally(b, Hostile(b) \ Alarming(model, b))
      /\ y[f] = Rates(y.tp, y.fp, y.tn, y.fn, 0)[f]
  BY Tallies
<1>3. Hostile(a) = Hostile(b) /\ Quiet(a) = Quiet(b) /\ Alarming(model, a) = Alarming(model, b)
  BY DEF Hostile, Quiet, Alarming
<1> HIDE DEF x, y
<1>4. x.tp = y.tp /\ x.fp = y.fp /\ x.tn = y.tn /\ x.fn = y.fn
  BY <1>1, <1>2, <1>3
<1>5. x[f] = y[f]
  BY <1>1, <1>2, <1>4
<1> QED
  BY <1>5 DEF x, y

\* The runs of a scenario, and those a detector sees.
RunsIn(rows, s) == {row.run : row \in {q \in ToSet(rows) : q.scenario = s}}

SeenIn(model, rows, s) ==
  {row.run : row \in {q \in ToSet(rows) : q.scenario = s /\ Alerts(model, q)}}

\* They are what the summary counts.
LEMMA SummaryIs ==
  ASSUME NEW rows, IsTable(rows), NEW s \in Scenarios(rows), NEW model
  PROVE  /\ PerScenario(model, rows)[s].runs = Cardinality(RunsIn(rows, s))
         /\ PerScenario(model, rows)[s].alertedRuns = Cardinality(SeenIn(model, rows, s))
<1> DEFINE those == {i \in DOMAIN rows : rows[i].scenario = s}
           alerted == {i \in those : Alerts(model, rows[i])}
<1>1. ToSet(rows) = {rows[i] : i \in DOMAIN rows}
  BY LenProperties DEF IsTable, ToSet
<1>2. {rows[i].run : i \in those} = RunsIn(rows, s)
  BY <1>1 DEF RunsIn
<1>3. {rows[i].run : i \in alerted} = SeenIn(model, rows, s)
  BY <1>1 DEF SeenIn
<1>4. /\ PerScenario(model, rows)[s].runs = Cardinality({rows[i].run : i \in those})
      /\ PerScenario(model, rows)[s].alertedRuns = Cardinality({rows[i].run : i \in alerted})
  BY DEF PerScenario
<1> HIDE DEF those, alerted
<1> QED
  BY <1>2, <1>3, <1>4

\* And what the comparison counts, run by run.
LEMMA DetectionIs ==
  ASSUME NEW rows, IsTable(rows), NEW s, NEW left, NEW right
  PROVE  PairedDetection(left, right, rows, s).difference =
           <<Cardinality(SeenIn(right, rows, s)) - Cardinality(SeenIn(left, rows, s)),
             Cardinality(RunsIn(rows, s))>>
<1> DEFINE R == RunsIn(rows, s)
           n == Cardinality(R)
           ids == Ranked(R, <)
           those == {row \in ToSet(rows) : row.scenario = s}
           seen(model, id) == IF \E row \in those : row.run = id /\ Alerts(model, row) THEN 1 ELSE 0
           change(id) == seen(right, id) - seen(left, id)
           h == [k \in 1..n |-> change(ids[k])]
           at(model) == {k \in 1..n : ids[k] \in SeenIn(model, rows, s)}
<1>1. R \in SUBSET RunIds(rows) /\ R = {row.run : row \in those}
  BY DEF RunsIn, RunIds
<1>2. R \subseteq Nat /\ IsFiniteSet(R) /\ n \in Nat
  <2> HIDE DEF R
  <2> QED
    BY <1>1, RunsAre
<1> HIDE DEF R
<1>3. ids \in Bijection(1..n, R)
  BY <1>2, NumbersRanked
<1> HIDE DEF ids
<1>4. ids \in [1..n -> R] /\ DOMAIN ids = 1..n /\ Len(ids) = n
  <2>1. ids \in [1..n -> R]
    BY <1>3 DEF Bijection, Injection
  <2> HIDE DEF n
  <2> QED
    BY <1>2, <2>1, ListOf
<1>5. ASSUME NEW model, NEW id
      PROVE  seen(model, id) = IF id \in SeenIn(model, rows, s) THEN 1 ELSE 0
  BY DEF SeenIn
<1>6. Each(ids, change) = h
  <2>1. Each(ids, change) = h \o << >>
    <3> HIDE DEF n, change
    <3> QED
      BY <1>4 DEF Each
  <2>2. h \in [1..n -> Int]
    <3>1. \A id : change(id) \in Int
      OBVIOUS
    <3> HIDE DEF n, change
    <3> QED
      BY <3>1
  <2> HIDE DEF h, n
  <2> QED
    BY <1>2, <2>1, <2>2, EachIs
<1>7. \A k \in DOMAIN h : h[k] = (IF k \in at(right) THEN 1 ELSE 0) - (IF k \in at(left) THEN 1 ELSE 0)
  <2> SUFFICES ASSUME NEW k \in 1..n
               PROVE  h[k] = (IF k \in at(right) THEN 1 ELSE 0) - (IF k \in at(left) THEN 1 ELSE 0)
    OBVIOUS
  <2>1. h[k] = seen(right, ids[k]) - seen(left, ids[k])
    OBVIOUS
  <2>2. \A model : k \in at(model) <=> ids[k] \in SeenIn(model, rows, s)
    OBVIOUS
  <2> HIDE DEF seen, at, h
  <2> QED
    BY <1>5, <2>1, <2>2
<1>8. SumOver(h) = Cardinality(at(right)) - Cardinality(at(left))
  <2> DEFINE A == at(left)
             B == at(right)
  <2>1. DOMAIN h = 1..n /\ A \in SUBSET (1..n) /\ B \in SUBSET (1..n)
    OBVIOUS
  <2>2. IsFiniteSet(1..n)
    BY <1>2, FS_Interval
  <2>3. \A k \in DOMAIN h : h[k] = (IF k \in B THEN 1 ELSE 0) - (IF k \in A THEN 1 ELSE 0)
    BY <1>7
  <2> HIDE DEF A, B, h, n
  <2>4. SumOver(h) = Cardinality(B) - Cardinality(A)
    BY <2>1, <2>2, <2>3, DifferenceAdds
  <2> QED
    BY <2>4 DEF A, B
<1>9. ASSUME NEW model
      PROVE  Cardinality(at(model)) = Cardinality(SeenIn(model, rows, s))
  <2> DEFINE P == 1..n
             U == at(model)
             V == SeenIn(model, rows, s)
  <2>1. V \in SUBSET R
    BY DEF SeenIn, R, RunsIn
  <2>2. U = {k \in P : ids[k] \in V}
    OBVIOUS
  <2>3. IsFiniteSet(R) /\ V \in SUBSET R /\ ids \in Bijection(P, R)
    BY <1>2, <1>3, <2>1
  <2> HIDE DEF P, U, V, n, at, h, change, seen, those
  <2>4. IsFiniteSet(U) /\ Cardinality(U) = Cardinality(V)
    BY <2>2, <2>3, Matched, SMTT(30)
  <2> QED
    BY <2>4 DEF U, V
<1>10. PairedDetection(left, right, rows, s).difference = <<SumOver(Each(ids, change)), Len(ids)>>
  BY <1>1 DEF PairedDetection, ids
<1> HIDE DEF h, at, n, change
<1> QED
  BY <1>4, <1>6, <1>8, <1>9, <1>10 DEF R, n

\* What the comparison says of two models of the ablation is the difference of what
\* the ablation says of each.
LEMMA ComparisonIs ==
  ASSUME NEW c \in Comparable
  PROVE  c \in SoundComparisons
<1> DEFINE config == Configs["stage5"]
           o == Outcome["stage5"][c]
           test == TestRows(o.rows, o.parts)
           compared == ComparedRows(o)
<1>1. /\ "stage5" \in Stages /\ c \in AcceptedForAblation /\ c \in Splittable["stage5"] /\ Disjoint(o)
      /\ config.attacks \subseteq Scenarios(compared)
  BY DEF Comparable, AcceptedForAblation, Stages
<1>2. o.rows = RowsOf[c] /\ o.parts = SplitRows(RowsOf[c], config)
  <2>1. o = Trained(RowsOf[c], Baseline, config)
    BY <1>1 DEF Outcome
  <2> HIDE DEF o
  <2> QED
    BY <2>1 DEF Trained, TrainedOn
<1>3. ASSUME NEW name \in Names
      PROVE  LET t == AblationOf[name][c]
             IN  /\ t.rows = o.rows /\ t.parts = o.parts
                 /\ AblationMetrics[name][c] = Evaluate(t.forest, test)
                 /\ ComparedRows(t) = compared
  <2> DEFINE t == AblationOf[name][c]
  <2>1. t = Trained(RowsOf[c], FeatureSets[name], config)
    BY <1>1 DEF AblationOf, Names
  <2>2. AblationMetrics[name][c] = EvaluationWith(t)
    BY <1>1 DEF AblationMetrics, Names
  <2> HIDE DEF t, o
  <2>3. t.rows = o.rows /\ t.parts = o.parts
    BY <1>2, <2>1 DEF Trained, TrainedOn
  <2> QED
    BY <2>2, <2>3 DEF EvaluationWith, ComparedRows, t
<1>4. /\ IsTable(test) /\ IsTable(compared) /\ ToSet(compared) = ToSet(test)
      /\ \A V : Tally(compared, V) = Tally(test, V)
  <2> HIDE DEF o
  <2> QED
    BY <1>1, <1>2, ComparedRowsAre
<1> HIDE DEF o, test, compared
<1>5. SUFFICES ASSUME NEW l \in Names, NEW r \in Names
               PROVE  ComparisonSound(Compared(AblationOf[l][c], AblationOf[r][c]),
                                      AblationMetrics[l][c], AblationMetrics[r][c])
  BY DEF SoundComparisons
<1> DEFINE left == AblationOf[l][c].forest
           right == AblationOf[r][c].forest
           d == Compared(AblationOf[l][c], AblationOf[r][c])
           x == AblationMetrics[l][c]
           y == AblationMetrics[r][c]
<1>6. x = Evaluate(left, test) /\ y = Evaluate(right, test)
  BY <1>3
<1>7. d = ComparedOn(left, right, compared)
  BY <1>3 DEF Compared
<1> HIDE DEF left, right, d, x, y
<1>8. ASSUME NEW m \in {"precision", "recall", "f1"}
      PROVE  d.overall[m].difference = y.overall[m] - x.overall[m]
  <2>1. /\ MetricsOn(left, compared, AllWindows(compared))[m] = MetricsOn(left, test, AllWindows(test))[m]
        /\ MetricsOn(right, compared, AllWindows(compared))[m] = MetricsOn(right, test, AllWindows(test))[m]
    BY <1>4, SameRates
  <2>2. d.overall = PairedIntervals(left, right, compared)
    BY <1>7 DEF ComparedOn
  <2>3. PairedIntervals(left, right, compared)[m].difference =
          MetricsOn(right, compared, AllWindows(compared))[m]
            - MetricsOn(left, compared, AllWindows(compared))[m]
    BY DEF PairedIntervals, Metrics
  <2>4. /\ x.overall = MetricsOn(left, test, AllWindows(test))
        /\ y.overall = MetricsOn(right, test, AllWindows(test))
    BY <1>6 DEF Evaluate
  <2> QED
    BY <2>1, <2>2, <2>3, <2>4
<1>9. ASSUME NEW s \in DOMAIN d.detection
      PROVE  d.detection[s].difference =
               <<y.perScenario[s].alertedRuns - x.perScenario[s].alertedRuns, x.perScenario[s].runs>>
  <2>1. d.detection = [t \in config.attacks |-> PairedDetection(left, right, compared, t)]
    BY <1>7 DEF ComparedOn
  <2>2. d.detection[s] = PairedDetection(left, right, compared, s) /\ s \in Scenarios(compared)
    BY <1>1, <2>1
  <2>3. s \in Scenarios(test)
    BY <1>4, <2>2 DEF Scenarios
  <2>4. d.detection[s].difference =
          <<Cardinality(SeenIn(right, compared, s)) - Cardinality(SeenIn(left, compared, s)),
            Cardinality(RunsIn(compared, s))>>
    BY <1>4, <2>2, DetectionIs
  <2>5. /\ SeenIn(right, compared, s) = SeenIn(right, test, s)
        /\ SeenIn(left, compared, s) = SeenIn(left, test, s)
        /\ RunsIn(compared, s) = RunsIn(test, s)
    BY <1>4 DEF SeenIn, RunsIn
  <2>6. /\ x.perScenario = PerScenario(left, test) /\ y.perScenario = PerScenario(right, test)
    BY <1>6 DEF Evaluate
  <2>7. /\ x.perScenario[s].runs = Cardinality(RunsIn(test, s))
        /\ x.perScenario[s].alertedRuns = Cardinality(SeenIn(left, test, s))
        /\ y.perScenario[s].alertedRuns = Cardinality(SeenIn(right, test, s))
    BY <1>4, <2>3, <2>6, SummaryIs
  <2> QED
    BY <2>4, <2>5, <2>7
<1>10. ComparisonSound(d, x, y)
  BY <1>8, <1>9 DEF ComparisonSound
<1> QED
  BY <1>10 DEF d, x, y

\* No step puts metrics into another directory.
LEMMA StageNext == TypeInv /\ TrainInv /\ StageInv /\ [Next]_vars => StageInv'
<1> SUFFICES ASSUME TypeInv, TrainInv, StageInv, [Next]_vars
             PROVE  StageInv'
  OBVIOUS
<1>1. stage' = stage
  BY DEF Next, vars, Start, Write, Refuse, Interrupt, HashModel, LoadModel, WriteParity,
         StartBenchmark, WriteBenchmark, GuestEnds, Visit, GuestWrites
<1>2. host'.script = "train" => host.script = "train" \/ stage \in {"stage3", "stage4"}
  <2>1. CASE UNCHANGED vars
    BY <2>1 DEF vars
  <2>2. ASSUME NEW s \in Scripts, Start(s)
        PROVE  s = "train" => stage \in {"stage3", "stage4"}
    BY DEF Scripts, TypeInv, Stages, Ablation
  <2>3. ASSUME NEW s \in Scripts, Start(s)
        PROVE  host'.script = s
    BY <2>3, StartStep
  <2>4. CASE Write
    BY <2>4, WriteStep DEF Nothing
  <2>5. CASE Refuse
    BY <2>5, RefuseStep DEF Nothing
  <2>6. CASE Interrupt
    BY <2>6, InterruptStep DEF Nothing
  <2>7. CASE GuestReads
    BY <2>7, GuestReadsStep
  <2>8. CASE WriteParity \/ WriteBenchmark
    BY <2>8, GuestWritesStep
  <2> QED
    BY <2>1, <2>2, <2>3, <2>4, <2>5, <2>6, <2>7, <2>8 DEF Next, GuestReads
<1>3. (IsWhole("metrics"))' => IsWhole("metrics") \/ host.script = "train"
  <2>1. CASE Write /\ host.script = "train"
    BY <2>1
  <2>2. CASE ~ (Write /\ host.script = "train")
    <3>1. "metrics" \in TrainFiles
      BY DEF TrainFiles
    <3>2. disk'["metrics"] = disk["metrics"] \/ disk'["metrics"] = Torn
      BY <2>2, <3>1, NotTraining
    <3> QED
      BY <3>2 DEF IsWhole, Torn
  <2> QED
    BY <2>1, <2>2
<1> QED
  BY <1>1, <1>2, <1>3 DEF StageInv

\* Nor does a step put another collection into a comparison.
LEMMA ComparedNext == TypeInv /\ ComparedInv /\ [Next]_vars => ComparedInv'
<1> DEFINE f == "paired-bootstrap"
<1> SUFFICES ASSUME TypeInv, ComparedInv, [Next]_vars
             PROVE  ComparedInv'
  OBVIOUS
<1>1. /\ f \in Files /\ f \notin {"guest-inference-benchmark", "parity-guest"}
      /\ \A n \in Names : GuestFile(n) # f
  BY FilesAre, OwnFiles DEF FixedFiles
<1>2. CASE disk'[f] = disk[f] \/ disk'[f] = Torn
  BY <1>2 DEF ComparedInv, IsWhole, Torn
<1>3. ASSUME NEW s \in Scripts, Start(s)
      PROVE  disk' = disk
  BY <1>3, StartStep
<1>4. CASE Write
  <2>1. /\ host # Nothing /\ HostType /\ Allows(NextFile)
        /\ Changes(NextFile) /\ disk'[NextFile] = Content(NextFile)
    BY <1>4, WriteStep
  <2>2. CASE NextFile # f
    BY <1>1, <1>2, <2>1, <2>2 DEF Changes
  <2>3. CASE NextFile = f
    <3>1. host.script = "compare"
      BY <2>1, <2>3, WrittenBy
    <3>2. host.seen["feature-ablation-results"].of \in Comparable
      BY <2>1, <3>1 DEF Allows
    <3>3. Content(f) = Whole(host.seen["feature-ablation-results"].of,
                             [n \in Names |-> host.seen[ModelFile(n)]])
      BY AblationContent
    <3>4. Content(f).of = host.seen["feature-ablation-results"].of
      BY <3>3 DEF Whole
    <3> QED
      BY <2>1, <2>3, <3>2, <3>4 DEF ComparedInv
  <2> QED
    BY <2>2, <2>3
<1>5. CASE Refuse
  BY <1>2, <1>5, RefuseStep
<1>6. CASE Interrupt
  <2>1. disk' = disk \/ (Changes(NextFile) /\ disk'[NextFile] = Torn)
    BY <1>6, InterruptStep
  <2> QED
    BY <1>1, <1>2, <2>1 DEF Changes
<1>7. CASE GuestReads
  BY <1>2, <1>7, GuestReadsStep
<1>8. CASE WriteParity \/ WriteBenchmark
  <2>1. disk'[f] = disk[f]
    BY <1>1, <1>8, GuestWritesStep DEF Changes
  <2> QED
    BY <1>2, <2>1
<1>9. CASE UNCHANGED vars
  BY <1>2, <1>9 DEF vars
<1> QED
  BY <1>2, <1>3, <1>4, <1>5, <1>6, <1>7, <1>8, <1>9 DEF Next, GuestReads

\* evaluation.py, training.py and stage5-statistical-comparison.py: whatever the
\* events, the shuffles and the resamplings are, metrics that are on the disk count
\* each window once, agree with what is said by scenario and by run, and are of
\* detectors that alert on one in a hundred of the windows they are calibrated on;
\* and a comparison on the disk is the difference of what it compares.
THEOREM SoundMetrics == Spec => []MetricsAreSound
<1>1. Init => TypeInv /\ TrainInv /\ StageInv /\ ComparedInv
  <2>1. Init => StageInv /\ ComparedInv
    BY FilesAre DEF Init, StageInv, ComparedInv, IsWhole, Missing, Nothing, FixedFiles
  <2> QED
    BY <2>1, TypeInit, TrainInit
<1>2. TypeInv /\ TrainInv /\ StageInv /\ ComparedInv /\ [Next]_vars
        => (TypeInv /\ TrainInv /\ StageInv /\ ComparedInv)'
  BY TypeNext, TrainNext, StageNext, ComparedNext
<1>3. AcceptedInv /\ StageInv /\ ComparedInv => MetricsAreSound
  <2> SUFFICES ASSUME AcceptedInv, StageInv, ComparedInv
               PROVE  MetricsAreSound
    OBVIOUS
  <2>1. ASSUME IsWhole("metrics")
        PROVE  disk["metrics"].of \in SoundEvaluations[stage]
    <3> DEFINE c == disk["metrics"].of
    <3>1. c \in Sound[stage] /\ <<c, c>> \in Reproduces[stage] /\ stage \in {"stage3", "stage4"}
      BY <2>1 DEF AcceptedInv, StageInv
    <3> HIDE DEF c
    <3>2. c \in SoundEvaluations[stage]
      BY <3>1, EvaluationIs
    <3> QED
      BY <3>2 DEF c
  <2>2. ASSUME IsWhole("paired-bootstrap")
        PROVE  disk["paired-bootstrap"].of \in SoundComparisons
    BY <2>2, ComparisonIs DEF ComparedInv
  <2> QED
    BY <2>1, <2>2 DEF MetricsAreSound
<1> QED
  BY <1>1, <1>2, <1>3, OnlyAccepted, PTL DEF Spec

=============================================================================
