----------------------------- MODULE EvidenceMC -----------------------------
(***************************************************************************)
(* A small instance of Evidence for TLC: fifteen runs of three scenarios,   *)
(* six collections of them and two measurements, some of which a script     *)
(* must refuse.                                                            *)
(***************************************************************************)
EXTENDS Evidence, TLC

Runs == 1 .. 15

\* In the order of their names.
ScenarioOf(r) == IF r <= 5 THEN "bursty" ELSE IF r <= 10 THEN "flood" ELSE "steady"

IsAttack(r) == ScenarioOf(r) = "flood"

\* The requests of a run, by the ticks since it began.
Shape ==
  [calm   |-> << <<0, "PUT">>, <<1, "GET">>, <<2, "PUT">>, <<3, "GET">>, <<6, "PUT">> >>,
   busy   |-> << <<0, "PUT">>, <<2, "GET">>, <<2, "PUT">>, <<3, "REJECT">>, <<5, "GET">>, <<7, "PUT">> >>,
   slow   |-> << <<0, "GET">>, <<4, "PUT">>, <<9, "GET">> >>,
   short  |-> << <<0, "PUT">>, <<1, "PUT">> >>,
   attack |-> << <<2, "PUT">>, <<0, "PUT">>, <<3, "PUT">>, <<3, "PUT">>, <<4, "PUT">>, <<5, "PUT">>,
                 <<5, "PUT">>, <<6, "PUT">> >>]

RequestsOf(r, shape, marked) ==
  [i \in DOMAIN Shape[shape] |->
     LET tick == Shape[shape][i][1]
         op == Shape[shape][i][2]
     IN  [kind |-> IF i = 1 THEN "unmarked" ELSE "request", run |-> r,
          scenario |-> ScenarioOf(r), attack |-> IsAttack(r), ts |-> 10 * r + tick, op |-> op,
          ok |-> op # "REJECT" /\ tick # 6,
          key |-> IF marked THEN "key" ELSE "",
          body |-> CASE ~ marked -> ""
                     [] shape = "attack" -> "same"
                     [] shape = "calm"   -> ToString((i + 1) \div 2)
                     [] OTHER            -> ToString(i),
          lat |-> tick % 2, cpu |-> 0]]

SamplesOf(r) ==
  [i \in 1 .. 3 |->
     [kind |-> "resource", run |-> r, scenario |-> ScenarioOf(r), attack |-> IsAttack(r),
      ts |-> 10 * r + 7 * (i - 1), op |-> "", ok |-> TRUE, key |-> "", body |-> "", lat |-> 0,
      cpu |-> i]]

Collection(shapes, status(_), resources(_), marked) ==
  [requests  |-> [r \in Runs |-> RequestsOf(r, shapes[r], marked)],
   resources |-> [r \in Runs |-> SamplesOf(r)],
   results   |-> {[run |-> r, scenario |-> ScenarioOf(r), status |-> status(r),
                   requests |-> Len(Shape[shapes[r]]), resources |-> resources(r)] : r \in Runs}]

Passed(r) == "PASS"

Sampled(r) == 3

\* Run 6 is an attack that does not show.
Mixed == [r \in Runs |-> IF IsAttack(r) THEN IF r = 6 THEN "calm" ELSE "attack"
                         ELSE IF r % 3 = 0 THEN "slow" ELSE IF r <= 5 THEN "busy" ELSE "calm"]

Plain == [r \in Runs |-> IF IsAttack(r) THEN "attack" ELSE IF r % 2 = 0 THEN "slow" ELSE "calm"]

Busy == [r \in Runs |-> IF IsAttack(r) THEN IF r = 8 THEN "slow" ELSE "attack"
                        ELSE IF r = 12 THEN "calm" ELSE "busy"]

MCCollections ==
  <<Collection(Mixed, Passed, Sampled, TRUE),
    Collection([Mixed EXCEPT ![6] = "attack"], Passed, Sampled, TRUE),
    Collection(Busy, Passed, Sampled, FALSE),
    Collection(Mixed, LAMBDA r : IF r = 3 THEN "FAIL" ELSE "PASS", Sampled, TRUE),
    Collection(Plain, Passed, LAMBDA r : IF r = 3 THEN 0 ELSE 3, TRUE),
    Collection([Plain EXCEPT ![2] = "short"], Passed, Sampled, TRUE)>>

Result(c, i) ==
  [configuration |-> c, repeat |-> i, status |-> "PASS", telemetry |-> c # "gateway_only",
   monitored |-> c \in {"telemetry_iforest", "telemetry_iforest_audit_ta"},
   alerts |-> IF c = "telemetry_iforest_audit_ta" THEN 2 ELSE 0, requests |-> 10 + i, rps |-> 5 - i]

Design == {Result(c, i) : c \in Configurations, i \in 0 .. 1}

With(old, new) == (Design \ {old}) \cup {new}

Audited == Result("telemetry_iforest_audit_ta", 1)

MCMeasurements == <<With(Audited, [Audited EXCEPT !.alerts = 0]), Design>>

Settings(stratify, formal) ==
  [benign |-> {"steady", "bursty"}, attacks |-> {"flood"}, repeats |-> 5,
   stratify |-> stratify, formal |-> formal]

MCConfigs == [stage3 |-> Settings(FALSE, FALSE), stage4 |-> Settings(TRUE, TRUE),
              stage5 |-> Settings(TRUE, FALSE)]

MCMaxStarts == [stage3 |-> 3, stage4 |-> 4, stage5 |-> 4]

MCMaxVisits == [stage3 |-> 2, stage4 |-> 1, stage5 |-> 3]

MCBaseline == <<"request_rate", "error_ratio">>

MCFeatureSets == [base12 |-> <<"request_rate", "error_ratio">>,
                  enhanced18 |-> <<"request_rate", "error_ratio", "request_reuse_ratio">>]

\* Some order for each seed: rotations.
MCPermutation ==
  [seed \in {"all", "steady", "bursty"} |->
     [n \in Runs |-> [k \in 1 .. n |->
        1 + ((k + (CASE seed = "all" -> 3 [] seed = "steady" -> 1 [] OTHER -> 2)) % n)]]]

MCDraws == <<[k \in Runs |-> 3 * k], [k \in Runs |-> 2 * k + 1], [k \in Runs |-> k * k],
             [k \in Runs |-> 11]>>

=============================================================================
