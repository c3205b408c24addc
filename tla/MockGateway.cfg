\* Two gateways one after the other, five calls; one connection can wait (Backlog + 1).
SPECIFICATION LiveSpec
CONSTANTS
  Runs = 2
  MaxCalls = 5
  Backlog = 0
  Keys = {k1, absent}
  Values = {v1}
  Absent = absent
  Scenarios = {"steady", "malformed"}
  NoValue = NoValue
  NotYet = NotYet
  Nobody = Nobody
INVARIANTS
  OneLineToACall
  HarvestComplete
PROPERTIES
  ImplementsKVStore
  ExperimentEnds
\* The experiment ends.
CHECK_DEADLOCK FALSE
