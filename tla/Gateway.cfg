\* Two connections, a backlog of one, a signal, under fairness.
SPECIFICATION LiveSpec
CONSTANTS
  Connections = {c1, c2}
  Keys = {k1}
  Values = {v1, empty}
  EmptyValue = empty
  NoValue = NoValue
  NotYet = NotYet
  NoSummary = NoSummary
  Nobody = Nobody
  Backlog = 1
  FirstCapacity = 1
  MaxSignals = 1
  TelemetryOn = TRUE
INVARIANTS
  SummaryMatchesTelemetry
  ExecutedIsAccounted
  OnlyCompleteRequestsExecute
PROPERTIES
  ImplementsKVStore
  EveryConnectionEnds
  StopsWhenSeen
\* The gateway stops.
CHECK_DEADLOCK FALSE
