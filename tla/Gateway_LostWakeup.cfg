\* One connection and one signal, under fairness.
SPECIFICATION LiveSpec
CONSTANTS
  Connections = {c1}
  Keys = {k1}
  Values = {v1, empty}
  EmptyValue = empty
  NoValue = NoValue
  NotYet = NotYet
  NoSummary = NoSummary
  Nobody = Nobody
  Backlog = 1
  FirstCapacity = 1
  MaxSignals = 1
  TelemetryOn = TRUE
PROPERTY
  SigtermStops
\* The gateway stops.
CHECK_DEADLOCK FALSE
