\* Windows, slack and pauses of two units: delays of one unit each are in time.
SPECIFICATION Spec
CONSTANTS
  Window = 2
  Warmup = 1
  Slack = 2
  Sleep = 2
  QuietRounds = 3
  WriteDelay = 1
  ReadDelay = 1
  Drain = 2
  None = None
  MaxTime = 7
  MaxRequests = 3
  MaxSamples = 1
INVARIANTS
  TypeOK
  RowsExact
  EveryRequestScored
  PassMeansWritten
  ChainInOrder
\* The monitor ends, and the clock is bounded.
CHECK_DEADLOCK FALSE
