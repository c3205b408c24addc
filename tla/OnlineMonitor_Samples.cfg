\* The samples of run-qemu-performance.py, which name no event_type.
SPECIFICATION Spec
CONSTANTS
  Window = 2
  Warmup = 1
  Slack = 2
  Sleep = 2
  QuietRounds = 3
  WriteDelay = 1
  ReadDelay = 1
  Drain = 2
  None = None
  MaxTime = 7
  MaxRequests = 3
  MaxSamples = 1
INVARIANT
  SamplesAreNotRequests
\* The monitor ends, and the clock is bounded.
CHECK_DEADLOCK FALSE
