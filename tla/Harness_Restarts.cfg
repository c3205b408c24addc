\* Two runs, two starts, two durations.
SPECIFICATION LiveSpec
CONSTANTS
  N = 2
  Silent = {1}
  Monitored = {2}
  Kinds = {"detection", "performance"}
  Configs = {1}
  Durations = {1, 2}
  MaxRequests = 2
  MaxStarts = 2
  None = None
  Torn = Torn
INVARIANTS
  ResultMatchesEvidence
  CollectionComplete
  NothingLeftRunning
PROPERTIES
  ResumeKeepsResults
  EveryStartEnds
\* The harness is not started more often.
CHECK_DEADLOCK FALSE
