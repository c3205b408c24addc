\* Scripts interrupted and started again while the guest verifies.
SPECIFICATION Spec
CONSTANTS
  Window = 4
  Warmup = 2
  Permutation <- MCPermutation
  Draws <- MCDraws
  Collections <- MCCollections
  Measurements <- MCMeasurements
  Configs <- MCConfigs
  Baseline <- MCBaseline
  FeatureSets <- MCFeatureSets
  Repeats = 2
  RunsRequired = 2
  MaxStarts <- MCMaxStarts
  MaxVisits <- MCMaxVisits
  MaxInterrupts = 1
INVARIANTS
  FinalNamesVerifiedModel
  SummaryVouches
  AblationIsOfOneModel
  FeaturesAccountForRequests
  MetricsAreSound
CHECK_DEADLOCK FALSE
