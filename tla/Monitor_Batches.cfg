\* Batches that fail or are killed anywhere, a verifier that runs meanwhile.
SPECIFICATION Spec
CONSTANTS
  Keys = {k1, k2}
  Models = {m1, m2}
  Alerts = {a1, a2}
  NoModel = NoModel
  NoReceipt = NoReceipt
  MaxSequence = 3
INVARIANTS
  TypeOK
  FileFollowsChain
  NothingMissing
PROPERTY
  VerdictExact
