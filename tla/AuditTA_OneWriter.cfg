\* One writer and a reader, concurrent once the object exists.
SPECIFICATION Spec
CONSTANTS
  Sessions = {s1, s2}
  Writers = {s1}
  Keys = {k1, k2}
  Models = {m1, m2}
  Alerts = {a1, a2}
  NoModel = NoModel
  NoObject = NoObject
  NoReceipt = NoReceipt
  MaxSequence = 2
  FirstUseRace = FALSE
INVARIANTS
  TypeOK
  ReceiptsOnChain
  NoFork
  ReceiptsStayGenuine
  VerifyExact
PROPERTY
  ImplementsLog
