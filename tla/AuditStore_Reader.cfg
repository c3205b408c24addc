\* A writer, and a process that may have loaded the file earlier.
SPECIFICATION Spec
CONSTANTS
  Processes = {p1, p2}
  Writers = {p1}
  Keys = {k1, k2}
  Models = {m1, m2}
  Alerts = {a1, a2}
  NoModel = NoModel
  NoReceipt = NoReceipt
  NoFile = NoFile
  Incomplete = Incomplete
  MaxSequence = 2
INVARIANTS
  TypeOK
  ReceiptsStored
  ValidIsStored
  ValidExact
PROPERTY
  ImplementsLog
