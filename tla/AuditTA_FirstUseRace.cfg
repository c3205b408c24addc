\* A reader that races the writer on an empty secure storage.
SPECIFICATION Spec
CONSTANTS
  Sessions = {s1, s2}
  Writers = {s1}
  Keys = {k1, k2}
  Models = {m1, m2}
  Alerts = {a1, a2}
  NoModel = NoModel
  NoObject = NoObject
  NoReceipt = NoReceipt
  MaxSequence = 2
  FirstUseRace = TRUE
INVARIANT
  ReceiptsStayGenuine
