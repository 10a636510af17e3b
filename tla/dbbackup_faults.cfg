CONSTANTS
  Operators = {o1, o2}
  DbBackups = {d1}
  Slots = {d1}
  FileSlots = {d1}
  MaxTime = 1
  MaxApi = 1
  MaxLost = 1
  MaxRestart = 1
  MaxLapse = 1
  MaxEdit = 1
  MaxDelete = 1
  None = None
  Torn = Torn
  Kinds <- AllKinds
  Allowed <- Bounds
  Slot <- OwnSlot
SPECIFICATION FairSpec
INVARIANTS DumpOnce CompletedIsStored FInv
PROPERTIES OneOutcome Started Reported
