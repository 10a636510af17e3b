CONSTANTS
  Operators = {o1}
  Backups = {b1}
  Dbs = {d1}
  Pvcs = {p1}
  NumWorkers = 1
  MaxTime = 1
  MaxApi = 1
  MaxLost = 1
  MaxRestart = 2
  MaxEdit = 1
  MaxDelete = 1
  MaxGap = 1
  MaxRelist = 1
  None = None
  Kinds <- AllKinds
  Allowed <- Bounds
  Selected <- SelectAll
SPECIFICATION Spec
CHECK_DEADLOCK FALSE
INVARIANTS CompletedHasSnapshots IInv SnapshotOnce
PROPERTIES Promised CompletedIsFinal
