CONSTANTS
  Operators = {o1}
  Backups = {b1,b2}
  Dbs = {d1,d2}
  Pvcs = {p1}
  NumWorkers = 1
  MaxTime = 0
  MaxApi = 0
  MaxLost = 0
  MaxRestart = 1
  MaxEdit = 0
  MaxDelete = 0
  MaxGap = 1
  MaxRelist = 0
  None = None
  Kinds <- AllKinds
  Allowed <- Bounds
  Selected <- SelectAll
SPECIFICATION FairSpec
CHECK_DEADLOCK FALSE
INVARIANT CompletedHasSnapshots
PROPERTIES HandlerReturns ReportedInTime
