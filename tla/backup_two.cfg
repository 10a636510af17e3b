CONSTANTS
  Operators = {o1,o2}
  Backups = {b1,b2}
  Dbs = {d1}
  Pvcs = {}
  NumWorkers = 1
  MaxTime = 0
  MaxApi = 0
  MaxLost = 0
  MaxRestart = 1
  MaxEdit = 0
  MaxDelete = 0
  MaxGap = 0
  MaxRelist = 0
  None = None
  Kinds <- AllKinds
  Allowed <- Bounds
  Selected <- SelectAll
SPECIFICATION Spec
CHECK_DEADLOCK FALSE
INVARIANT FailureHasCause
