CONSTANTS
  Operators = {o1, o2}
  Restores = {r1}
  Backups = {b1}
  d1 = d1
  v1 = v1
  sd = sd
  se = se
  sv = sv
  Dbs = {d1}
  Pvcs = {v1}
  Snapshots = {sd, sv}
  NumWorkers = 1
  MaxTime = 1
  Faults = {"api", "lost", "restart", "edit", "delete", "gap"}
  Budget = 2
  None = None
  Kinds <- AllKinds
  Allowed <- Bounds
  Source <- SourceOf
  Selected <- SelectAll
  Of <- SnapshotOf
  From <- FromOne
SPECIFICATION Spec
CHECK_DEADLOCK FALSE
INVARIANTS CompletedIsRestored IInv
PROPERTIES OneOutcome
SYMMETRY Symmetry
