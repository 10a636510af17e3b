CONSTANTS
  Requests = {q1, q2}
  Backups = {b1}
  Labelled = {q1}
  Stamped = {q2}
  Snapshots = {s1, s2}
  MaxApi = 1
  MaxRestart = 1
  MaxDelete = 1
  None = None
  Kinds <- AllKinds
  Allowed <- Bounds
  Target <- SameBackup
SPECIFICATION FairSpec
INVARIANTS TypeOK FailureHasCause
PROPERTIES MarkedFirst SnapshotsGo
