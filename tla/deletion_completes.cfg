CONSTANTS
  Requests = {q1, q2}
  Backups = {b1}
  Labelled = {q1}
  Stamped = {q2}
  Snapshots = {s1, s2}
  MaxApi = 0
  MaxRestart = 0
  MaxDelete = 0
  None = None
  Kinds <- AllKinds
  Allowed <- Bounds
  Target <- SameBackup
SPECIFICATION Spec
PROPERTY CompletedWithoutErrors
