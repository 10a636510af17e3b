------------------------ MODULE MCBackupController ------------------------
EXTENDS BackupController
CONSTANTS MaxApi, MaxLost, MaxRestart, MaxEdit, MaxDelete, MaxGap, MaxRelist
AllKinds == {"api", "lost", "restart", "edit", "delete", "gap", "relist"}
Bounds == [k \in AllKinds |->
  CASE k = "api" -> MaxApi [] k = "lost" -> MaxLost [] k = "restart" -> MaxRestart
    [] k = "edit" -> MaxEdit [] k = "delete" -> MaxDelete
    [] k = "gap" -> MaxGap [] k = "relist" -> MaxRelist]
SelectAll == [b \in Backups |-> Dbs \cup Pvcs]
=============================================================================
