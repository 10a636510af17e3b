--------------------------- MODULE MCBackupDeletion ---------------------------
EXTENDS BackupDeletion
CONSTANTS MaxApi, MaxRestart, MaxDelete
AllKinds == {"api", "restart", "delete"}
Bounds == [k \in AllKinds |->
  CASE k = "api" -> MaxApi
    [] k = "restart" -> MaxRestart [] k = "delete" -> MaxDelete]
(* All requests are for one Backup.                                        *)
SameBackup == [q \in Requests |-> CHOOSE b \in Backups : TRUE]
=============================================================================
