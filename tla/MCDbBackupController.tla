------------------------ MODULE MCDbBackupController ------------------------
EXTENDS DbBackupController
CONSTANTS MaxApi, MaxLost, MaxRestart, MaxLapse, MaxEdit, MaxDelete
AllKinds == {"api", "lost", "restart", "lapse", "edit", "delete"}
Bounds == [k \in AllKinds |->
  CASE k = "api" -> MaxApi [] k = "lost" -> MaxLost [] k = "restart" -> MaxRestart
    [] k = "lapse" -> MaxLapse [] k = "edit" -> MaxEdit [] k = "delete" -> MaxDelete]
(* Each DbBackup has a place of its own.                                   *)
OwnSlot == [d \in DbBackups |-> d]
=============================================================================
