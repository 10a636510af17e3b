------------------------ MODULE MCRestoreController ------------------------
EXTENDS RestoreController, TLC
CONSTANTS d1, v1, sd, se, sv, Faults, Budget
AllKinds == {"api", "lost", "restart", "edit", "delete", "gap", "lag"}
(* Each of the Faults once, and Budget of them together.                   *)
Bounds == {u \in [AllKinds -> 0 .. 1] :
             LET K == {k \in AllKinds : u[k] = 1} IN K \subseteq Faults /\ Cardinality(K) <= Budget}
(* One Backup of a database and a volume; its run was repeated, so that    *)
(* there may be two snapshots of the database.                             *)
OnlyBackup == CHOOSE b \in Backups : TRUE
SourceOf   == [r \in Restores |-> OnlyBackup]
SelectAll  == [b \in Backups |-> Dbs \cup Pvcs]
SnapshotOf == [s \in Snapshots |-> IF s = sv THEN v1 ELSE d1]
FromOne    == [s \in Snapshots |-> OnlyBackup]
Symmetry == Permutations(Operators)
=============================================================================
