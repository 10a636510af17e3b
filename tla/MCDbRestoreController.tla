----------------------- MODULE MCDbRestoreController -----------------------
EXTENDS DbRestoreController, TLC
CONSTANTS Faults, Budget
AllKinds == {"api", "lost", "restart", "lapse", "edit", "delete", "sql"}
(* Each of the Faults once, and Budget of them together.                   *)
Bounds == {u \in [AllKinds -> 0 .. 1] :
             LET K == {k \in AllKinds : u[k] = 1} IN K \subseteq Faults /\ Cardinality(K) <= Budget}
OnlyDatabase == CHOOSE d \in Databases : TRUE
IntoOne == [t \in DbRestores |-> OnlyDatabase]
(* A compressed archive, plain text and compressed text.                   *)
Conf(f, z) == [engine |-> "postgresql", format |-> f, level |-> z, ignore |-> FALSE]
SomeConfigs == {Conf("", TRUE), Conf("p", TRUE)}
Symmetry == Permutations(Operators) \cup Permutations(DbRestores)
=============================================================================
