----------------------------- MODULE SnapshotTask -----------------------------
(***************************************************************************)
(* What whoever waits for a snapshot task (a DbBackup) relies on: once     *)
(* created it ends at most once, the outcome is kept, and it may be        *)
(* removed. "Pending" is every phase before the outcome.                   *)
(***************************************************************************)
CONSTANT Tasks
VARIABLE phase

Init == phase = [d \in Tasks |-> "Absent"]

Move(d, from, to) == phase[d] \in from /\ \E p \in to : phase' = [phase EXCEPT ![d] = p]

Create(d) == Move(d, {"Absent"}, {"Pending"})
End(d)    == Move(d, {"Pending"}, {"Completed", "Failed"})
Remove(d) == Move(d, {"Pending", "Completed", "Failed"}, {"Gone"})

Next == \E d \in Tasks : Create(d) \/ End(d) \/ Remove(d)

Spec == Init /\ [][Next]_phase
=============================================================================
