---------------------------- MODULE BackupPromise ----------------------------
(***************************************************************************)
(* What the phase of a Backup promises to those who read it, with any      *)
(* number of processes, crashes and lost calls behind it: it is Completed  *)
(* only once every selected target has been saved for it, saved targets    *)
(* stay saved, and it never becomes new again.                             *)
(***************************************************************************)
CONSTANTS Backups, Targets, Selected
VARIABLES
  phase,   \* phase[b]: what the API server shows
  saved    \* saved[b]: the targets with a completed snapshot of b

Init ==
  /\ phase = [b \in Backups |-> "Absent"]
  /\ saved = [b \in Backups |-> {}]

Create(b) ==
  /\ phase[b] = "Absent"
  /\ phase' = [phase EXCEPT ![b] = "New"]
  /\ UNCHANGED saved

Save(b, t) ==
  /\ phase[b] # "Absent"
  /\ saved' = [saved EXCEPT ![b] = @ \cup {t}]
  /\ UNCHANGED phase

Complete(b) ==
  /\ phase[b] # "Absent"
  /\ Selected[b] \subseteq saved[b]
  /\ phase' = [phase EXCEPT ![b] = "Completed"]
  /\ UNCHANGED saved

(* Failed and Deleting may overwrite any phase: both are blind patches.    *)
Overwrite(b) ==
  /\ phase[b] # "Absent"
  /\ \E p \in {"Failed", "Deleting"} : phase' = [phase EXCEPT ![b] = p]
  /\ UNCHANGED saved

Next ==
  \E b \in Backups :
    \/ Create(b) \/ Complete(b) \/ Overwrite(b)
    \/ \E t \in Targets : Save(b, t)

Spec == Init /\ [][Next]_<<phase, saved>>
=============================================================================
