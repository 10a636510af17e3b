---------------------------- MODULE BackupDeletion ----------------------------
(***************************************************************************)
(* The reconciler of DeleteBackupRequest objects                           *)
(* (backup_delete_controller.go): it removes other requests for the same   *)
(* Backup, marks the Backup, forgets its restic snapshots and reports.     *)
(*                                                                         *)
(* What follows the test of the snapshot errors in the source is not       *)
(* modelled because it is never reached: the list of errors is made, hence *)
(* never nil, so every pass ends in updateStatusToFailed, where an empty   *)
(* list becomes a nil error that is dereferenced. The panic ends the       *)
(* process: controller-runtime does not recover it.                        *)
(*                                                                         *)
(* The Backups are ones whose run is over ("Present" is Completed or       *)
(* Failed), so that the reconciler is the only one that writes them.       *)
(***************************************************************************)
EXTENDS Integers, FiniteSets

CONSTANTS
  Requests,    \* names of DeleteBackupRequest objects
  Backups,     \* names of Backup objects
  Target,      \* Target[q]: spec.backupName
  Labelled,    \* those created with velero's label of their Backup, which the
               \* reconciler selects by (velero.io/backup-name)
  Stamped,     \* those created with the operator's own label, which it sets
               \* (easycorp.io/backup_name)
  Snapshots,   \* snapshots that the PodVolumeBackups of a Backup record
  Kinds, Allowed,   \* kinds of disturbance, and the bound on each
  None

ASSUME TargetAssumption == Target \in [Requests -> Backups]
ASSUME LabelledAssumption == Labelled \subseteq Requests
ASSUME StampedAssumption == Stamped \subseteq Requests
ASSUME KindsAssumption == {"api", "restart", "delete"} \subseteq Kinds
ASSUME AllowedAssumption == Allowed \in [Kinds -> Nat]
ASSUME NoneAssumption == None \notin Requests

VARIABLES
  req,       \* req[q]: phase of the request on the API server
  labels,    \* the requests that carry the operator's label of their Backup
  old,       \* requests made at least 24 hours ago
  bk,        \* bk[b]: the Backup on the API server
  snaps,     \* snaps[b]: its snapshots in the restic repository
  cacheReq, cacheBk,   \* both as the cache of the process has them
  queued,    \* keys waiting in the workqueue
  run,       \* control of the only worker
  used       \* used[k]: disturbances of kind k so far

serverVars == <<req, labels, old, bk, snaps>>
cacheVars  == <<cacheReq, cacheBk>>
vars == <<req, labels, old, bk, snaps, cacheReq, cacheBk, queued, run, used>>

-----------------------------------------------------------------------------
ReqPhase == {"Absent", "New", "InProgress", "Completed", "Failed", "Gone"}
BkPhase  == {"Absent", "Present", "Deleting", "Gone"}
NoObject == {"Absent", "Gone"}

RunRec  == [pc : {"idle", "purge", "find", "mark", "forget", "fail"},
            item : Requests \cup {None}, phase : ReqPhase,
            left : SUBSET Snapshots, err : BOOLEAN]
IdleRun == [pc |-> "idle", item |-> None, phase |-> "Absent", left |-> {}, err |-> FALSE]
Item == run.item
Bk   == Target[Item]

Spend(k) == used[k] < Allowed[k] /\ used' = [used EXCEPT ![k] = @ + 1]
Goto(p) == run' = [run EXCEPT !.pc = p]
EndRun  == run' = IdleRun
MutRequeue == queued' = queued \cup {IdleRun.item}
Requeue == queued' = queued \cup {Item}

TypeOK ==
  /\ req \in [Requests -> ReqPhase] /\ cacheReq \in [Requests -> ReqPhase]
  /\ bk \in [Backups -> BkPhase] /\ cacheBk \in [Backups -> BkPhase]
  /\ labels \subseteq Requests /\ old \subseteq Requests
  /\ snaps \in [Backups -> SUBSET Snapshots]
  /\ queued \subseteq Requests
  /\ run \in RunRec
  /\ used \in [Kinds -> Nat]

Init ==
  /\ req = [q \in Requests |-> "Absent"] /\ cacheReq = req
  /\ bk = [b \in Backups |-> "Absent"] /\ cacheBk = bk
  /\ labels = {} /\ old = {} /\ queued = {}
  /\ snaps = [b \in Backups |-> {}]
  /\ run = IdleRun
  /\ used = [k \in Kinds |-> 0]

-----------------------------------------------------------------------------
(* Users, time, and the caches.                                            *)
CreateBackup(b) ==
  /\ bk[b] = "Absent"
  /\ bk' = [bk EXCEPT ![b] = "Present"]
  /\ snaps' = [snaps EXCEPT ![b] = Snapshots]
  /\ UNCHANGED <<req, labels, old, cacheVars, queued, run, used>>

DeleteBackup(b) ==
  /\ bk[b] \notin NoObject /\ Spend("delete")
  /\ bk' = [bk EXCEPT ![b] = "Gone"]
  /\ UNCHANGED <<req, labels, old, snaps, cacheVars, queued, run>>

CreateRequest(q) ==
  /\ req[q] = "Absent"
  /\ req' = [req EXCEPT ![q] = "New"]
  /\ labels' = IF q \in Stamped THEN labels \cup {q} ELSE labels
  /\ UNCHANGED <<old, bk, snaps, cacheVars, queued, run, used>>

(* The age of a request only matters once it is Completed.                 *)
Age(q) ==
  /\ "Completed" \in {req[q], cacheReq[q]} /\ q \notin old
  /\ old' = old \cup {q}
  /\ UNCHANGED <<req, labels, bk, snaps, cacheVars, queued, run, used>>

Deliver(q) ==
  /\ cacheReq[q] # req[q]
  /\ cacheReq' = [cacheReq EXCEPT ![q] = req[q]]
  /\ queued' = queued \cup {q}
  /\ UNCHANGED <<serverVars, cacheBk, run, used>>

DeliverBackup(b) ==
  /\ cacheBk[b] # bk[b]
  /\ cacheBk' = [cacheBk EXCEPT ![b] = bk[b]]
  /\ UNCHANGED <<serverVars, cacheReq, queued, run, used>>

(* Every fifteen minutes all requests are queued, and after a restart,     *)
(* when the caches have been filled anew.                                  *)
Known(phases) == {q \in Requests : phases[q] \notin NoObject}

Enqueue ==
  /\ queued' = queued \cup Known(cacheReq)
  /\ UNCHANGED <<serverVars, cacheVars, run, used>>

Reboot ==
  /\ run' = IdleRun
  /\ cacheReq' = req /\ cacheBk' = bk
  /\ queued' = Known(req)

Restart == Reboot /\ Spend("restart") /\ UNCHANGED serverVars

-----------------------------------------------------------------------------
(* Reconcile.                                                              *)
Take(q) == run.pc = "idle" /\ q \in queued /\ queued' = queued \ {q}

MutIsDone(q) == cacheReq[q] \in {"Completed", "InProgress"}
IsDone(q) == cacheReq[q] = "Completed"

Skip(q) ==
  /\ Take(q)
  /\ cacheReq[q] \in NoObject \/ (IsDone(q) /\ q \notin old)
  /\ UNCHANGED <<serverVars, cacheVars, run, used>>

(* An error of the deletion is only logged.                                *)
RemoveExpired(q) ==
  /\ Take(q)
  /\ IsDone(q) /\ q \in old
  /\ \/ req' = [req EXCEPT ![q] = "Gone"] /\ UNCHANGED used
     \/ UNCHANGED req /\ Spend("api")
  /\ UNCHANGED <<labels, old, bk, snaps, cacheVars, run>>

Begin(q) ==
  /\ Take(q)
  /\ cacheReq[q] \notin NoObject /\ ~IsDone(q)
  /\ run' = [IdleRun EXCEPT !.pc = "purge", !.item = q, !.phase = cacheReq[q]]
  /\ UNCHANGED <<serverVars, cacheVars, used>>

(* deleteExistingDeletionRequests: the other requests for the Backup that  *)
(* the cache has under velero's label. One that cannot be deleted, because *)
(* it is gone already or the call fails, ends the pass.                    *)
Others ==
  {q \in Labelled \ {Item} : cacheReq[q] \notin NoObject /\ Target[q] = Bk}

Purge ==
  /\ run.pc = "purge"
  /\ LET there == {q \in Others : req[q] \notin NoObject} IN
     \E done \in SUBSET there :
       /\ IF done = there THEN UNCHANGED used ELSE Spend("api")
       /\ req' = [q \in Requests |-> IF q \in done THEN "Gone" ELSE req[q]]
       /\ IF done = Others THEN Goto("find") /\ UNCHANGED queued
                           ELSE EndRun /\ Requeue
  /\ UNCHANGED <<labels, old, bk, snaps, cacheVars>>

(* A merge patch of the status, which holds the phase only if the object   *)
(* had another one; the answer brings the phase of the server. The         *)
(* operator's label that goes with it is not stored. A call that fails may *)
(* have been carried out.                                                  *)
Report(p) == IF run.phase = p THEN UNCHANGED req ELSE req' = [req EXCEPT ![Item] = p]
Reported(p) == req[Item] \notin NoObject /\ Report(p) /\ UNCHANGED used
NotReported(p) ==
  IF req[Item] \in NoObject THEN UNCHANGED <<req, used>>
                            ELSE (UNCHANGED req \/ Report(p)) /\ Spend("api")
Hold(pc, p) == run' = [run EXCEPT !.pc = pc, !.phase = p]

(* No Backup in the cache: the request is done.                            *)
FindNone ==
  /\ run.pc = "find" /\ cacheBk[Bk] \in NoObject
  /\ \/ Reported("Completed") /\ EndRun
     \/ NotReported("Completed") /\ Hold("fail", "Completed")
  /\ UNCHANGED <<labels, old, bk, snaps, cacheVars, queued>>

Find ==
  /\ run.pc = "find" /\ cacheBk[Bk] \notin NoObject
  /\ \/ Reported("InProgress") /\ Hold("mark", req'[Item])
     \/ NotReported("InProgress") /\ Hold("fail", "InProgress")
  /\ UNCHANGED <<labels, old, bk, snaps, cacheVars, queued>>

(* updateBackupStatusToDeleting, then the list of PodVolumeBackups.        *)
MutMarkFailed == run' = [run EXCEPT !.pc = "forget", !.left = Snapshots]
MarkFailed == Goto("fail")

Mark ==
  /\ run.pc = "mark"
  /\ \/ /\ bk[Bk] \notin NoObject
        /\ bk' = [bk EXCEPT ![Bk] = "Deleting"]
        /\ run' = [run EXCEPT !.pc = "forget", !.left = Snapshots]
        /\ UNCHANGED used
     \/ /\ IF bk[Bk] \in NoObject THEN UNCHANGED used ELSE Spend("api")
        /\ MarkFailed
        /\ UNCHANGED bk
  /\ UNCHANGED <<req, labels, old, snaps, cacheVars, queued>>

(* The list of PodVolumeBackups may fail too; it counts as an error.       *)
ListFails ==
  /\ run.pc = "forget" /\ run.left = Snapshots /\ ~run.err
  /\ Spend("api")
  /\ Goto("fail")
  /\ UNCHANGED <<serverVars, cacheVars, queued>>

(* restic forget does not fail on a snapshot that is not there.            *)
MutForgotten(s) == s \in snaps[Bk]
Forgotten(s) == TRUE

Forget ==
  /\ run.pc = "forget"
  /\ \E s \in run.left :
       \/ /\ Forgotten(s)
          /\ snaps' = [snaps EXCEPT ![Bk] = @ \ {s}]
          /\ run' = [run EXCEPT !.left = @ \ {s}]
          /\ UNCHANGED used
       \/ /\ IF Forgotten(s) THEN Spend("api") ELSE UNCHANGED used
          /\ run' = [run EXCEPT !.left = @ \ {s}, !.err = TRUE]
          /\ UNCHANGED snaps
  /\ UNCHANGED <<req, labels, old, bk, cacheVars, queued>>

(* errs is never nil: with errors the request fails, without them the      *)
(* process does.                                                           *)
Panic ==
  /\ run.pc = "forget" /\ run.left = {} /\ ~run.err
  /\ Reboot
  /\ UNCHANGED <<serverVars, used>>

SomeFailed ==
  /\ run.pc = "forget" /\ run.left = {} /\ run.err
  /\ Goto("fail")
  /\ UNCHANGED <<serverVars, cacheVars, queued, used>>

(* updateStatusToFailed.                                                   *)
Fail ==
  /\ run.pc = "fail"
  /\ \/ Reported("Failed") /\ UNCHANGED queued
     \/ NotReported("Failed") /\ Requeue
  /\ EndRun
  /\ UNCHANGED <<labels, old, bk, snaps, cacheVars>>

-----------------------------------------------------------------------------
Taking(q) == Skip(q) \/ RemoveExpired(q) \/ Begin(q)
Working ==
  \/ Purge \/ FindNone \/ Find \/ Mark \/ ListFails \/ Forget
  \/ Panic \/ SomeFailed \/ Fail

Next ==
  \/ \E b \in Backups : CreateBackup(b) \/ DeleteBackup(b) \/ DeliverBackup(b)
  \/ \E q \in Requests : CreateRequest(q) \/ Age(q) \/ Deliver(q) \/ Taking(q)
  \/ Enqueue \/ Restart \/ Working

Spec == Init /\ [][Next]_vars

(* The queue is first in, first out; the worker goes on with its key, the  *)
(* watch delivers, the period passes.                                      *)
FairSpec ==
  /\ Spec
  /\ WF_vars(Working) /\ WF_vars(Enqueue)
  /\ \A q \in Requests : SF_vars(Taking(q)) /\ WF_vars(Deliver(q))

-----------------------------------------------------------------------------
(* A snapshot is forgotten only once readers of its Backup can see that it *)
(* is being deleted, whichever calls fail and wherever the process stops.  *)
MarkedFirst ==
  [][\A b \in Backups : snaps[b]' \in {snaps[b], Snapshots} \/ bk[b] \in {"Deleting", "Gone"}]_vars

(* A request is Failed only because a call failed or the Backup was gone,  *)
(* although each pass is repeated, on snapshots forgotten before.          *)
FailureHasCause ==
  (\E q \in Requests : req[q] = "Failed") =>
    \E k \in {"api", "delete"} : used[k] > 0

(* The snapshots of a Backup that was known when the request came are      *)
(* forgotten in the end, across crashes and failed passes: these are       *)
(* repeated until a pass forgets them all.                                 *)
SnapshotsGo ==
  \A q \in Requests :
    req[q] = "New" /\ q \notin Labelled /\ cacheBk[Target[q]] # "Absent"
      ~> snaps[Target[q]] = {} \/ bk[Target[q]] = "Gone"

(* "If no errors, update status phase to complete, remove the backup": a   *)
(* pass over the snapshots that met no error completes the request.        *)
CompletedWithoutErrors ==
  [][run.pc = "forget" /\ run.left = {} /\ ~run.err /\ run' # run
       => req'[Item] = "Completed"]_vars

(* "Update status to InProgress and set backup-name [...] label if         *)
(* needed": a request being processed carries the operator's label.        *)
InProgressIsLabelled ==
  \A q \in Requests : req[q] = "InProgress" => q \in labels
=============================================================================
