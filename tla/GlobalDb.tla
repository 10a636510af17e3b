------------------------------ MODULE GlobalDb ------------------------------
(***************************************************************************)
(* The reconciler of GlobalDB objects (globaldb_controller.go). A new one  *)
(* gets a Job that installs its server; when the Job is done, or is there  *)
(* and thirty seconds have passed, the object is marked as existing, and   *)
(* its server is checked from then on. A pass over a new one asks for no   *)
(* other: it is the resync that brings the object back. Not registered at  *)
(* this commit.                                                            *)
(***************************************************************************)
EXTENDS Integers

CONSTANT MaxFaults   \* bound: calls that fail and edits of the object, together

VARIABLES
  gdb,      \* the object on the API server
  cached,   \* the object in the cache, and if that is its last version
  seen,     \* the object as the pass read it, likewise
  install,  \* the Job, and the Job in the cache
  listed,
  done,     \* a Job of the object has completed
  old,      \* thirty seconds have passed since the object was created
  up,       \* its server answers and takes the account
  due,      \* the key waits in the workqueue
  pc,       \* control of the worker
  faults    \* disturbances so far

vars == <<gdb, cached, seen, install, listed, done, old, up, due, pc, faults>>

-----------------------------------------------------------------------------
New == [state |-> "new", ready |-> FALSE]
Fresh(x) == [object |-> x, fresh |-> TRUE]
Spend == faults < MaxFaults /\ faults' = faults + 1

Init ==
  /\ gdb = New /\ cached = Fresh(New) /\ seen = Fresh(New)
  /\ install = "none" /\ listed = "none" /\ done = FALSE /\ old = FALSE /\ up = FALSE
  /\ due = TRUE /\ pc = "idle" /\ faults = 0

(* Every write makes the copies old.                                       *)
Write(x) ==
  /\ gdb' = x
  /\ cached' = [cached EXCEPT !.fresh = FALSE]
  /\ seen' = [seen EXCEPT !.fresh = FALSE]

-----------------------------------------------------------------------------
(* The world: the Job, time, the server, users, and the informers. A Job   *)
(* is removed two minutes after its end.                                   *)
JobMoves ==
  /\ \/ install = "running" /\ install' \in {"complete", "failed"}
     \/ install \in {"complete", "failed"} /\ install' = "none"
  /\ done' = (done \/ install' = "complete")
  /\ UNCHANGED <<gdb, cached, seen, listed, old, up, due, pc, faults>>

Age ==
  /\ ~old /\ old' = TRUE
  /\ UNCHANGED <<gdb, cached, seen, install, listed, done, up, due, pc, faults>>

ServerMoves ==
  /\ up' = ~up
  /\ UNCHANGED <<gdb, cached, seen, install, listed, done, old, due, pc, faults>>

Edit ==
  /\ Spend /\ Write(gdb)
  /\ UNCHANGED <<install, listed, done, old, up, due, pc>>

Deliver ==
  /\ ~cached.fresh
  /\ cached' = Fresh(gdb) /\ due' = TRUE
  /\ UNCHANGED <<gdb, seen, install, listed, done, old, up, pc, faults>>

DeliverJob ==
  /\ listed # install /\ listed' = install
  /\ UNCHANGED <<gdb, cached, seen, install, done, old, up, due, pc, faults>>

Resync ==
  /\ due' = TRUE
  /\ UNCHANGED <<gdb, cached, seen, install, listed, done, old, up, pc, faults>>

-----------------------------------------------------------------------------
Take ==
  /\ pc = "idle" /\ due
  /\ due' = FALSE
  /\ seen' = cached
  /\ pc' = IF cached.object.state = "new" THEN "job" ELSE "check"
  /\ UNCHANGED <<gdb, cached, install, listed, done, old, up, faults>>

(* getGDBReadyAndDelaytime, with the Job that the cache or Create returned.*)
MutIsDue(j) == j = "complete"
IsDue(j) == j = "complete" \/ old
GoOn(j) == pc' = IF IsDue(j) THEN "mark" ELSE "idle"

(* checkOrCreateGDBJob: errors are printed; the pass ends. A Job that the  *)
(* cache does not show yet cannot be created again.                        *)
CreateJob ==
  /\ pc = "job" /\ listed = "none"
  /\ \/ install = "none" /\ install' = "running" /\ GoOn("running") /\ UNCHANGED faults
     \/ install = "none" /\ install' \in {"none", "running"} /\ Spend /\ pc' = "idle"
     \/ install # "none" /\ UNCHANGED <<install, faults>> /\ pc' = "idle"
  /\ UNCHANGED <<gdb, cached, seen, listed, done, old, up, due>>

LookAtJob ==
  /\ pc = "job" /\ listed # "none"
  /\ \/ GoOn(listed) /\ UNCHANGED faults
     \/ Spend /\ pc' = "idle"
  /\ UNCHANGED <<gdb, cached, seen, install, listed, done, old, up, due>>

(* updateGDB; a conflict or another error is printed.                      *)
Mark ==
  /\ pc = "mark"
  /\ \/ seen.fresh /\ Write([gdb EXCEPT !.state = "exist"]) /\ UNCHANGED faults
     \/ (IF seen.fresh THEN Spend ELSE UNCHANGED faults) /\ UNCHANGED <<gdb, cached, seen>>
  /\ pc' = "idle"
  /\ UNCHANGED <<install, listed, done, old, up, due>>

(* updateGDBStatus, which goes on every few seconds. An error brings the   *)
(* key back too.                                                           *)
Check ==
  /\ pc = "check"
  /\ \/ /\ seen.fresh /\ UNCHANGED faults
        /\ IF gdb.ready = up THEN UNCHANGED <<gdb, cached, seen>> ELSE Write([gdb EXCEPT !.ready = up])
     \/ (IF seen.fresh THEN Spend ELSE UNCHANGED faults) /\ UNCHANGED <<gdb, cached, seen>>
  /\ pc' = "idle" /\ due' = TRUE
  /\ UNCHANGED <<install, listed, done, old, up>>

-----------------------------------------------------------------------------
Reconcile == Take \/ CreateJob \/ LookAtJob \/ Mark \/ Check

Next == Reconcile \/ JobMoves \/ Age \/ ServerMoves \/ Edit \/ Deliver \/ DeliverJob \/ Resync

(* The worker, the informers and their resync, and time go on.             *)
Fairness ==
  /\ WF_vars(Reconcile) /\ WF_vars(Resync) /\ WF_vars(Age)
  /\ WF_vars(Deliver) /\ WF_vars(DeliverJob)

Spec == Init /\ [][Next]_vars /\ Fairness

-----------------------------------------------------------------------------
(* If the server stays up, the object comes to be marked as existing and as*)
(* ready, and stays so: though passes over a new object ask for no other,  *)
(* its errors are only printed, Jobs fail and are removed, and what a pass *)
(* reads of the object and of its Job may be old.                          *)
ComesUp == <>[]up => <>[](gdb = [state |-> "exist", ready |-> TRUE])
=============================================================================
