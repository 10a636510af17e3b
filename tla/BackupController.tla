-------------------------- MODULE BackupController --------------------------
(***************************************************************************)
(* The controller of Backup objects: controllers/qucheng/backup_controller *)
(* with the generic controller it embeds and the two backuppers it drives  *)
(* (pkg/db and pkg/volume), run by one or several operator processes       *)
(* against one API server.                                                 *)
(*                                                                         *)
(* A run of a Backup creates one snapshot task per target (a DbBackup for  *)
(* each Db, then a PodVolumeBackup for each PVC), waits for the tasks of a *)
(* stage to be reported by a watch, and writes the outcome in the Backup.  *)
(* The data kept is what the outcome depends on: phases, versions, which   *)
(* task belongs to which Backup, and who still waits for what.             *)
(***************************************************************************)
EXTENDS Integers, Sequences, FiniteSets

CONSTANTS
  Operators,    \* operator processes (more than one during a rolling update)
  Backups,      \* names of Backup objects
  Dbs, Pvcs,    \* what a Backup can select
  Selected,     \* Selected[b]: the Dbs and Pvcs the selector of b matches
  NumWorkers,   \* workers of the controller in each process
  MaxTime,      \* bound: the seconds of the clock that task names are made of
  Kinds,        \* kinds of disturbance that are bounded (see Spend)
  Allowed,      \* Allowed[k]: bound on the disturbances of kind k
  None          \* the owner of a task that does not exist

Targets == Dbs \cup Pvcs

ASSUME SelectedAssumption == Selected \in [Backups -> SUBSET Targets]
ASSUME OperatorsAssumption == IsFiniteSet(Operators)
ASSUME TargetsAssumption  == Dbs \cap Pvcs = {}
ASSUME NumWorkersAssumption == NumWorkers \in Nat \ {0}
ASSUME MaxTimeAssumption  == MaxTime \in Nat
ASSUME AllowedAssumption  == Allowed \in [Kinds -> Nat]
ASSUME KindsAssumption ==
         {"api", "lost", "restart", "edit", "delete", "gap", "relist"} \subseteq Kinds
ASSUME NoneAssumption     == None \notin Backups

VARIABLES
  versions,   \* versions[b]: the phases b went through on the API server; the
              \* resource version of b is the length ("New" stands for "" too)
  tasks,      \* tasks[n]: the DbBackup or PodVolumeBackup named n
  now,        \* the clock, in seconds
  used,       \* used[k]: disturbances of kind k so far
  cache,      \* cache[r]: the Backup in the store of the process's informer
  queued,     \* queued[o]: keys waiting in the workqueue
  stopping,   \* stopping[o]: the context of the process was cancelled
  run,        \* run[r]: control of the sync handler for one key
  todo,       \* todo[r]: targets of the stage that have no task yet
  waiting,    \* waiting[r]: the names in backupper.tasks
  watched,    \* watched[r]: unfinished tasks the informer of the stage knows
  events      \* events[r]: reports of finished tasks not yet received

envVars == <<now, used>>
runVars == <<run, todo, waiting, watched, events>>
vars == <<versions, tasks, now, used, cache, queued, stopping,
          run, todo, waiting, watched, events>>

-----------------------------------------------------------------------------
Names == Targets \X (0 .. MaxTime)
Runs  == Operators \X Backups

Op(r) == r[1]
Bk(r) == r[2]

ServerPhase == {"New", "Completed", "Failed", "Deleting"}
LocalPhase  == ServerPhase \cup {"InProgress"}
Ended       == {"Completed", "Failed"}
Pc          == {"idle", "init", "add", "wait", "complete", "fail"}
Stage       == {"db", "volume"}

NoTask   == [owner |-> None, phase |-> "Absent"]
IdleRun  == [pc |-> "idle", stage |-> "db", linked |-> FALSE, rv |-> 0,
             phase |-> "New", expired |-> FALSE]

Exists(b) == versions[b] # <<>>
Phase(b)  == IF Exists(b) THEN versions[b][Len(versions[b])] ELSE "Absent"
StageOf(t) == IF t \in Dbs THEN "db" ELSE "volume"
StageTargets(b, s) == {t \in Selected[b] : StageOf(t) = s}
Busy(o) == {b \in Backups : run[<<o, b>>].pc # "idle"}

(* The informer of r follows, until the deadline of the run, the tasks of  *)
(* its stage that carry the label of its Backup.                           *)
MutFollows(r, b, s) ==
  /\ run[r].pc \in {"add", "wait"} /\ ~run[r].expired
  /\ run[r].stage = s
Follows(r, b, s) ==
  /\ run[r].pc \in {"add", "wait"} /\ ~run[r].expired
  /\ run[r].stage = s /\ Bk(r) = b

Spend(k) == used[k] < Allowed[k] /\ used' = [used EXCEPT ![k] = @ + 1]

(* A run's object is the pointer the lister returned: as long as the       *)
(* informer has not replaced it, writing the object writes the store.      *)
WriteLocal(r, p) ==
  cache' = IF run[r].linked THEN [cache EXCEPT ![r].phase = p] ELSE cache

TaskRec  == [owner : Backups \cup {None}, phase : {"Absent", "Pending"} \cup Ended]
CacheRec == [known : BOOLEAN, seen : Nat, phase : LocalPhase]
RunRec   == [pc : Pc, stage : Stage, linked : BOOLEAN, rv : Nat,
             phase : LocalPhase, expired : BOOLEAN]

ServerType == /\ versions \in [Backups -> Seq(ServerPhase)]
              /\ tasks \in [Names -> TaskRec]
ClockType  == /\ now \in 0 .. MaxTime
              /\ used \in [Kinds -> Nat]
QueueType  == /\ cache \in [Runs -> CacheRec]
              /\ queued \in [Operators -> SUBSET Backups]
              /\ stopping \in [Operators -> BOOLEAN]
RunType    == run \in [Runs -> RunRec]
WorkType   == /\ todo \in [Runs -> SUBSET Targets]
              /\ waiting \in [Runs -> SUBSET Names]
              /\ watched \in [Runs -> SUBSET Names]
              /\ events \in [Runs -> Seq(Names)]

TypeOK == ServerType /\ ClockType /\ QueueType /\ RunType /\ WorkType

Init ==
  /\ versions = [b \in Backups |-> <<>>]
  /\ tasks = [n \in Names |-> NoTask]
  /\ now = 0
  /\ used = [k \in Kinds |-> 0]
  /\ cache = [r \in Runs |-> [known |-> FALSE, seen |-> 0, phase |-> "New"]]
  /\ queued = [o \in Operators |-> {}]
  /\ stopping = [o \in Operators |-> FALSE]
  /\ run = [r \in Runs |-> IdleRun]
  /\ todo = [r \in Runs |-> {}]
  /\ waiting = [r \in Runs |-> {}]
  /\ watched = [r \in Runs |-> {}]
  /\ events = [r \in Runs |-> <<>>]

-----------------------------------------------------------------------------
(* Users, the deletion reconciler and the clock.                           *)

CreateBackup(b) ==
  /\ ~Exists(b)
  /\ versions' = [versions EXCEPT ![b] = <<"New">>]
  /\ UNCHANGED <<tasks, envVars, cache, queued, stopping, runVars>>

(* A change of metadata or spec: a new version, the same phase.            *)
EditBackup(b) ==
  /\ Exists(b)
  /\ Spend("edit")
  /\ versions' = [versions EXCEPT ![b] = Append(@, Phase(b))]
  /\ UNCHANGED <<tasks, now, cache, queued, stopping, runVars>>

(* updateBackupStatusToDeleting: a merge patch, whatever the phase was.    *)
MarkDeleting(b) ==
  /\ Phase(b) \notin {"Absent", "Deleting"}
  /\ Spend("delete")
  /\ versions' = [versions EXCEPT ![b] = Append(@, "Deleting")]
  /\ UNCHANGED <<tasks, now, cache, queued, stopping, runVars>>

Tick ==
  /\ now < MaxTime
  /\ now' = now + 1
  /\ UNCHANGED <<versions, tasks, used, cache, queued, stopping, runVars>>

-----------------------------------------------------------------------------
(* The informer of Backups in process Op(r): version v is delivered, in    *)
(* order or, after the watch was reopened, by jumping to the newest. Only  *)
(* the first one of an object is an Add, and only Add has a handler. The   *)
(* new object takes the place of the one a run may hold.                   *)
MutEnqueues(c, p) == c.known /\ p = "New"
Enqueues(c, p) == ~c.known /\ p = "New"

Deliver(r) ==
  LET o == Op(r)  b == Bk(r)  c == cache[r] IN
  /\ ~stopping[o]
  /\ c.seen < Len(versions[b])
  /\ \E v \in {c.seen + 1, Len(versions[b])} :
       /\ IF v = c.seen + 1 THEN UNCHANGED used ELSE Spend("relist")
       /\ cache' = [cache EXCEPT ![r] = [known |-> TRUE, seen |-> v,
                                         phase |-> versions[b][v]]]
       /\ queued' = IF Enqueues(c, versions[b][v])
                      THEN [queued EXCEPT ![o] = @ \cup {b}] ELSE queued
  /\ run' = [run EXCEPT ![r].linked = FALSE]
  /\ UNCHANGED <<versions, tasks, now, stopping, todo, waiting, watched, events>>

(* A worker takes a key; process() looks the object up in the store and    *)
(* leaves when it is not new.                                              *)
Take(r) ==
  /\ Bk(r) \in queued[Op(r)]
  /\ run[r].pc = "idle"
  /\ Cardinality(Busy(Op(r))) < NumWorkers

MutIsNew(r) == TRUE
IsNew(r) == cache[r].phase = "New"

Skip(r) ==
  /\ Take(r) /\ ~IsNew(r)
  /\ queued' = [queued EXCEPT ![Op(r)] = @ \ {Bk(r)}]
  /\ UNCHANGED <<versions, tasks, envVars, cache, stopping, runVars>>

(* The patch that should announce InProgress goes to the main resource:    *)
(* the API server drops the status, so nothing is written; the answer      *)
(* brings the newest resource version and, if the server has a status, its *)
(* phase. The object, hence the store, is InProgress before the patch,     *)
(* which needs the context of the process.                                 *)
MutStart(r) ==
  LET b == Bk(r) IN
  /\ Take(r) /\ IsNew(r) /\ ~stopping[Op(r)]
  /\ queued' = [queued EXCEPT ![Op(r)] = @ \ {b}]
  /\ run' = [run EXCEPT ![r] = [pc |-> "init", stage |-> "db", linked |-> FALSE,
                                rv |-> Len(versions[b]), phase |-> "InProgress",
                                expired |-> FALSE]]
  /\ UNCHANGED <<versions, tasks, envVars, cache, stopping, todo, waiting, watched, events>>
Start(r) ==
  LET b == Bk(r)
      p == IF Phase(b) = "New" THEN "InProgress" ELSE Phase(b) IN
  /\ Take(r) /\ IsNew(r) /\ ~stopping[Op(r)]
  /\ queued' = [queued EXCEPT ![Op(r)] = @ \ {b}]
  /\ run' = [run EXCEPT ![r] = [pc |-> "init", stage |-> "db", linked |-> TRUE,
                                rv |-> Len(versions[b]), phase |-> p,
                                expired |-> FALSE]]
  /\ cache' = [cache EXCEPT ![r].phase = p]
  /\ UNCHANGED <<versions, tasks, envVars, stopping, todo, waiting, watched, events>>

StartFails(r) ==
  /\ Take(r) /\ IsNew(r)
  /\ IF stopping[Op(r)] THEN UNCHANGED used ELSE Spend("api")
  /\ cache' = [cache EXCEPT ![r].phase = "InProgress"]
  /\ UNCHANGED <<versions, tasks, now, queued, stopping, runVars>>

-----------------------------------------------------------------------------
(* The two stages: NewBackupper, Find..., AddTask for each target,         *)
(* WaitSync.                                                               *)

Goto(r, p) == run' = [run EXCEPT ![r].pc = p]

(* After a stage: the volumes, then the final update.                      *)
MutNextStage(r) == Goto(r, "complete")
NextStage(r) ==
  run' = [run EXCEPT ![r] = IF @.stage = "db"
                              THEN [@ EXCEPT !.pc = "init", !.stage = "volume"]
                              ELSE [@ EXCEPT !.pc = "complete"]]

(* The informer has listed: it will report the end of the unfinished tasks *)
(* that carry the label of the Backup, from whichever run they are.        *)
InitStage(r) ==
  LET b == Bk(r)
      s == run[r].stage IN
  /\ run[r].pc = "init"
  /\ ~run[r].expired
  /\ watched' = [watched EXCEPT ![r] =
       {n \in Names : tasks[n] = [owner |-> b, phase |-> "Pending"] /\ StageOf(n[1]) = s}]
  /\ events' = [events EXCEPT ![r] = <<>>]
  /\ todo' = [todo EXCEPT ![r] = StageTargets(b, s)]
  /\ waiting' = [waiting EXCEPT ![r] = {}]
  /\ IF StageTargets(b, s) = {} THEN NextStage(r) ELSE Goto(r, "add")
  /\ UNCHANGED <<versions, tasks, envVars, cache, queued, stopping>>

(* No storage location, a list that fails, caches not synced in time.      *)
InitStageFails(r) ==
  /\ run[r].pc = "init"
  /\ IF run[r].expired THEN UNCHANGED used ELSE Spend("api")
  /\ Goto(r, "fail")
  /\ UNCHANGED <<versions, tasks, now, cache, queued, stopping,
                 todo, waiting, watched, events>>

(* AddTask puts the name in backupper.tasks whether the object could be    *)
(* created or not; the watches that see the object follow it.              *)
MutTrack(r, n) ==
  /\ waiting' = [waiting EXCEPT ![r] = IF tasks'[n] = tasks[n] THEN @ ELSE @ \cup {n}]
  /\ todo' = [todo EXCEPT ![r] = @ \ {n[1]}]
  /\ Goto(r, IF todo[r] = {n[1]} THEN "wait" ELSE "add")
Track(r, n) ==
  /\ waiting' = [waiting EXCEPT ![r] = @ \cup {n}]
  /\ todo' = [todo EXCEPT ![r] = @ \ {n[1]}]
  /\ Goto(r, IF todo[r] = {n[1]} THEN "wait" ELSE "add")

CreateTask(r, n) ==
  /\ tasks[n] = NoTask
  /\ tasks' = [tasks EXCEPT ![n] = [owner |-> Bk(r), phase |-> "Pending"]]
  /\ watched' = [q \in Runs |->
       IF Follows(q, Bk(r), StageOf(n[1])) THEN watched[q] \cup {n} ELSE watched[q]]
  /\ UNCHANGED used

(* A name already taken, or an error of the API.                           *)
CreateTaskFails(n) ==
  /\ IF tasks[n] # NoTask THEN UNCHANGED used ELSE Spend("api")
  /\ UNCHANGED <<tasks, watched>>

AddTask(r) ==
  /\ run[r].pc = "add"
  /\ \E t \in todo[r] :
       LET n == <<t, now>> IN
       /\ CreateTask(r, n) \/ CreateTaskFails(n)
       /\ Track(r, n)
  /\ UNCHANGED <<versions, now, cache, queued, stopping, events>>

(* EnsureRepo: the repository is not ready, not in time, or not created.   *)
RepoFails(r) ==
  /\ run[r].pc = "add" /\ run[r].stage = "volume"
  /\ Goto(r, "fail")
  /\ UNCHANGED <<versions, tasks, envVars, cache, queued, stopping,
                 todo, waiting, watched, events>>

(* WaitSync takes one report: a failed task of this Backup ends the wait,  *)
(* from whichever run it is; a completed one is crossed off, if tracked.   *)
MutIsFailure(n) == FALSE
IsFailure(n) == tasks[n].phase = "Failed"

Receive(r) ==
  /\ run[r].pc = "wait"
  /\ events[r] # <<>>
  /\ events' = [events EXCEPT ![r] = Tail(@)]
  /\ LET n == Head(events[r]) IN
       IF IsFailure(n)
         THEN Goto(r, "fail") /\ UNCHANGED waiting
         ELSE /\ waiting' = [waiting EXCEPT ![r] = @ \ {n}]
              /\ IF waiting[r] \subseteq {n} THEN NextStage(r) ELSE UNCHANGED run
  /\ UNCHANGED <<versions, tasks, envVars, cache, queued, stopping, todo, watched>>

(* Both waits end with the run's five minutes, the one for volumes with    *)
(* the context of the process too.                                         *)
MutTimedOut(r) == stopping[Op(r)]
TimedOut(r) == run[r].expired \/ (run[r].stage = "volume" /\ stopping[Op(r)])

WaitFails(r) ==
  /\ run[r].pc = "wait"
  /\ TimedOut(r)
  /\ Goto(r, "fail")
  /\ UNCHANGED <<versions, tasks, envVars, cache, queued, stopping,
                 todo, waiting, watched, events>>

-----------------------------------------------------------------------------
(* The outcome. A sync handler that returns an error puts the key back.    *)

(* The handler returns: its context is cancelled and its informers stop.   *)
EndRun(r) ==
  /\ run' = [run EXCEPT ![r] = IdleRun]
  /\ todo' = [todo EXCEPT ![r] = {}]
  /\ waiting' = [waiting EXCEPT ![r] = {}]
  /\ watched' = [watched EXCEPT ![r] = {}]
  /\ events' = [events EXCEPT ![r] = <<>>]

Requeue(r) == queued' = [queued EXCEPT ![Op(r)] = @ \cup {Bk(r)}]

(* Status().Update carries the version of the patch at the start: another  *)
(* write since then makes it a conflict.                                   *)
Complete(r) ==
  LET b == Bk(r) IN
  /\ run[r].pc = "complete"
  /\ \/ /\ run[r].rv = Len(versions[b])
        /\ versions' = [versions EXCEPT ![b] = Append(@, "Completed")]
        /\ \/ UNCHANGED <<queued, used>>
           \/ Requeue(r) /\ Spend("lost")
     \/ /\ IF run[r].rv = Len(versions[b]) THEN Spend("api") ELSE UNCHANGED used
        /\ Requeue(r)
        /\ UNCHANGED versions
  /\ WriteLocal(r, "Completed")
  /\ EndRun(r)
  /\ UNCHANGED <<tasks, now, stopping>>

(* updateStatusToFailed: a merge patch with no version, sent with the      *)
(* context of the run, which may have expired. The patch holds the phase   *)
(* only if it differs from the one the object had.                         *)
CanReport(r) == ~run[r].expired

Fail(r) ==
  LET b == Bk(r)
      p == IF run[r].phase = "Failed" THEN Phase(b) ELSE "Failed" IN
  /\ run[r].pc = "fail"
  /\ \/ /\ CanReport(r)
        /\ versions' = [versions EXCEPT ![b] = Append(@, p)]
        /\ \/ UNCHANGED <<queued, used>>
           \/ Requeue(r) /\ Spend("lost")
     \/ /\ IF CanReport(r) THEN Spend("api") ELSE UNCHANGED used
        /\ Requeue(r)
        /\ UNCHANGED versions
  /\ WriteLocal(r, "Failed")
  /\ EndRun(r)
  /\ UNCHANGED <<tasks, now, stopping>>

(* Five minutes after the start the context of the run is done, and the    *)
(* informers it drives stop.                                               *)
Expire(r) ==
  /\ run[r].pc # "idle" /\ ~run[r].expired
  /\ run' = [run EXCEPT ![r].expired = TRUE]
  /\ watched' = [watched EXCEPT ![r] = {}]
  /\ UNCHANGED <<versions, tasks, envVars, cache, queued, stopping,
                 todo, waiting, events>>

-----------------------------------------------------------------------------
(* The task ends (the DbBackup reconciler, velero) and the informers that  *)
(* know it report the change.                                              *)
TaskEnds(n) ==
  /\ tasks[n].phase = "Pending"
  /\ \E p \in Ended : tasks' = [tasks EXCEPT ![n].phase = p]
  /\ events' = [r \in Runs |-> IF n \in watched[r] THEN Append(events[r], n)
                                                   ELSE events[r]]
  /\ watched' = [r \in Runs |-> watched[r] \ {n}]
  /\ UNCHANGED <<versions, envVars, cache, queued, stopping, run, todo, waiting>>

(* The watch was closed from the creation of n to its end: n will come as  *)
(* an Add that is already final, and only updates have a handler.          *)
WatchGap(r, n) ==
  /\ n \in watched[r]
  /\ Spend("gap")
  /\ watched' = [watched EXCEPT ![r] = @ \ {n}]
  /\ UNCHANGED <<versions, tasks, now, cache, queued, stopping,
                 run, todo, waiting, events>>

(* The manager fails, as when it loses its lease: main cancels the context *)
(* of the process, the informer of Backups and the waits that use it stop, *)
(* and main exits.                                                         *)
Stop(o) ==
  /\ ~stopping[o]
  /\ used["restart"] < Allowed["restart"]
  /\ stopping' = [stopping EXCEPT ![o] = TRUE]
  /\ UNCHANGED <<versions, tasks, envVars, cache, queued, runVars>>

(* The process ends, in that way or killed, and a new one lists Backups:   *)
(* the next version it is given is the current one.                        *)
Listed(b) == IF Exists(b) THEN Len(versions[b]) - 1 ELSE 0

Restart(o) ==
  LET own(r) == Op(r) = o IN
  /\ Spend("restart")
  /\ stopping' = [stopping EXCEPT ![o] = FALSE]
  /\ queued' = [queued EXCEPT ![o] = {}]
  /\ cache' = [r \in Runs |-> IF own(r)
       THEN [known |-> FALSE, seen |-> Listed(Bk(r)), phase |-> "New"] ELSE cache[r]]
  /\ run' = [r \in Runs |-> IF own(r) THEN IdleRun ELSE run[r]]
  /\ todo' = [r \in Runs |-> IF own(r) THEN {} ELSE todo[r]]
  /\ waiting' = [r \in Runs |-> IF own(r) THEN {} ELSE waiting[r]]
  /\ watched' = [r \in Runs |-> IF own(r) THEN {} ELSE watched[r]]
  /\ events' = [r \in Runs |-> IF own(r) THEN <<>> ELSE events[r]]
  /\ UNCHANGED <<versions, tasks, now>>

-----------------------------------------------------------------------------
Handler(r) ==
  \/ Skip(r) \/ Start(r) \/ StartFails(r)
  \/ InitStage(r) \/ InitStageFails(r)
  \/ AddTask(r) \/ RepoFails(r)
  \/ Receive(r) \/ WaitFails(r)
  \/ Complete(r) \/ Fail(r)

Next ==
  \/ \E b \in Backups : CreateBackup(b) \/ EditBackup(b) \/ MarkDeleting(b)
  \/ \E r \in Runs : Handler(r) \/ Deliver(r) \/ Expire(r)
  \/ \E n \in Names : TaskEnds(n)
  \/ \E r \in Runs, n \in Names : WatchGap(r, n)
  \/ \E o \in Operators : Stop(o) \/ Restart(o)
  \/ Tick

Spec == Init /\ [][Next]_vars

(* The scheduler runs every handler, the watch delivers, and every         *)
(* deadline passes, and a process whose context is cancelled exits. Nothing*)
(* is assumed of tasks: they may never end.                                *)
Fairness ==
  /\ \A r \in Runs :
       WF_vars(Handler(r)) /\ WF_vars(Deliver(r)) /\ WF_vars(Expire(r))
  /\ \A o \in Operators : WF_vars(stopping[o] /\ Restart(o))

FairSpec == Spec /\ Fairness

-----------------------------------------------------------------------------
(* The targets of which b has a completed snapshot of its own.             *)
Saved(b) == {t \in Targets : \E n \in Names :
               n[1] = t /\ tasks[n] = [owner |-> b, phase |-> "Completed"]}

(* A Backup shown as Completed has a completed DbBackup or PodVolumeBackup,*)
(* labelled with its own name, for every Db and PVC it selects: whatever   *)
(* the name collisions, the failed creations that process() only logs, the *)
(* reports of earlier runs and the concurrent runs of other processes.     *)
CompletedHasSnapshots ==
  \A b \in Backups : Phase(b) = "Completed" => Selected[b] \subseteq Saved(b)

(* What a reader of the Backup may rely on, as a specification of its own. *)
PhaseShown == [b \in Backups |-> Phase(b)]
SavedShown == [b \in Backups |-> Saved(b)]
Promise == INSTANCE BackupPromise WITH phase <- PhaseShown, saved <- SavedShown
Promised == Promise!Spec

(* With one process that is not restarted, and as long as nobody edits the *)
(* Backup, no target is snapshotted twice for it: a run that failed to     *)
(* write its outcome is not repeated, because the object it wrote the      *)
(* outcome in is the one in the lister's store.                            *)
SnapshotOnce ==
  Cardinality(Operators) = 1 /\ used["restart"] = 0 /\ used["edit"] = 0 =>
    \A m, n \in Names :
      tasks[m] # NoTask /\ tasks[m].owner = tasks[n].owner /\ m[1] = n[1] => m = n

(* With one process, and no edits, a Completed Backup stays so until it is *)
(* deleted: neither a lost answer nor a restart runs it again.             *)
CompletedIsFinal ==
  [][Cardinality(Operators) = 1 /\ used["edit"] = 0 =>
       \A b \in Backups :
         Phase(b) = "Completed" => Phase(b)' \in {"Completed", "Deleting"}]_vars

(* Without API errors a Backup of databases is Failed only because one of  *)
(* its own tasks failed: neither another Backup's tasks nor a timeout (its *)
(* report is sent with the expired context) make it so.                    *)
FailureHasCause ==
  used["api"] = 0 =>
    \A b \in Backups : Phase(b) = "Failed" /\ Selected[b] \subseteq Dbs =>
      \E n \in Names : tasks[n] = [owner |-> b, phase |-> "Failed"]

(* A worker is never held for ever: each call of process() returns, though *)
(* tasks may never end and reports of them may be lost.                    *)
HandlerReturns == \A r \in Runs : run[r].pc # "idle" ~> run[r].pc = "idle"

(* If no run reaches its deadline, each Backup is reported, across         *)
(* restarts of the process and with a single worker for all Backups.       *)
ReportedInTime ==
  \A b \in Backups :
    [](\A r \in Runs : ~run[r].expired) =>
       (Phase(b) = "New" ~> Phase(b) \in {"Completed", "Failed", "Deleting"})

(* The status column is described as "New/InProgress"; a Backup a worker   *)
(* is running should not be shown as new.                                  *)
InProgressIsShown == \A r \in Runs : run[r].pc # "idle" => Phase(Bk(r)) # "New"

-----------------------------------------------------------------------------
(* The inductive invariant behind CompletedHasSnapshots.                   *)

(* The process only works on Backups that exist.                           *)
KeysExist ==
  \A r \in Runs : (Bk(r) \in queued[Op(r)] \/ run[r].pc # "idle") => Exists(Bk(r))

(* Tasks belong to Backups that exist.                                     *)
TasksOwned ==
  \A n \in Names : tasks[n] = NoTask \/ \E b \in Backups :
    Exists(b) /\ tasks[n] \in [owner : {b}, phase : {"Pending"} \cup Ended]

(* Informers report tasks of their own Backup, and only when they ended.   *)
WatchSound ==
  \A r \in Runs : \A n \in watched[r] : tasks[n] = [owner |-> Bk(r), phase |-> "Pending"]
EventsSound ==
  \A r \in Runs : \A i \in 1 .. Len(events[r]) :
    tasks[events[r][i]] \in [owner : {Bk(r)}, phase : Ended]

(* A target of the stage is to do, waited for, or saved.                   *)
Outstanding(r) == todo[r] \cup {n[1] : n \in waiting[r]}
StageSound ==
  \A r \in Runs : run[r].pc \in {"add", "wait"} =>
    StageTargets(Bk(r), run[r].stage) \subseteq Outstanding(r) \cup Saved(Bk(r))
AllAdded == \A r \in Runs : run[r].pc = "wait" => todo[r] = {}

(* The stages that are behind are saved.                                   *)
DbsBehind ==
  \A r \in Runs : run[r].stage = "volume" =>
    StageTargets(Bk(r), "db") \subseteq Saved(Bk(r))
AllBehind ==
  \A r \in Runs : run[r].pc = "complete" => Selected[Bk(r)] \subseteq Saved(Bk(r))
VersionsHonest ==
  \A b \in Backups : \A i \in 1 .. Len(versions[b]) :
    versions[b][i] = "Completed" => Selected[b] \subseteq Saved(b)

IInv ==
  /\ TypeOK /\ KeysExist /\ TasksOwned /\ WatchSound /\ EventsSound
  /\ StageSound /\ AllAdded /\ DbsBehind /\ AllBehind /\ VersionsHonest
=============================================================================
