-------------------------- MODULE RestoreController --------------------------
(***************************************************************************)
(* The controller of Restore objects (restore_controller.go) with the two  *)
(* restorers it drives (pkg/db/db_restore.go, pkg/volume/volume_restore.go)*)
(* run by one or several operator processes.                               *)
(*                                                                         *)
(* A Restore names a Backup. Its run lists the snapshots labelled with the *)
(* Backup, creates one task for each (DbRestores, then PodVolumeRestores), *)
(* waits for the reports of a stage, and writes the outcome. Unlike a run  *)
(* of a Backup it begins with an update of the status that carries the     *)
(* version of the cached object.                                           *)
(***************************************************************************)
EXTENDS Integers, Sequences, FiniteSets

CONSTANTS
  Operators,    \* operator processes
  Restores,     \* names of Restore objects
  Source,       \* Source[r]: the Backup that r names
  Backups,
  Dbs, Pvcs,    \* what a Backup can select
  Selected,     \* Selected[b]: the Dbs and Pvcs the selector of b matches
  Snapshots,    \* names of DbBackups and PodVolumeBackups
  Of, From,     \* Of[s], From[s]: the target of a snapshot, the Backup it is labelled with
  NumWorkers,   \* workers of the controller in each process
  MaxTime,      \* bound: the seconds of the clock that task names are made of
  Kinds,        \* kinds of disturbance that are bounded (see Spend)
  Allowed,      \* bound: the numbers of disturbances of each kind that may happen together
  None          \* no task; the snapshot ID of an unfinished PodVolumeBackup

Targets == Dbs \cup Pvcs

ASSUME SourceAssumption   == Source \in [Restores -> Backups]
ASSUME TargetsAssumption  == Dbs \cap Pvcs = {}
ASSUME SelectedAssumption == Selected \in [Backups -> SUBSET Targets]
ASSUME SnapshotAssumption == Of \in [Snapshots -> Targets] /\ From \in [Snapshots -> Backups]
ASSUME NumWorkersAssumption == NumWorkers \in Nat \ {0}
ASSUME MaxTimeAssumption  == MaxTime \in Nat
ASSUME KindsAssumption ==
         {"api", "lost", "restart", "edit", "delete", "gap", "lag"} \subseteq Kinds
ASSUME AllowedAssumption  == Allowed \subseteq [Kinds -> Nat]
ASSUME NoneAssumption     == None \notin Snapshots \X BOOLEAN /\ None \notin Targets \cup Snapshots
ASSUME NamesAssumption    == Targets \cap Snapshots = {}

VARIABLES
  versions,   \* versions[r]: the phases r went through on the API server
  snaps,      \* snaps[s]: "Absent", "Completed", or "Pending" when it has no data
  tasks,      \* tasks[n]: the DbRestore or PodVolumeRestore named n
  sound,      \* the Restores whose Backup was Completed when they were made (history)
  now,        \* the clock, in seconds
  used,       \* used[k]: disturbances of kind k so far
  cache,      \* cache[p]: the Restore in the store of the process's informer
  queued,     \* queued[o]: keys waiting in the workqueue
  stopping,   \* stopping[o]: the context of the process was cancelled
  run,        \* run[p]: control of the sync handler for one key
  todo,       \* todo[p]: jobs of the stage that have no task yet
  waiting,    \* waiting[p]: the names in restorer.tasks
  watched,    \* watched[p]: unfinished tasks the informer of the stage knows
  events      \* events[p]: reports of finished tasks not yet received

worldVars == <<snaps, sound, now>>
runVars   == <<run, todo, waiting, watched, events>>
vars == <<versions, snaps, tasks, sound, now, used, cache, queued, stopping,
          run, todo, waiting, watched, events>>

-----------------------------------------------------------------------------
(* A job is a snapshot as the list showed it: with data to play back or not*)
(* yet. Task names are made of the Restore, the database or the snapshot   *)
(* ID, and the second.                                                     *)
Jobs  == Snapshots \X BOOLEAN
Keys  == Dbs \cup Snapshots \cup {None}
Names == Restores \X Keys \X (0 .. MaxTime)
Runs  == Operators \X Restores

Op(p) == p[1]
Rs(p) == p[2]
Target(j) == Of[j[1]]

Ended    == {"Completed", "Failed"}
Pending  == {"New", "InProgress"}
Stage    == {"get", "db", "volume"}

NoTask  == [src |-> None, phase |-> "Absent"]
IdleRun == [pc |-> "idle", stage |-> "get", rv |-> 0, expired |-> FALSE]

Phase(r)  == IF versions[r] = <<>> THEN "Absent" ELSE versions[r][Len(versions[r])]
Exists(r) == Phase(r) \notin {"Absent", "Gone"}
StageOf(t) == IF t \in Dbs THEN "db" ELSE "volume"
Busy(o)   == {r \in Restores : run[<<o, r>>].pc # "idle"}

OneMore(k) == [used EXCEPT ![k] = @ + 1]
Spend(k) == OneMore(k) \in Allowed /\ used' = OneMore(k)
Write(r, v) == versions' = [versions EXCEPT ![r] = Append(@, v)]

TaskRec == [src : Jobs \cup {None}, phase : {"Absent", "Pending"} \cup Ended]
RunRec  == [pc : {"idle", "get", "init", "add", "wait", "complete", "fail"},
            stage : Stage, rv : Nat, expired : BOOLEAN]

TypeOK ==
  /\ versions \in [Restores -> Seq(Pending \cup Ended \cup {"Gone"})]
  /\ snaps \in [Snapshots -> {"Absent", "Pending", "Completed"}]
  /\ tasks \in [Names -> TaskRec]
  /\ sound \subseteq Restores
  /\ now \in 0 .. MaxTime
  /\ used \in [Kinds -> Nat]
  /\ cache \in [Runs -> [known : BOOLEAN, seen : Nat, phase : Pending \cup Ended \cup {"Gone"}]]
  /\ queued \in [Operators -> SUBSET Restores]
  /\ stopping \in [Operators -> BOOLEAN]
  /\ run \in [Runs -> RunRec]
  /\ todo \in [Runs -> SUBSET Jobs]
  /\ waiting \in [Runs -> SUBSET Names]
  /\ watched \in [Runs -> SUBSET Names]
  /\ events \in [Runs -> Seq(Names)]

Init ==
  /\ versions = [r \in Restores |-> <<>>]
  /\ snaps = [s \in Snapshots |-> "Absent"]
  /\ tasks = [n \in Names |-> NoTask]
  /\ sound = {}
  /\ now = 0
  /\ used = [k \in Kinds |-> 0]
  /\ cache = [p \in Runs |-> [known |-> FALSE, seen |-> 0, phase |-> "Gone"]]
  /\ queued = [o \in Operators |-> {}]
  /\ stopping = [o \in Operators |-> FALSE]
  /\ run = [p \in Runs |-> IdleRun]
  /\ todo = [p \in Runs |-> {}]
  /\ waiting = [p \in Runs |-> {}]
  /\ watched = [p \in Runs |-> {}]
  /\ events = [p \in Runs |-> <<>>]

-----------------------------------------------------------------------------
(* The snapshots of the Backups, as their runs and velero make them: one   *)
(* is listed, then has data; one that fails stays without, like one that   *)
(* never ends. A run that was repeated leaves several of one target. They  *)
(* move when somebody looks: nobody could tell the difference.             *)
Earlier(x) == CASE x = "Absent" -> {x} [] x = "Pending" -> {x, "Absent"}
                [] OTHER -> {x, "Pending", "Absent"}
SnapPhase == {"Absent", "Pending", "Completed"}
Later(S) == {v \in [Snapshots -> SnapPhase] : \A s \in Snapshots :
               IF s \in S THEN snaps[s] \in Earlier(v[s]) ELSE v[s] = snaps[s]}

HasData(b, v) == {Of[s] : s \in {x \in Snapshots : From[x] = b /\ v[x] = "Completed"}}

(* Users make a Restore of a Backup that is Completed, hence has a snapshot*)
(* with data of each target (CompletedIsSaved of BackupProofs), or of any  *)
(* other, which nobody forbids.                                            *)
CreateRestore(r) ==
  /\ versions[r] = <<>>
  /\ Write(r, "New")
  /\ \/ UNCHANGED <<snaps, sound>>
     \/ /\ \E v \in Later(Snapshots) :
             snaps' = v /\ Selected[Source[r]] \subseteq HasData(Source[r], v)
        /\ sound' = sound \cup {r}
  /\ UNCHANGED <<tasks, now, used, cache, queued, stopping, runVars>>

EditRestore(r) ==
  /\ Exists(r) /\ Spend("edit")
  /\ Write(r, Phase(r))
  /\ UNCHANGED <<worldVars, tasks, cache, queued, stopping, runVars>>

DeleteRestore(r) ==
  /\ Exists(r) /\ Spend("delete")
  /\ Write(r, "Gone")
  /\ UNCHANGED <<worldVars, tasks, cache, queued, stopping, runVars>>

-----------------------------------------------------------------------------
(* The informer of Restores delivers the next version or, after the watch  *)
(* was reopened, the newest. Only Add has a handler, which queues what is  *)
(* new.                                                                    *)
MutEnqueues(c, v) == c.known /\ v = "New"
Enqueues(c, v) == ~c.known /\ v = "New"

Deliver(p) ==
  LET r == Rs(p)  c == cache[p] IN
  /\ ~stopping[Op(p)]
  /\ c.seen < Len(versions[r])
  /\ \E v \in {c.seen + 1, Len(versions[r])} :
       /\ cache' = [cache EXCEPT ![p] = [known |-> TRUE, seen |-> v, phase |-> versions[r][v]]]
       /\ queued' = IF Enqueues(c, versions[r][v])
                      THEN [queued EXCEPT ![Op(p)] = @ \cup {r}] ELSE queued
  /\ UNCHANGED <<versions, worldVars, tasks, used, stopping, runVars>>

(* A key whose object has left the store goes back to the queue for ever;  *)
(* nothing else comes of it.                                               *)
Take(p) ==
  /\ Rs(p) \in queued[Op(p)]
  /\ cache[p].phase # "Gone"
  /\ run[p].pc = "idle"
  /\ Cardinality(Busy(Op(p))) < NumWorkers

Dequeue(p) == queued' = [queued EXCEPT ![Op(p)] = @ \ {Rs(p)}]
Requeue(p) == queued' = [queued EXCEPT ![Op(p)] = @ \cup {Rs(p)}]

IsNew(p) == cache[p].phase = "New"
Skip(p) ==
  /\ Take(p) /\ ~IsNew(p)
  /\ Dequeue(p)
  /\ UNCHANGED <<versions, worldVars, tasks, used, cache, stopping, runVars>>

(* The object of the store is InProgress before Status().Update sends it,  *)
(* so after a refusal or a lost answer the next pass skips it, unless the  *)
(* informer has put a newer version that is new in its place.              *)
MutCurrent(p) == Exists(Rs(p))
Current(p) == Exists(Rs(p)) /\ cache[p].seen = Len(versions[Rs(p)])
TakeUp(p) == Take(p) /\ IsNew(p) /\ cache' = [cache EXCEPT ![p].phase = "InProgress"]

Start(p) ==
  /\ TakeUp(p) /\ Current(p)
  /\ Write(Rs(p), "InProgress")
  /\ Dequeue(p)
  /\ run' = [run EXCEPT ![p] = [pc |-> "get", stage |-> "get",
                                rv |-> Len(versions[Rs(p)]) + 1, expired |-> FALSE]]
  /\ UNCHANGED <<worldVars, tasks, used, stopping, todo, waiting, watched, events>>

StartFails(p) ==
  /\ TakeUp(p)
  /\ \/ /\ IF Current(p) THEN Spend("api") ELSE UNCHANGED used
        /\ UNCHANGED versions
     \/ Current(p) /\ Spend("lost") /\ Write(Rs(p), "InProgress")
  /\ UNCHANGED <<worldVars, tasks, queued, stopping, runVars>>

-----------------------------------------------------------------------------
Goto(p, c) == run' = [run EXCEPT ![p].pc = c]

(* The phase of the Backup is not looked at. A Get fails when there is no  *)
(* such Backup, and while the cache of the manager, which is started after *)
(* this controller, does not answer.                                       *)
GetBackup(p) ==
  /\ run[p].pc = "get"
  /\ run' = [run EXCEPT ![p] = [@ EXCEPT !.pc = "init", !.stage = "db"]]
  /\ UNCHANGED <<versions, worldVars, tasks, used, cache, queued, stopping,
                 todo, waiting, watched, events>>

GetBackupFails(p) ==
  /\ run[p].pc = "get"
  /\ Goto(p, "fail")
  /\ UNCHANGED <<versions, worldVars, tasks, used, cache, queued, stopping,
                 todo, waiting, watched, events>>

MutNextStage(p) == Goto(p, "complete")
NextStage(p) ==
  run' = [run EXCEPT ![p] = IF @.stage = "db"
                              THEN [@ EXCEPT !.pc = "init", !.stage = "volume"]
                              ELSE [@ EXCEPT !.pc = "complete"]]

(* The lists come from the cache of the manager, where snapshots may still *)
(* be in an earlier phase, or missing. All snapshots of a database are     *)
(* played back; rebuildPodPvcRelation keeps the last one listed of a PVC.  *)
Views(v) == {w \in [Snapshots -> SnapPhase] : \A s \in Snapshots : w[s] \in Earlier(v[s])}

Listed(b, st, view) ==
  {<<s, view[s] = "Completed">> : s \in
     {x \in Snapshots : From[x] = b /\ StageOf(Of[x]) = st /\ view[x] # "Absent"}}

Kept(J, st) ==
  {K \in SUBSET J :
     /\ \A j \in J : \E k \in K : Target(k) = Target(j)
     /\ st = "db" => K = J
     /\ st = "volume" => \A k, l \in K : Target(k) = Target(l) => k = l}

InitStage(p) ==
  LET b == Source[Rs(p)]  st == run[p].stage IN
  /\ run[p].pc = "init" /\ ~run[p].expired
  /\ snaps' \in Later({s \in Snapshots : From[s] = b /\ StageOf(Of[s]) = st})
  /\ \E view \in Views(snaps') :
       /\ IF view = snaps' THEN UNCHANGED used ELSE Spend("lag")
       /\ \E K \in Kept(Listed(b, st, view), st) :
            /\ todo' = [todo EXCEPT ![p] = K]
            /\ IF K = {} THEN NextStage(p) ELSE Goto(p, "add")
  /\ waiting' = [waiting EXCEPT ![p] = {}]
  /\ watched' = [watched EXCEPT ![p] = {}]
  /\ events' = [events EXCEPT ![p] = <<>>]
  /\ UNCHANGED <<versions, sound, now, tasks, cache, queued, stopping>>

(* Caches not synced in time, or a list that fails.                        *)
InitStageFails(p) ==
  /\ run[p].pc = "init"
  /\ IF run[p].expired THEN UNCHANGED used ELSE Spend("api")
  /\ Goto(p, "fail")
  /\ UNCHANGED <<versions, worldVars, tasks, cache, queued, stopping,
                 todo, waiting, watched, events>>

(* The clock moves when it is read. Two snapshots of a database in one     *)
(* second ask for the same name, and so do unfinished PodVolumeBackups,    *)
(* whose ID is empty. The name is tracked whether the task could be created*)
(* or not.                                                                 *)
Key(j) == IF Target(j) \in Dbs THEN Target(j) ELSE IF j[2] THEN j[1] ELSE None

Track(p, j, n) ==
  /\ todo' = [todo EXCEPT ![p] = @ \ {j}]
  /\ waiting' = [waiting EXCEPT ![p] = @ \cup {n}]
  /\ Goto(p, IF todo[p] = {j} THEN "wait" ELSE "add")

CreateTask(p, j, n) ==
  /\ tasks[n] = NoTask
  /\ tasks' = [tasks EXCEPT ![n] = [src |-> j, phase |-> "Pending"]]
  /\ watched' = IF run[p].expired THEN watched ELSE [watched EXCEPT ![p] = @ \cup {n}]
  /\ UNCHANGED used

CreateTaskFails(n) ==
  /\ IF tasks[n] # NoTask THEN UNCHANGED used ELSE Spend("api")
  /\ UNCHANGED <<tasks, watched>>

AddTask(p) ==
  /\ run[p].pc = "add"
  /\ \E j \in todo[p], sec \in now .. MaxTime :
       LET n == <<Rs(p), Key(j), sec>> IN
       /\ now' = sec
       /\ CreateTask(p, j, n) \/ CreateTaskFails(n)
       /\ Track(p, j, n)
  /\ UNCHANGED <<versions, snaps, sound, cache, queued, stopping, events>>

(* WaitSync: any failed task of the Restore ends the wait.                 *)
IsFailure(n) == tasks[n].phase = "Failed"

Receive(p) ==
  /\ run[p].pc = "wait"
  /\ events[p] # <<>>
  /\ events' = [events EXCEPT ![p] = Tail(@)]
  /\ LET n == Head(events[p]) IN
       IF IsFailure(n)
         THEN Goto(p, "fail") /\ UNCHANGED waiting
         ELSE /\ waiting' = [waiting EXCEPT ![p] = @ \ {n}]
              /\ IF waiting[p] \subseteq {n} THEN NextStage(p) ELSE UNCHANGED run
  /\ UNCHANGED <<versions, worldVars, tasks, used, cache, queued, stopping, todo, watched>>

(* Both waits end with the five minutes of the run, after which no report  *)
(* comes, the one for volumes with the context of the process too.         *)
MutTimedOut(p) == stopping[Op(p)]
TimedOut(p) == run[p].expired \/ (run[p].stage = "volume" /\ stopping[Op(p)])

WaitFails(p) ==
  /\ run[p].pc = "wait" /\ TimedOut(p)
  /\ Goto(p, "fail")
  /\ UNCHANGED <<versions, worldVars, tasks, used, cache, queued, stopping,
                 todo, waiting, watched, events>>

(* The clock of the run starts when its Backup has been read.              *)
Expire(p) ==
  /\ run[p].pc # "idle" /\ run[p].stage # "get" /\ ~run[p].expired
  /\ run' = [run EXCEPT ![p].expired = TRUE]
  /\ watched' = [watched EXCEPT ![p] = {}]
  /\ UNCHANGED <<versions, worldVars, tasks, used, cache, queued, stopping,
                 todo, waiting, events>>

-----------------------------------------------------------------------------
(* The outcome. The object the run holds is not new any more, nor is any   *)
(* later version: a key that is queued again is skipped.                   *)
EndRun(p) ==
  /\ run' = [run EXCEPT ![p] = IdleRun]
  /\ todo' = [todo EXCEPT ![p] = {}]
  /\ waiting' = [waiting EXCEPT ![p] = {}]
  /\ watched' = [watched EXCEPT ![p] = {}]
  /\ events' = [events EXCEPT ![p] = <<>>]

(* The version of the update at the start must still be the newest.        *)
Holds(p) == run[p].rv = Len(versions[Rs(p)]) /\ Exists(Rs(p))

Report(p, accepted, v) ==
  /\ \/ /\ accepted
        /\ Write(Rs(p), v)
        /\ \/ UNCHANGED <<queued, used>>
           \/ Requeue(p) /\ Spend("lost")
     \/ /\ IF accepted THEN Spend("api") ELSE UNCHANGED used
        /\ Requeue(p)
        /\ UNCHANGED versions
  /\ EndRun(p)
  /\ UNCHANGED <<worldVars, tasks, cache, stopping>>

Complete(p) == run[p].pc = "complete" /\ Report(p, Holds(p), "Completed")

(* A merge patch without a version, sent with the context of the process   *)
(* or, once the Backup has been read, with that of the run.                *)
CanReport(p) ==
  /\ Exists(Rs(p))
  /\ IF run[p].stage = "get" THEN ~stopping[Op(p)] ELSE ~run[p].expired

Fail(p) == run[p].pc = "fail" /\ Report(p, CanReport(p), "Failed")

-----------------------------------------------------------------------------
(* The task ends (DbRestoreController, velero). One without a file or a    *)
(* snapshot ID can only fail. The informer that knows it reports it.       *)
TaskEnds(n) ==
  /\ tasks[n].phase = "Pending"
  /\ \E e \in Ended :
       /\ e = "Completed" => tasks[n].src[2]
       /\ tasks' = [tasks EXCEPT ![n].phase = e]
  /\ events' = [p \in Runs |-> IF n \in watched[p] THEN Append(events[p], n) ELSE events[p]]
  /\ watched' = [p \in Runs |-> watched[p] \ {n}]
  /\ UNCHANGED <<versions, worldVars, used, cache, queued, stopping, run, todo, waiting>>

(* The watch was closed from the creation of n to its end.                 *)
WatchGap(p, n) ==
  /\ n \in watched[p] /\ Spend("gap")
  /\ watched' = [watched EXCEPT ![p] = @ \ {n}]
  /\ UNCHANGED <<versions, worldVars, tasks, cache, queued, stopping, run, todo, waiting, events>>

(* The manager fails: main cancels the context of the process and exits.   *)
Stop(o) ==
  /\ ~stopping[o] /\ OneMore("restart") \in Allowed
  /\ stopping' = [stopping EXCEPT ![o] = TRUE]
  /\ UNCHANGED <<versions, worldVars, tasks, used, cache, queued, runVars>>

(* The process ends, in that way or killed; the new one lists Restores.    *)
Restart(o) ==
  LET own(p) == Op(p) = o
      listed(r) == IF Exists(r) THEN Len(versions[r]) - 1 ELSE Len(versions[r]) IN
  /\ Spend("restart")
  /\ stopping' = [stopping EXCEPT ![o] = FALSE]
  /\ queued' = [queued EXCEPT ![o] = {}]
  /\ cache' = [p \in Runs |-> IF own(p)
       THEN [known |-> FALSE, seen |-> listed(Rs(p)), phase |-> "Gone"] ELSE cache[p]]
  /\ run' = [p \in Runs |-> IF own(p) THEN IdleRun ELSE run[p]]
  /\ todo' = [p \in Runs |-> IF own(p) THEN {} ELSE todo[p]]
  /\ waiting' = [p \in Runs |-> IF own(p) THEN {} ELSE waiting[p]]
  /\ watched' = [p \in Runs |-> IF own(p) THEN {} ELSE watched[p]]
  /\ events' = [p \in Runs |-> IF own(p) THEN <<>> ELSE events[p]]
  /\ UNCHANGED <<versions, worldVars, tasks>>

-----------------------------------------------------------------------------
Handler(p) ==
  \/ Skip(p) \/ Start(p) \/ StartFails(p)
  \/ GetBackup(p) \/ GetBackupFails(p)
  \/ InitStage(p) \/ InitStageFails(p) \/ AddTask(p)
  \/ Receive(p) \/ WaitFails(p)
  \/ Complete(p) \/ Fail(p)

Next ==
  \/ \E r \in Restores : CreateRestore(r) \/ EditRestore(r) \/ DeleteRestore(r)
  \/ \E p \in Runs : Handler(p) \/ Deliver(p) \/ Expire(p)
  \/ \E n \in Names : TaskEnds(n)
  \/ \E p \in Runs, n \in Names : WatchGap(p, n)
  \/ \E o \in Operators : Stop(o) \/ Restart(o)

Spec == Init /\ [][Next]_vars

(* Handlers are scheduled, the watch delivers, deadlines pass, and a       *)
(* process that is stopping exits. Tasks may never end.                    *)
Fairness ==
  /\ \A p \in Runs : WF_vars(Handler(p)) /\ WF_vars(Deliver(p)) /\ WF_vars(Expire(p))
  /\ \A o \in Operators : WF_vars(stopping[o] /\ Restart(o))

FairSpec == Spec /\ Fairness

-----------------------------------------------------------------------------
(* The targets for which a task of r has played back a finished snapshot   *)
(* of the Backup r names.                                                  *)
PlayedBack(r) ==
  {t \in Targets : \E n \in Names, j \in Jobs :
     /\ n[1] = r /\ tasks[n] = [src |-> j, phase |-> "Completed"]
     /\ Target(j) = t /\ From[j[1]] = Source[r] /\ j[2]}

(* A Restore of a Backup that was Completed when the Restore was made is   *)
(* Completed only if everything the Backup selects has been played back:   *)
(* through name collisions of tasks, creations that fail and are only      *)
(* logged, missed reports, snapshots left over by repeated runs of the     *)
(* Backup, restarts and concurrent processes. A list read from an old      *)
(* cache (used["lag"]) is the one thing that may leave a target out.       *)
CompletedIsRestored ==
  \A r \in sound :
    Phase(r) = "Completed" /\ used["lag"] = 0 => Selected[Source[r]] \subseteq PlayedBack(r)

(* No snapshot is played back twice for a Restore, whatever restarts, lost *)
(* answers, edits and rolling updates: a second run would overwrite what   *)
(* has been written since the first.                                       *)
PlayedOnce ==
  \A m, n \in Names :
    m[1] = n[1] /\ tasks[m] # NoTask /\ tasks[n] # NoTask /\ tasks[m].src[1] = tasks[n].src[1]
      => m = n

(* For its readers a Restore is a task: one outcome, kept until the Restore*)
(* is removed, whoever else writes it.                                     *)
TaskPhase == [r \in Restores |-> IF Phase(r) \in Pending THEN "Pending" ELSE Phase(r)]
Task == INSTANCE SnapshotTask WITH Tasks <- Restores, phase <- TaskPhase
OneOutcome == Task!Spec

(* A worker is never held for ever, though tasks may never end.            *)
HandlerReturns == \A p \in Runs : run[p].pc # "idle" ~> run[p].pc = "idle"

(* A Restore that nobody edits is started or goes if the calls of the start*)
(* succeed, also when the process is restarted or another one is faster.   *)
Started ==
  [](used["api"] = 0 /\ used["edit"] = 0) =>
    \A r \in Restores : Phase(r) = "New" ~> Phase(r) # "New"

-----------------------------------------------------------------------------
(* The inductive invariant behind the safety properties.                   *)
Active(p) == run[p].pc # "idle"

(* What is new in a cache was new on the server.                           *)
CacheHonest ==
  \A p \in Runs :
    LET c == cache[p] IN
    c.phase = "New" => c.seen \in 1 .. Len(versions[Rs(p)]) /\ versions[Rs(p)][c.seen] = "New"

(* A run holds a Restore that is InProgress until it is removed, and no    *)
(* other run does: the first update lets one of them through.              *)
RunsHold ==
  \A p \in Runs : Active(p) => Phase(Rs(p)) \in {"InProgress", "Gone"}
RunsApart ==
  \A p, q \in Runs : Active(p) /\ Active(q) /\ Rs(p) = Rs(q) => p = q

StagesKnown ==
  \A p \in Runs :
    /\ run[p].pc = "get" => run[p].stage = "get"
    /\ run[p].pc \in {"init", "add", "wait", "complete"} => run[p].stage # "get"

(* A task has the name its snapshot calls for, and ends well only with     *)
(* data; nothing has a task before a run gets to it.                       *)
TasksHonest ==
  \A n \in Names : tasks[n] # NoTask =>
    LET j == tasks[n].src IN
    /\ j \in Jobs /\ From[j[1]] = Source[n[1]] /\ Key(j) = n[2]
    /\ tasks[n].phase = "Completed" => j[2]
HasTask(r, s) == \E n \in Names : n[1] = r /\ tasks[n] # NoTask /\ tasks[n].src[1] = s
Untouched ==
  /\ \A r \in Restores, s \in Snapshots : Phase(r) \in {"Absent", "New"} => ~HasTask(r, s)
  /\ \A p \in Runs, s \in Snapshots :
       Active(p) /\ HasTask(Rs(p), s) =>
         run[p].stage = "volume" \/ (run[p].stage = "db" /\ StageOf(Of[s]) = "db")
  /\ \A p \in Runs, s \in Snapshots :
       run[p].pc = "init" /\ HasTask(Rs(p), s) =>
         run[p].stage = "volume" /\ StageOf(Of[s]) = "db"
TodoFresh ==
  \A p \in Runs : run[p].pc = "add" => \A j \in todo[p] :
    /\ From[j[1]] = Source[Rs(p)] /\ StageOf(Target(j)) = run[p].stage
    /\ ~HasTask(Rs(p), j[1])
    /\ \A k \in todo[p] : k[1] = j[1] => k = j

(* Informers report tasks of their own Restore, when they have ended.      *)
WatchSound ==
  \A p \in Runs : \A n \in watched[p] : n[1] = Rs(p) /\ tasks[n].phase = "Pending"
EventsSound ==
  \A p \in Runs : \A i \in 1 .. Len(events[p]) :
    LET n == events[p][i] IN n[1] = Rs(p) /\ tasks[n].phase \in Ended

(* Of what the Backup has, each target of the stage is to do, waited for   *)
(* or played back, unless the run waits for a task without data for ever.  *)
Owed(p) == p \in Runs /\ Rs(p) \in sound /\ used["lag"] = 0
Due(p, st) == {t \in Selected[Source[Rs(p)]] : StageOf(t) = st}
Awaited(p) == {t \in Targets : \E n \in waiting[p] : n[2] = t \/ n[2] = None
                                  \/ (n[2] \in Snapshots /\ Of[n[2]] = t)}
SoundHasData ==
  \A r \in sound : Selected[Source[r]] \subseteq HasData(Source[r], snaps)
StageSound ==
  \A p \in Runs : Owed(p) =>
    /\ run[p].pc \in {"add", "wait"} =>
         Due(p, run[p].stage) \subseteq
           {Target(j) : j \in todo[p]} \cup Awaited(p) \cup PlayedBack(Rs(p))
    /\ run[p].pc = "wait" => todo[p] = {}
    /\ Active(p) /\ run[p].stage = "volume" => Due(p, "db") \subseteq PlayedBack(Rs(p))
    /\ run[p].pc = "complete" => Selected[Source[Rs(p)]] \subseteq PlayedBack(Rs(p))

IInv ==
  /\ TypeOK /\ CacheHonest /\ RunsHold /\ RunsApart /\ StagesKnown
  /\ TasksHonest /\ Untouched /\ TodoFresh /\ PlayedOnce
  /\ WatchSound /\ EventsSound /\ SoundHasData /\ StageSound /\ CompletedIsRestored
=============================================================================
