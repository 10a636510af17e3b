------------------------- MODULE DbBackupController -------------------------
(***************************************************************************)
(* The reconciler of DbBackup objects (dbbackup_controller.go), which runs *)
(* a dump of one database and puts the file where the DbBackup says, under *)
(* the manager of controller-runtime: one worker in the process that leads *)
(* and, in every process, a cache of the objects that may be behind.       *)
(*                                                                         *)
(* Leader election does not fence: a process that was suspended while it   *)
(* led goes on where it was after another one has been elected.            *)
(***************************************************************************)
EXTENDS Integers, Sequences, FiniteSets

CONSTANTS
  Operators,   \* operator processes
  DbBackups,   \* names of DbBackup objects
  Slots,       \* storage, namespace, application, kind and name of a database:
               \* all that a path is made of but the time
  FileSlots,   \* those on the file system, where a failed copy leaves a torn file
  Slot,        \* Slot[d]: where the dump of d goes
  MaxTime,     \* bound: the seconds of the clock that paths are made of
  Kinds,       \* kinds of disturbance that are bounded (see Spend)
  Allowed,     \* Allowed[k]: bound on the disturbances of kind k
  None, Torn   \* no file, and a file cut short

ASSUME FileSlotsAssumption == FileSlots \subseteq Slots
ASSUME SlotAssumption == Slot \in [DbBackups -> Slots]
ASSUME MaxTimeAssumption == MaxTime \in Nat
ASSUME KindsAssumption == {"api", "lost", "restart", "lapse", "edit", "delete"} \subseteq Kinds
ASSUME AllowedAssumption == Allowed \in [Kinds -> Nat]
ASSUME NoneAssumption ==
         None \notin DbBackups \cup Slots \X (0 .. MaxTime) /\ Torn \notin DbBackups

VARIABLES
  versions,   \* versions[d]: the phases d went through on the API server
  path,       \* path[d]: status.path
  files,      \* files[p]: whose dump is stored at p
  dumps,      \* dumps[d]: when the database was dumped for d (history)
  now,        \* the clock, in seconds
  used,       \* used[k]: disturbances of kind k so far
  leads,      \* the processes that believe they lead
  cache,      \* cache[o][d]: d as the cache of process o has it
  queued,     \* queued[o]: keys waiting in the workqueue
  run         \* run[o]: control of the only worker

serverVars == <<versions, path>>
envVars == <<now, used>>
vars == <<versions, path, files, dumps, now, used, leads, cache, queued, run>>

-----------------------------------------------------------------------------
Paths == Slots \X (0 .. MaxTime)
PhaseName == {"Absent", "New", "InProgress", "Completed", "Failed", "Gone"}
NoObject  == {"Absent", "Gone"}

RunRec  == [pc : {"idle", "dump", "store", "complete", "fail"},
            item : DbBackups \cup {None}, rv : Nat, at : 0 .. MaxTime]
IdleRun == [pc |-> "idle", item |-> None, rv |-> 0, at |-> 0]

Phase(d)  == IF versions[d] = <<>> THEN "Absent" ELSE versions[d][Len(versions[d])]
Exists(d) == Phase(d) \notin NoObject

Spend(k) == used[k] < Allowed[k] /\ used' = [used EXCEPT ![k] = @ + 1]
Write(d, p) == versions' = [versions EXCEPT ![d] = Append(@, p)]

TypeOK ==
  /\ versions \in [DbBackups -> Seq(PhaseName \ {"Absent"})]
  /\ path \in [DbBackups -> Paths \cup {None}]
  /\ files \in [Paths -> DbBackups \cup {None, Torn}]
  /\ dumps \in [DbBackups -> Seq(0 .. MaxTime)]
  /\ now \in 0 .. MaxTime
  /\ used \in [Kinds -> Nat]
  /\ leads \subseteq Operators
  /\ cache \in [Operators -> [DbBackups -> [seen : Nat, phase : PhaseName]]]
  /\ queued \in [Operators -> SUBSET DbBackups]
  /\ run \in [Operators -> RunRec]

Init ==
  /\ versions = [d \in DbBackups |-> <<>>]
  /\ path = [d \in DbBackups |-> None]
  /\ files = [p \in Paths |-> None]
  /\ dumps = [d \in DbBackups |-> <<>>]
  /\ now = 0
  /\ used = [k \in Kinds |-> 0]
  /\ leads = {}
  /\ cache = [o \in Operators |-> [d \in DbBackups |-> [seen |-> 0, phase |-> "Absent"]]]
  /\ queued = [o \in Operators |-> {}]
  /\ run = [o \in Operators |-> IdleRun]

-----------------------------------------------------------------------------
(* The backuppers, users, the garbage collector, the clock.                *)
CreateDbBackup(d) ==
  /\ versions[d] = <<>>
  /\ Write(d, "New")
  /\ UNCHANGED <<path, files, dumps, envVars, leads, cache, queued, run>>

EditDbBackup(d) ==
  /\ Exists(d) /\ Spend("edit")
  /\ Write(d, Phase(d))
  /\ UNCHANGED <<path, files, dumps, now, leads, cache, queued, run>>

DeleteDbBackup(d) ==
  /\ Exists(d) /\ Spend("delete")
  /\ Write(d, "Gone")
  /\ UNCHANGED <<path, files, dumps, now, leads, cache, queued, run>>

Tick ==
  /\ now < MaxTime
  /\ now' = now + 1
  /\ UNCHANGED <<serverVars, files, dumps, used, leads, cache, queued, run>>

-----------------------------------------------------------------------------
(* The manager: the cache moves to a later version, skipping some after a  *)
(* new list, and a leader queues the key.                                  *)
Deliver(o, d) ==
  /\ \E v \in cache[o][d].seen + 1 .. Len(versions[d]) :
       cache' = [cache EXCEPT ![o][d] = [seen |-> v, phase |-> versions[d][v]]]
  /\ queued' = IF o \in leads THEN [queued EXCEPT ![o] = @ \cup {d}] ELSE queued
  /\ UNCHANGED <<serverVars, files, dumps, envVars, leads, run>>

Known(o) == {d \in DbBackups : cache[o][d].phase \notin NoObject}

(* The controllers of a process start when it is elected; a lease taken    *)
(* over from a suspended leader leaves two.                                *)
Elect(o) ==
  /\ o \notin leads
  /\ IF leads = {} THEN UNCHANGED used ELSE Spend("lapse")
  /\ leads' = leads \cup {o}
  /\ queued' = [queued EXCEPT ![o] = Known(o)]
  /\ UNCHANGED <<serverVars, files, dumps, now, cache, run>>

(* Every minute the informer reports the cached objects again.             *)
Resync(o) ==
  /\ o \in leads
  /\ queued' = [queued EXCEPT ![o] = @ \cup Known(o)]
  /\ UNCHANGED <<serverVars, files, dumps, envVars, leads, cache, run>>

(* The process ends, by a signal, a crash or the loss of its lease. The    *)
(* list it starts with again may itself be old.                            *)
Restart(o) ==
  /\ Spend("restart")
  /\ leads' = leads \ {o}
  /\ cache' = [cache EXCEPT ![o] = [d \in DbBackups |-> [seen |-> 0, phase |-> "Absent"]]]
  /\ queued' = [queued EXCEPT ![o] = {}]
  /\ run' = [run EXCEPT ![o] = IdleRun]
  /\ UNCHANGED <<serverVars, files, dumps, now>>

-----------------------------------------------------------------------------
(* Reconcile.                                                              *)
Take(o, d)  == o \in leads /\ d \in queued[o] /\ run[o].pc = "idle"
IsNew(o, d) == cache[o][d].phase = "New"
Forget(o, d) == queued' = [queued EXCEPT ![o] = @ \ {d}]
Requeue(o)  == queued' = [queued EXCEPT ![o] = @ \cup {run[o].item}]

(* Not in the cache, or not new there.                                     *)
Skip(o, d) ==
  /\ Take(o, d) /\ ~IsNew(o, d)
  /\ Forget(o, d)
  /\ UNCHANGED <<serverVars, files, dumps, envVars, leads, cache, run>>

(* Status().Update carries the version that was read in the cache.         *)
MutCurrent(o, d) == Exists(d)
Current(o, d) == Exists(d) /\ cache[o][d].seen = Len(versions[d])

Start(o, d) ==
  /\ Take(o, d) /\ IsNew(o, d) /\ Current(o, d)
  /\ Write(d, "InProgress")
  /\ run' = [run EXCEPT ![o] = [pc |-> "dump", item |-> d,
                                rv |-> Len(versions[d]) + 1, at |-> 0]]
  /\ Forget(o, d)
  /\ UNCHANGED <<path, files, dumps, envVars, leads, cache>>

(* A conflict, or the call fails: the key is tried again later.            *)
MutRetry(o, d) == Forget(o, d)
Retry(o, d) == UNCHANGED queued

StartRefused(o, d) ==
  /\ Take(o, d) /\ IsNew(o, d)
  /\ IF Current(o, d) THEN Spend("api") ELSE UNCHANGED used
  /\ Retry(o, d)
  /\ UNCHANGED <<serverVars, files, dumps, now, leads, cache, run>>

(* The update was done and its answer lost: this Reconcile returns.        *)
StartUnheard(o, d) ==
  /\ Take(o, d) /\ IsNew(o, d) /\ Current(o, d)
  /\ Spend("lost")
  /\ Write(d, "InProgress")
  /\ Retry(o, d)
  /\ UNCHANGED <<path, files, dumps, now, leads, cache, run>>

Goto(o, p) == run' = [run EXCEPT ![o].pc = p]

MutGiveUp(o) == run' = [run EXCEPT ![o] = IdleRun]
MutIgnore(o) == Goto(o, "complete")
GiveUp(o) == Goto(o, "fail")

(* The path is named when the dump is done.                                *)
Dump(o) ==
  /\ run[o].pc = "dump"
  /\ dumps' = [dumps EXCEPT ![run[o].item] = Append(@, now)]
  /\ run' = [run EXCEPT ![o] = [@ EXCEPT !.pc = "store", !.at = now]]
  /\ UNCHANGED <<serverVars, files, envVars, leads, cache, queued>>

(* No Db, no way to its service, or the dump command fails.                *)
DumpFails(o) ==
  /\ run[o].pc = "dump"
  /\ GiveUp(o)
  /\ UNCHANGED <<serverVars, files, dumps, envVars, leads, cache, queued>>

PathOf(o) == <<Slot[run[o].item], run[o].at>>

Store(o) ==
  /\ run[o].pc = "store"
  /\ files' = [files EXCEPT ![PathOf(o)] = run[o].item]
  /\ Goto(o, "complete")
  /\ UNCHANGED <<serverVars, dumps, envVars, leads, cache, queued>>

(* The store cannot be reached, or the file system fails in the middle of  *)
(* the copy; an object is put as a whole or not at all. A crash in the     *)
(* middle is this step and then Restart.                                   *)
StoreFails(o) ==
  /\ run[o].pc = "store"
  /\ \/ UNCHANGED files
     \/ /\ Slot[run[o].item] \in FileSlots
        /\ files' = [files EXCEPT ![PathOf(o)] = Torn]
  /\ GiveUp(o)
  /\ UNCHANGED <<serverVars, dumps, envVars, leads, cache, queued>>

(* The last Status().Update carries the version written at the start.      *)
MutHolds(o) == TRUE
Holds(o) == run[o].rv = Len(versions[run[o].item])

EndRun(o) == run' = [run EXCEPT ![o] = IdleRun]

MutRecord(o) == path' = [path EXCEPT ![run[o].item] = <<Slot[run[o].item], now>>]
Record(o) == path' = [path EXCEPT ![run[o].item] = PathOf(o)]

Complete(o) ==
  LET d == run[o].item IN
  /\ run[o].pc = "complete"
  /\ \/ /\ Holds(o)
        /\ Write(d, "Completed")
        /\ Record(o)
        /\ \/ UNCHANGED <<queued, used>>
           \/ Requeue(o) /\ Spend("lost")
     \/ /\ IF Holds(o) THEN Spend("api") ELSE UNCHANGED used
        /\ Requeue(o)
        /\ UNCHANGED serverVars
  /\ EndRun(o)
  /\ UNCHANGED <<files, dumps, now, leads, cache>>

(* updateStatusToFailed: a merge patch without a version.                  *)
Fail(o) ==
  LET d == run[o].item IN
  /\ run[o].pc = "fail"
  /\ \/ /\ Exists(d)
        /\ Write(d, "Failed")
        /\ \/ UNCHANGED <<queued, used>>
           \/ Requeue(o) /\ Spend("lost")
     \/ /\ IF Exists(d) THEN Spend("api") ELSE UNCHANGED used
        /\ Requeue(o)
        /\ UNCHANGED versions
  /\ EndRun(o)
  /\ UNCHANGED <<path, files, dumps, now, leads, cache>>

-----------------------------------------------------------------------------
Reconcile(o) ==
  \/ \E d \in DbBackups : Skip(o, d) \/ Start(o, d) \/ StartRefused(o, d) \/ StartUnheard(o, d)
  \/ Dump(o) \/ DumpFails(o) \/ Store(o) \/ StoreFails(o)
  \/ Complete(o) \/ Fail(o)

Next ==
  \/ \E d \in DbBackups : CreateDbBackup(d) \/ EditDbBackup(d) \/ DeleteDbBackup(d)
  \/ \E o \in Operators :
       \/ Reconcile(o) \/ Elect(o) \/ Resync(o) \/ Restart(o)
       \/ \E d \in DbBackups : Deliver(o, d)
  \/ Tick

Spec == Init /\ [][Next]_vars

(* Some process leads; watches deliver; each key of the queue gets its     *)
(* turn, whatever the others do; dump commands end.                        *)
Fairness ==
  \A o \in Operators :
    /\ WF_vars(leads = {} /\ Elect(o)) /\ WF_vars(run[o].pc # "idle" /\ Reconcile(o))
    /\ \A d \in DbBackups :
         /\ WF_vars(Deliver(o, d))
         /\ SF_vars(Skip(o, d) \/ Start(o, d) \/ StartUnheard(o, d))
         /\ WF_vars(StartRefused(o, d))

FairSpec == Spec /\ Fairness

-----------------------------------------------------------------------------
(* The database is dumped at most once for a DbBackup, though caches may be*)
(* old, keys are queued again every minute, and two processes may believe  *)
(* they lead: whoever loses the race for the version does not dump.        *)
DumpOnce == \A d \in DbBackups : Len(dumps[d]) <= 1

(* Where a Completed DbBackup says its dump is, there is its own dump, in  *)
(* full: failed copies, restarts, suspended leaders and later dumps of the *)
(* same database do not touch it, unless two are made in one second.       *)
At(d) == {dumps[d][i] : i \in DOMAIN dumps[d]}
SecondsApart ==
  \A d, e \in DbBackups : d # e /\ Slot[d] = Slot[e] => At(d) \cap At(e) = {}

CompletedIsStored ==
  SecondsApart =>
    \A d \in DbBackups : Phase(d) = "Completed" => path[d] # None /\ files[path[d]] = d

(* A DbBackup behaves as what the Backup controller waits for: one outcome,*)
(* kept until it is removed. The blind patch of a failure overwrites no    *)
(* outcome, and no late update brings a removed object back.               *)
TaskPhase == [d \in DbBackups |->
  IF Phase(d) \in {"New", "InProgress"} THEN "Pending" ELSE Phase(d)]
Task == INSTANCE SnapshotTask WITH Tasks <- DbBackups, phase <- TaskPhase
OneOutcome == Task!Spec

(* Whatever fails, every new DbBackup is started by some process or goes.  *)
Started == \A d \in DbBackups : Phase(d) = "New" ~> Phase(d) # "New"

(* Without crashes, failed calls and edits, each one gets an outcome, also *)
(* when the lease moves to another process in the middle.                  *)
Undisturbed == \A k \in {"api", "lost", "restart", "edit"} : used[k] = 0
Reported ==
  []Undisturbed => \A d \in DbBackups :
                     Phase(d) = "New" ~> Phase(d) \in {"Completed", "Failed", "Gone"}

-----------------------------------------------------------------------------
(* The inductive invariant behind the safety properties.                   *)

(* A cached phase is one the server had.                                   *)
CacheHonest ==
  \A o \in Operators, d \in DbBackups :
    LET c == cache[o][d] IN
    IF c.seen = 0 THEN c.phase = "Absent"
                  ELSE c.seen <= Len(versions[d]) /\ c.phase = versions[d][c.seen]

(* A run holds a DbBackup that is shown as InProgress until it is removed, *)
(* and no other run does.                                                  *)
Working(o) == run[o].pc # "idle"
RunHolds(o) ==
  Working(o) =>
    /\ run[o].item \in DbBackups
    /\ Phase(run[o].item) \in {"InProgress", "Gone"}
    /\ run[o].rv <= Len(versions[run[o].item])
    /\ Holds(o) => Phase(run[o].item) = "InProgress"
RunsHold == \A o \in Operators : RunHolds(o)
RunsApart ==
  \A o, q \in Operators : Working(o) /\ Working(q) /\ o # q => run[o].item # run[q].item

(* Nothing is dumped before the start, nor after a removal before it.      *)
NotDumped ==
  /\ \A d \in DbBackups : Phase(d) \in {"Absent", "New"} => dumps[d] = <<>>
  /\ \A o \in Operators : run[o].pc = "dump" => dumps[run[o].item] = <<>>

(* Places are named when dumps are made; the file is in place before the   *)
(* outcome is written.                                                     *)
Placed(o) == run[o].pc \in {"store", "complete"}
OwnPlace ==
  /\ \A o \in Operators : Placed(o) => run[o].at \in At(run[o].item)
  /\ \A d \in DbBackups : path[d] # None => \E t \in At(d) : path[d] = <<Slot[d], t>>
FileReady ==
  SecondsApart =>
    \A o \in Operators : run[o].pc = "complete" => files[PathOf(o)] = run[o].item

IInv == TypeOK /\ CacheHonest /\ RunsHold /\ RunsApart /\ NotDumped /\ DumpOnce
FInv == IInv /\ OwnPlace /\ FileReady /\ CompletedIsStored
=============================================================================
