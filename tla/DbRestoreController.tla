------------------------ MODULE DbRestoreController ------------------------
(***************************************************************************)
(* The reconciler of DbRestore objects (dbrestore_controller.go), which    *)
(* fetches a dump file from a store and plays it back into a database with *)
(* the client of its engine (pkg/db/manage, *_dump.go). Its status         *)
(* protocol is that of the DbBackup reconciler; what differs is what it    *)
(* does in between, and that doing it twice destroys data.                 *)
(***************************************************************************)
EXTENDS Integers, Sequences, FiniteSets

CONSTANTS
  Operators,   \* operator processes
  DbRestores,  \* names of DbRestore objects
  Databases,
  Into,        \* Into[t]: the database that t plays back into
  Configs,     \* configurations databases and their dumps may have (see Config)
  Kinds,       \* kinds of disturbance that are bounded (see Spend)
  Allowed,     \* bound: the numbers of disturbances of each kind that may happen together
  None         \* no DbRestore, no file

ASSUME IntoAssumption == Into \in [DbRestores -> Databases]
ASSUME KindsAssumption ==
         {"api", "lost", "restart", "lapse", "edit", "delete", "sql"} \subseteq Kinds
ASSUME AllowedAssumption == Allowed \subseteq [Kinds -> Nat]
ASSUME NoneAssumption == None \notin DbRestores

VARIABLES
  versions,   \* versions[t]: the phases t went through on the API server
  config,     \* config[d]: engine and spec.config of the Db
  file,       \* file[t]: the stored dump that spec.path of t names
  content,    \* content[d]: the DbRestore whose dump d holds, or how far it is from that
  plays,      \* plays[t]: how often the dump was played back for t (history)
  used,       \* used[k]: disturbances of kind k so far
  leads,      \* the processes that believe they lead
  cache,      \* cache[o][t]: t as the cache of process o has it
  queued,     \* queued[o]: keys waiting in the workqueue
  run         \* run[o]: control of the only worker

dataVars == <<config, file, content, plays>>
vars == <<versions, config, file, content, plays, used, leads, cache, queued, run>>

-----------------------------------------------------------------------------
PhaseName == {"Absent", "New", "InProgress", "Completed", "Failed", "Gone"}
NoObject  == {"Absent", "Gone"}
Pc        == {"idle", "open", "play", "playing", "complete", "fail"}
RunRec    == [pc : Pc, item : DbRestores \cup {None}, rv : Nat]
IdleRun   == [pc |-> "idle", item |-> None, rv |-> 0]

Config == [engine : {"mysql", "postgresql"}, format : {"", "c", "d", "t", "p"},
           level : BOOLEAN, ignore : BOOLEAN]   \* a level from 1 to 9, a valid expression
ASSUME ConfigsAssumption == Configs \subseteq Config

(* What a database holds: its own data, one dump in full, a dump played    *)
(* back in part, or several on top of each other.                          *)
Content == {"own", "whole", "part", "mixed"} \X (DbRestores \cup {None})
Mixed == <<"mixed", None>>

Phase(t)  == IF versions[t] = <<>> THEN "Absent" ELSE versions[t][Len(versions[t])]
Exists(t) == Phase(t) \notin NoObject
OneMore(k) == [used EXCEPT ![k] = @ + 1]
Spend(k) == OneMore(k) \in Allowed /\ used' = OneMore(k)
Write(t, p) == versions' = [versions EXCEPT ![t] = Append(@, p)]

-----------------------------------------------------------------------------
(* Files. genPersistentPath puts the format in the name when one is set,   *)
(* and .gz when a level is. pg_dump compresses plain text as a whole and   *)
(* archives inside; it does not compress a tar, and does not write a       *)
(* directory to its standard output: those have no file.                   *)
Refused(c) == c.engine = "postgresql" /\ (c.format = "d" \/ (c.format = "t" /\ c.level))
Dumped(c) ==
  IF Refused(c) THEN None
  ELSE LET pg == c.engine = "postgresql" IN
       [engine |-> c.engine, plain |-> pg /\ c.format = "p", gz |-> pg /\ c.level,
        packed |-> pg /\ c.level /\ c.format = "p"]

(* Restore goes by the name: psql for text, pg_restore for archives of any *)
(* form. gunzip would come first if filepath.Ext(suffix), which begins with*)
(* a dot, were "gz".                                                       *)
Unzips(f) == FALSE
Reads(f) == Unzips(f) = f.packed

(* What a statement in error comes to. mysql and pg_restore report it, psql*)
(* only when it loses the server; with restore_ignore_error_regex, the     *)
(* error of the command is hidden by that of regexp.Compile, which is nil. *)
MutToldAs(c, f) == {"complete"}
ToldAs(c, f) ==
  CASE f.engine = "mysql" -> {"fail"}
    [] f.engine # "mysql" /\ c.ignore -> {"complete"}
    [] OTHER -> IF f.plain THEN {"fail", "complete"} ELSE {"fail"}

-----------------------------------------------------------------------------
TypeOK ==
  /\ versions \in [DbRestores -> Seq(PhaseName \ {"Absent"})]
  /\ config \in [Databases -> Config]
  /\ \A t \in DbRestores : file[t] = None \/ \E c \in Config : file[t] = Dumped(c)
  /\ content \in [Databases -> Content]
  /\ plays \in [DbRestores -> Nat]
  /\ used \in [Kinds -> Nat]
  /\ leads \subseteq Operators
  /\ cache \in [Operators -> [DbRestores -> [seen : Nat, phase : PhaseName]]]
  /\ queued \in [Operators -> SUBSET DbRestores]
  /\ run \in [Operators -> RunRec]

Init ==
  /\ versions = [t \in DbRestores |-> <<>>]
  /\ config \in [Databases -> Configs]
  /\ file \in [DbRestores -> {None} \cup {Dumped(c) : c \in Configs}]
  /\ \A t \in DbRestores : file[t] # None => file[t].engine = config[Into[t]].engine
  /\ content = [d \in Databases |-> <<"own", None>>]
  /\ plays = [t \in DbRestores |-> 0]
  /\ used = [k \in Kinds |-> 0]
  /\ leads = {}
  /\ cache = [o \in Operators |-> [t \in DbRestores |-> [seen |-> 0, phase |-> "Absent"]]]
  /\ queued = [o \in Operators |-> {}]
  /\ run = [o \in Operators |-> IdleRun]

-----------------------------------------------------------------------------
(* Restorers and users.                                                    *)
CreateDbRestore(t) ==
  /\ versions[t] = <<>>
  /\ Write(t, "New")
  /\ UNCHANGED <<dataVars, used, leads, cache, queued, run>>

EditDbRestore(t) ==
  /\ Exists(t) /\ Spend("edit")
  /\ Write(t, Phase(t))
  /\ UNCHANGED <<dataVars, leads, cache, queued, run>>

DeleteDbRestore(t) ==
  /\ Exists(t) /\ Spend("delete")
  /\ Write(t, "Gone")
  /\ UNCHANGED <<dataVars, leads, cache, queued, run>>

(* The manager: caches, leader election, the periodic reports of cached    *)
(* objects, the end of a process.                                          *)
Deliver(o, t) ==
  /\ \E v \in cache[o][t].seen + 1 .. Len(versions[t]) :
       cache' = [cache EXCEPT ![o][t] = [seen |-> v, phase |-> versions[t][v]]]
  /\ queued' = IF o \in leads THEN [queued EXCEPT ![o] = @ \cup {t}] ELSE queued
  /\ UNCHANGED <<versions, dataVars, used, leads, run>>

Known(o) == {t \in DbRestores : cache[o][t].phase \notin NoObject}

Elect(o) ==
  /\ o \notin leads
  /\ IF leads = {} THEN UNCHANGED used ELSE Spend("lapse")
  /\ leads' = leads \cup {o}
  /\ queued' = [queued EXCEPT ![o] = Known(o)]
  /\ UNCHANGED <<versions, dataVars, cache, run>>

Resync(o) ==
  /\ o \in leads
  /\ queued' = [queued EXCEPT ![o] = @ \cup Known(o)]
  /\ UNCHANGED <<versions, dataVars, used, leads, cache, run>>

Restart(o) ==
  /\ Spend("restart")
  /\ leads' = leads \ {o}
  /\ cache' = [cache EXCEPT ![o] = [t \in DbRestores |-> [seen |-> 0, phase |-> "Absent"]]]
  /\ queued' = [queued EXCEPT ![o] = {}]
  /\ run' = [run EXCEPT ![o] = IdleRun]
  /\ UNCHANGED <<versions, dataVars>>

-----------------------------------------------------------------------------
(* Reconcile.                                                              *)
Take(o, t)  == o \in leads /\ t \in queued[o] /\ run[o].pc = "idle"
IsNew(o, t) == cache[o][t].phase = "New"
Forget(o, t) == queued' = [queued EXCEPT ![o] = @ \ {t}]
Requeue(o)  == queued' = [queued EXCEPT ![o] = @ \cup {run[o].item}]
Goto(o, p)  == run' = [run EXCEPT ![o].pc = p]
EndRun(o)   == run' = [run EXCEPT ![o] = IdleRun]

Skip(o, t) ==
  /\ Take(o, t) /\ ~IsNew(o, t)
  /\ Forget(o, t)
  /\ UNCHANGED <<versions, dataVars, used, leads, cache, run>>

MutCurrent(o, t) == Exists(t)
Current(o, t) == Exists(t) /\ cache[o][t].seen = Len(versions[t])

Start(o, t) ==
  /\ Take(o, t) /\ IsNew(o, t) /\ Current(o, t)
  /\ Write(t, "InProgress")
  /\ run' = [run EXCEPT ![o] = [pc |-> "open", item |-> t, rv |-> Len(versions[t]) + 1]]
  /\ Forget(o, t)
  /\ UNCHANGED <<dataVars, used, leads, cache>>

(* A conflict or a call that fails, and an update whose answer is lost: the*)
(* key comes back.                                                         *)
StartRefused(o, t) ==
  /\ Take(o, t) /\ IsNew(o, t)
  /\ IF Current(o, t) THEN Spend("api") ELSE UNCHANGED used
  /\ UNCHANGED <<versions, dataVars, leads, cache, queued, run>>

StartUnheard(o, t) ==
  /\ Take(o, t) /\ IsNew(o, t) /\ Current(o, t)
  /\ Spend("lost") /\ Write(t, "InProgress")
  /\ UNCHANGED <<dataVars, leads, cache, queued, run>>

(* The Db, its service, the store and the file are there, or one is not.   *)
Open(o) ==
  /\ run[o].pc = "open" /\ file[run[o].item] # None
  /\ Goto(o, "play")
  /\ UNCHANGED <<versions, dataVars, used, leads, cache, queued>>

OpenFails(o) ==
  /\ run[o].pc = "open"
  /\ IF file[run[o].item] = None THEN UNCHANGED used ELSE Spend("api")
  /\ Goto(o, "fail")
  /\ UNCHANGED <<versions, dataVars, leads, cache, queued>>

Playing(d) == {q \in Operators : run[q].pc = "playing" /\ Into[run[q].item] = d}

(* The client of the engine is fed the file; it is not one transaction.    *)
Play(o) ==
  LET t == run[o].item  d == Into[t] IN
  /\ run[o].pc = "play" /\ Reads(file[t])
  /\ plays' = [plays EXCEPT ![t] = @ + 1]
  /\ content' = [content EXCEPT ![d] = IF Playing(d) = {} THEN <<"part", t>> ELSE Mixed]
  /\ Goto(o, "playing")
  /\ UNCHANGED <<versions, config, file, used, leads, cache, queued>>

(* psql takes compressed text for statements in error, and ends well.      *)
Unreadable(o) ==
  /\ run[o].pc = "play" /\ ~Reads(file[run[o].item])
  /\ Goto(o, IF Unzips(file[run[o].item]) THEN "fail" ELSE "complete")
  /\ UNCHANGED <<versions, dataVars, used, leads, cache, queued>>

PlayEnds(o) ==
  LET t == run[o].item  d == Into[t] IN
  /\ run[o].pc = "playing"
  /\ content' = [content EXCEPT ![d] = IF @ = <<"part", t>> THEN <<"whole", t>> ELSE Mixed]
  /\ Goto(o, "complete")
  /\ UNCHANGED <<versions, config, file, plays, used, leads, cache, queued>>

(* A statement fails, or the server goes.                                  *)
PlayFails(o) ==
  LET t == run[o].item IN
  /\ run[o].pc = "playing"
  /\ Spend("sql")
  /\ \E c \in ToldAs(config[Into[t]], file[t]) : Goto(o, c)
  /\ UNCHANGED <<versions, dataVars, leads, cache, queued>>

(* The last update carries the version of the first, a failure none.       *)
MutHolds(o) == TRUE
Holds(o) == run[o].rv = Len(versions[run[o].item]) /\ Exists(run[o].item)

Report(o, accepted, p) ==
  /\ \/ /\ accepted
        /\ Write(run[o].item, p)
        /\ \/ UNCHANGED <<queued, used>>
           \/ Requeue(o) /\ Spend("lost")
     \/ /\ IF accepted THEN Spend("api") ELSE UNCHANGED used
        /\ Requeue(o)
        /\ UNCHANGED versions
  /\ EndRun(o)
  /\ UNCHANGED <<dataVars, leads, cache>>

Complete(o) == run[o].pc = "complete" /\ Report(o, Holds(o), "Completed")
Fail(o) == run[o].pc = "fail" /\ Report(o, Exists(run[o].item), "Failed")

-----------------------------------------------------------------------------
Reconcile(o) ==
  \/ \E t \in DbRestores : Skip(o, t) \/ Start(o, t) \/ StartRefused(o, t) \/ StartUnheard(o, t)
  \/ Open(o) \/ OpenFails(o)
  \/ Play(o) \/ Unreadable(o) \/ PlayEnds(o) \/ PlayFails(o)
  \/ Complete(o) \/ Fail(o)

Next ==
  \/ \E t \in DbRestores : CreateDbRestore(t) \/ EditDbRestore(t) \/ DeleteDbRestore(t)
  \/ \E o \in Operators :
       \/ Reconcile(o) \/ Elect(o) \/ Resync(o) \/ Restart(o)
       \/ \E t \in DbRestores : Deliver(o, t)

Spec == Init /\ [][Next]_vars

-----------------------------------------------------------------------------
(* A dump is played back at most once for a DbRestore, though caches may be*)
(* old, keys are queued again every minute and two processes may believe   *)
(* they lead: what has been written since is not overwritten a second time.*)
PlayedOnce == \A t \in DbRestores : plays[t] <= 1

(* A DbRestore becomes Completed only when its database holds its dump in  *)
(* full, if no two processes lead at once: crashes, lost answers and other *)
(* DbRestores of the same database, which one worker takes one by one, do  *)
(* not come in between. Plain text and databases with an expression of     *)
(* errors to ignore are left out: there errors go unnoticed.               *)
Faithful(t) ==
  file[t] # None /\ (file[t].engine = "mysql" \/ (~file[t].plain /\ ~config[Into[t]].ignore))
CompletedIsPlayed ==
  [][used["lapse"] = 0 =>
       \A t \in DbRestores :
         Phase(t)' = "Completed" /\ Phase(t) # "Completed" /\ Faithful(t)
           => content[Into[t]] = <<"whole", t>>]_vars

(* For the Restore controller it is a task with one outcome.               *)
TaskPhase == [t \in DbRestores |->
  IF Phase(t) \in {"New", "InProgress"} THEN "Pending" ELSE Phase(t)]
Task == INSTANCE SnapshotTask WITH Tasks <- DbRestores, phase <- TaskPhase
OneOutcome == Task!Spec

(* db_types.go documents the formats c, d, t, p and compression levels: a  *)
(* DbRestore of a dump made with them that is Completed has been played.   *)
DocumentedPlaysBack ==
  \A t \in DbRestores : Phase(t) = "Completed" => plays[t] > 0

-----------------------------------------------------------------------------
(* The inductive invariant behind the safety properties.                   *)

(* A cached phase is one the server had.                                   *)
CacheHonest ==
  \A o \in Operators, t \in DbRestores :
    LET c == cache[o][t] IN
    IF c.seen = 0 THEN c.phase = "Absent"
                  ELSE c.seen <= Len(versions[t]) /\ c.phase = versions[t][c.seen]

(* A run holds a DbRestore that is InProgress until it is removed, and no  *)
(* other run does.                                                         *)
Working(o) == run[o].pc # "idle"
RunHolds(o) ==
  Working(o) =>
    /\ run[o].item \in DbRestores
    /\ Phase(run[o].item) \in {"InProgress", "Gone"}
    /\ run[o].rv <= Len(versions[run[o].item])
    /\ Holds(o) => Phase(run[o].item) = "InProgress"
RunsHold == \A o \in Operators : RunHolds(o)
RunsApart ==
  \A o, q \in Operators : Working(o) /\ Working(q) /\ o # q => run[o].item # run[q].item

(* Nothing is played before its turn.                                      *)
NotPlayed ==
  /\ \A t \in DbRestores : Phase(t) \in {"Absent", "New"} => plays[t] = 0
  /\ \A o \in Operators : run[o].pc \in {"open", "play"} => plays[run[o].item] = 0

(* Without a lapse of the lease one process works, and its database is as  *)
(* it left it.                                                             *)
OneWorks ==
  /\ \A o \in Operators : Working(o) => o \in leads
  /\ used["lapse"] = 0 => \A o, q \in leads : o = q
PlayedSoFar ==
  used["lapse"] = 0 => \A o \in Operators :
    LET t == run[o].item IN
    /\ run[o].pc \in {"play", "playing"} => file[t] # None
    /\ run[o].pc = "playing" => Reads(file[t]) /\ content[Into[t]] = <<"part", t>>
    /\ run[o].pc = "complete" /\ Faithful(t) => content[Into[t]] = <<"whole", t>>

IInv ==
  /\ TypeOK /\ CacheHonest /\ RunsHold /\ RunsApart /\ NotPlayed /\ PlayedOnce
  /\ OneWorks /\ PlayedSoFar
=============================================================================
