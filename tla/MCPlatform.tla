----------------------------- MODULE MCPlatform -----------------------------
(***************************************************************************)
(* Components that share no state with one another, each explored on its   *)
(* own: a behaviour is one of the component that part names, and what      *)
(* belongs to the others stays as it begins. (A Restore controller without *)
(* objects has nothing to do, so its fairness asks nothing elsewhere.)     *)
(***************************************************************************)
EXTENDS MCRestoreController

CONSTANTS Processes, NumCrds, NumRepos, MaxFaults, RepoNames, MaxWrites,
          ServedDbs, MaxLives, Secrets, ConfigMaps, MaxSlips

ASSUME PlatformAssumption ==
  /\ NumCrds \in Nat /\ NumRepos \in Nat /\ MaxFaults \in Nat
  /\ ServedDbs # {}

VARIABLES
  part,
  server, keys, proc, startFaults,
  phases, wait, chan, handler, watch, crashed,
  object, secret, pool, granted, dbCache, notes, dbQueued, job, overlap, dbFaults,
  gdb, cached, gdbSeen, install, listed, done, old, up, gdbDue, gdbPc, gdbFaults,
  status, copy, seen, world, due, pc, failures,
  source, known, target, shown, account, ns, step, pending, slips,
  write, writePc, held, stored, mine, base, same

ST == INSTANCE Startup WITH faults <- startFaults
RE == INSTANCE Repositories WITH Repos <- RepoNames
DC == INSTANCE DbController WITH Dbs <- ServedDbs, server <- granted, cache <- dbCache,
                                 queued <- dbQueued, faults <- dbFaults
GD == INSTANCE GlobalDb WITH seen <- gdbSeen, due <- gdbDue, pc <- gdbPc, faults <- gdbFaults
DS == INSTANCE DbService
SY == INSTANCE Syncer WITH todo <- pending
AO == INSTANCE ApiObjects WITH pc <- writePc, server <- held

startVars    == <<server, keys, proc, startFaults>>
repoVars     == <<phases, wait, chan, handler, watch, crashed>>
dbVars       == <<object, secret, pool, granted, dbCache, notes, dbQueued, job, overlap, dbFaults>>
globalDbVars == <<gdb, cached, gdbSeen, install, listed, done, old, up, gdbDue, gdbPc, gdbFaults>>
serviceVars  == <<status, copy, seen, world, due, pc, failures>>
syncerVars   == <<source, known, target, shown, account, ns, step, pending, slips>>
objectVars   == <<write, writePc, held, stored, mine, base, same>>
allVars == <<vars, part, startVars, repoVars, dbVars, globalDbVars, serviceVars, syncerVars,
             objectVars>>

Only(p) ==
  /\ part = p /\ UNCHANGED part
  /\ IF p = "restore" THEN TRUE ELSE UNCHANGED vars
  /\ IF p = "start" THEN TRUE ELSE UNCHANGED startVars
  /\ IF p = "repositories" THEN TRUE ELSE UNCHANGED repoVars
  /\ IF p = "db" THEN TRUE ELSE UNCHANGED dbVars
  /\ IF p = "global db" THEN TRUE ELSE UNCHANGED globalDbVars
  /\ IF p = "db service" THEN TRUE ELSE UNCHANGED serviceVars
  /\ IF p = "syncer" THEN TRUE ELSE UNCHANGED syncerVars
  /\ IF p = "objects" THEN TRUE ELSE UNCHANGED objectVars

(* Bounds of where things begin: without keys there is a location, and no  *)
(* repository that is there is NotReady (as if it were not prepared yet).  *)
PlatformInit ==
  /\ part \in {"restore", "start", "repositories", "db", "global db", "db service", "syncer",
               "objects"}
  /\ Init /\ ST!Init /\ RE!Init /\ DC!Init /\ GD!Init /\ DS!Init /\ SY!Init
  /\ AO!Init /\ (part # "objects" => write = CHOOSE w \in AO!Writes : TRUE)
  /\ LET missing == server[ST!Bsl] = ST!Absent IN
     IF part = "start" THEN keys \/ ~missing ELSE keys /\ missing
  /\ \A n \in RepoNames :
       IF part = "repositories" THEN phases[n] # <<"NotReady">> ELSE phases[n] = <<>>

PlatformNext ==
  \/ Only("restore") /\ Next
  \/ Only("start") /\ ST!Next
  \/ Only("repositories") /\ RE!Next
  \/ Only("db") /\ DC!Next
  \/ Only("global db") /\ GD!Next
  \/ Only("db service") /\ DS!Next
  \/ Only("syncer") /\ SY!Next
  \/ Only("objects") /\ AO!Next

(* The fairness of each component, in its own part.                        *)
PlatformSpec ==
  /\ PlatformInit /\ [][PlatformNext]_allVars /\ Fairness
  /\ \A p \in Processes : WF_allVars(Only("start") /\ ST!Start(p))
  /\ WF_allVars(Only("global db") /\ GD!Reconcile) /\ WF_allVars(Only("global db") /\ GD!Deliver)
  /\ WF_allVars(Only("global db") /\ GD!DeliverJob)
  /\ WF_allVars(Only("global db") /\ GD!Resync) /\ WF_allVars(Only("global db") /\ GD!Age)
  /\ WF_allVars(Only("db service") /\ DS!Reconcile) /\ WF_allVars(Only("db service") /\ DS!Deliver)
  /\ WF_allVars(Only("syncer") /\ SY!Pass) /\ WF_allVars(Only("syncer") /\ SY!MakeAccount)
  /\ WF_allVars(Only("syncer") /\ SY!Deliver)

(* A process that serves (main) found every definition and repository as it*)
(* should be, and a location, that has the keys of the pods if these have  *)
(* any, whatever other starts did in between.                              *)
ServingIsReady == part = "start" => ST!ServingIsReady

(* Starts that race for the same objects get in each other's way only so   *)
(* long: every process comes to serve, again after every disturbance.      *)
Serves == part = "start" => ST!Serves

(* EnsureRepo waits on a channel: when the informer has seen every phase of*)
(* its repository and velero has just decided, the handler is about to tell*)
(* the run.                                                                *)
Notified == part = "repositories" => RE!Notified

(* A run does not bring the process down by its own repositories alone: it *)
(* takes one whose phase changes and that is not the run's, as far as it   *)
(* knows, or that it was not told of in time, or that changes again.       *)
CrashHasCause == part = "repositories" => RE!CrashHasCause

(* A Db that is Ready, and was not made again, can be used, however many   *)
(* creations by the manager were cut short and repeated.                   *)
ReadyIsUsable == part = "db" => DC!ReadyIsUsable

(* When a Db is gone and its events are handled, nothing of it is left on  *)
(* the server, unless a statement failed or the process restarted.         *)
Recycled == part = "db" => DC!Recycled

(* If its server stays up, a GlobalDB comes to be marked as existing and   *)
(* ready, and stays so, though passes over a new one ask for no other.     *)
ComesUp == part = "global db" => GD!ComesUp

(* The status of a DbService comes to tell the truth when the server and   *)
(* its account stay as they are, though patches are made from old copies.  *)
TellsTruth == part = "db service" => DS!TellsTruth

(* When users are done, every labelled object comes to have a copy of the  *)
(* same data, and the account its pull secrets, unless one is frozen.      *)
Synced == part = "syncer" => SY!Synced

(* A deep copy has nothing in common with its original: but for the times  *)
(* of a request, whose copies were generated before it had any.            *)
OnlyTimesAreShared == part = "objects" => AO!OnlyTimesAreShared

(* What a handler changes in the part it writes to is sent, and stored: no *)
(* change gets into the copy that a patch has to differ from.              *)
ChangesArrive == part = "objects" => AO!ChangesArrive

(* The informers' objects are versions the server had, whatever handlers   *)
(* do: but for Backups and Restores of a lister, changed in place.         *)
CacheIsKept == part = "objects" => AO!CacheIsKept
=============================================================================
