---------------------------- MODULE DbController ----------------------------
(***************************************************************************)
(* The controller of Db objects (db_controller.go, db_deletion.go) and the *)
(* managers it drives (pkg/db/manage). Its only worker provides a database *)
(* and its user on a server, statement by statement; when a Db goes, they  *)
(* are recycled by the handler of delete events, beside the worker. The    *)
(* account is kept in memory for the time after its Secret has gone. The   *)
(* controller is not registered in the operator of this commit.            *)
(***************************************************************************)
EXTENDS Integers, Sequences, FiniteSets

CONSTANTS
  Dbs,
  MaxLives,   \* bound: how often a Db is made again under its name
  MaxFaults   \* bound: statements and calls that fail, and restarts, together

VARIABLES
  object,   \* object[d]: the Db on the API server
  secret,   \* secret[d]: its account can be read
  pool,     \* the Dbs whose account _dbMetaPool has
  server,   \* server[d]: what the database server has of d
  cache,    \* cache[d]: the life of d that the informer has, 0 for none
  notes,    \* events the handlers have not been given yet
  queued,   \* keys in the workqueue
  job,      \* what the worker and the handler of delete events are doing
  overlap,  \* a recycling began beside the worker (history)
  faults    \* disturbances so far

objectVars == <<object, secret>>
vars == <<object, secret, pool, server, cache, notes, queued, job, overlap, faults>>

-----------------------------------------------------------------------------
Engines == {"mysql", "postgresql"}
Unborn == [alive |-> FALSE, life |-> 0, engine |-> "mysql", retain |-> FALSE, ready |-> FALSE]
Idle == [pc |-> "idle", db |-> CHOOSE d \in Dbs : TRUE, todo |-> <<>>]
Spend == faults < MaxFaults /\ faults' = faults + 1

Init ==
  /\ object = [d \in Dbs |-> Unborn]
  /\ secret = [d \in Dbs |-> FALSE]
  /\ pool = {}
  /\ server = [d \in Dbs |-> {}]
  /\ cache = [d \in Dbs |-> 0]
  /\ notes = <<>>
  /\ queued = {}
  /\ job = [w \in {"worker", "handler"} |-> Idle]
  /\ overlap = FALSE
  /\ faults = 0

-----------------------------------------------------------------------------
(* Users and Helm. The Secret may go with the Db, before or after it.      *)
CreateDb(d) ==
  /\ ~object[d].alive /\ object[d].life < MaxLives
  /\ \E e \in Engines, r \in BOOLEAN :
       /\ object[d].life > 0 => e = object[d].engine /\ r = object[d].retain
       /\ object' = [object EXCEPT ![d] =
            [alive |-> TRUE, life |-> @.life + 1, engine |-> e, retain |-> r, ready |-> FALSE]]
  /\ secret' = [secret EXCEPT ![d] = TRUE]
  /\ UNCHANGED <<pool, server, cache, notes, queued, job, overlap, faults>>

DeleteDb(d) ==
  /\ object[d].alive
  /\ object' = [object EXCEPT ![d].alive = FALSE]
  /\ UNCHANGED <<secret, pool, server, cache, notes, queued, job, overlap, faults>>

DeleteSecret(d) ==
  /\ secret' = [secret EXCEPT ![d] = FALSE]
  /\ UNCHANGED <<object, pool, server, cache, notes, queued, job, overlap, faults>>

(* The informer fills its store, then its handlers are called in order. A  *)
(* Db that was made again while nobody watched looks like an update.       *)
Observe(d) ==
  LET o == object[d] IN
  /\ cache[d] # (IF o.alive THEN o.life ELSE 0)
  /\ \/ /\ cache[d] > 0
        /\ cache' = [cache EXCEPT ![d] = 0]
        /\ notes' = Append(notes, [db |-> d, retain |-> o.retain, gone |-> TRUE])
     \/ /\ o.alive
        /\ cache' = [cache EXCEPT ![d] = o.life]
        /\ notes' = Append(notes, [db |-> d, retain |-> o.retain, gone |-> FALSE])
  /\ UNCHANGED <<objectVars, pool, server, queued, job, overlap, faults>>

(* Only a deletion with nothing to keep is acted on here.                  *)
Notify ==
  LET n == Head(notes) IN
  /\ notes # <<>> /\ job["handler"].pc = "idle"
  /\ notes' = Tail(notes)
  /\ IF n.gone /\ ~n.retain
       THEN /\ job' = [job EXCEPT !["handler"] = [pc |-> "parse", db |-> n.db, todo |-> <<>>]]
            /\ overlap' = (overlap \/ (job["worker"].pc # "idle" /\ job["worker"].db = n.db))
            /\ UNCHANGED queued
       ELSE queued' = queued \cup {n.db} /\ UNCHANGED <<job, overlap>>
  /\ UNCHANGED <<objectVars, pool, server, cache, faults>>

(* The result of every pass, and the resync, bring the key back.           *)
Resync ==
  /\ queued' = queued \cup {d \in Dbs : cache[d] > 0}
  /\ UNCHANGED <<objectVars, pool, server, cache, notes, job, overlap, faults>>

Restart ==
  /\ Spend
  /\ cache' = [d \in Dbs |-> 0]
  /\ pool' = {} /\ notes' = <<>> /\ queued' = {}
  /\ job' = [w \in {"worker", "handler"} |-> Idle]
  /\ UNCHANGED <<objectVars, server, overlap>>

-----------------------------------------------------------------------------
(* Reconcile, and recycleDB.                                               *)
Goto(w, c) == job' = [job EXCEPT ![w].pc = c]
Begin(w, s) == job' = [job EXCEPT ![w] = [@ EXCEPT !.pc = "sql", !.todo = s]]

Take(d) ==
  /\ d \in queued /\ job["worker"].pc = "idle"
  /\ queued' = queued \ {d}
  /\ job' = IF cache[d] = 0 THEN job
            ELSE [job EXCEPT !["worker"] = [pc |-> "parse", db |-> d, todo |-> <<>>]]
  /\ UNCHANGED <<objectVars, pool, server, cache, notes, overlap, faults>>

(* ParseDB: the account from its Secret, or else from the pool.            *)
MutHasAccount(d) == secret[d]
HasAccount(d) == secret[d] \/ d \in pool

(* In mysql some accounts get the SUPER privilege too, just before "flush".*)
Creating(e) ==
  IF e = "mysql" THEN <<"database", "use", "user", "grant", "flush">>
                 ELSE <<"database", "user", "grant", "owner">>
Recycling(e) ==
  IF e = "mysql" THEN <<"revoke", "drop user", "drop database", "flush">>
                 ELSE <<"revoke", "drop database", "drop user">>

Parse(w) ==
  LET d == job[w].db IN
  /\ job[w].pc = "parse" /\ HasAccount(d)
  /\ pool' = IF secret[d] THEN pool \cup {d} ELSE pool
  /\ IF w = "worker" THEN Goto(w, "check") ELSE Begin(w, Recycling(object[d].engine))
  /\ UNCHANGED <<objectVars, server, cache, notes, queued, overlap, faults>>

(* The service of the server or the account cannot be read.                *)
Stop(w) == IF w = "worker" THEN Goto(w, "not ready") ELSE Goto(w, "failed")
ParseFails(w) ==
  /\ job[w].pc = "parse"
  /\ IF HasAccount(job[w].db) THEN Spend ELSE UNCHANGED faults
  /\ Stop(w)
  /\ UNCHANGED <<objectVars, pool, server, cache, notes, queued, overlap>>

(* IsValid connects to the database as its user. For postgresql that needs *)
(* no grant.                                                               *)
Usable(e, S) == {"database", "user"} \subseteq S /\ (e = "mysql" => "grant" \in S)

Check ==
  LET d == job["worker"].db  e == object[d].engine IN
  /\ job["worker"].pc = "check"
  /\ IF Usable(e, server[d]) THEN Goto("worker", "ready") ELSE Begin("worker", Creating(e))
  /\ UNCHANGED <<objectVars, pool, server, cache, notes, queued, overlap, faults>>

CheckFails ==
  /\ job["worker"].pc = "check" /\ Spend
  /\ Begin("worker", Creating(object[job["worker"].db].engine))
  /\ UNCHANGED <<objectVars, pool, server, cache, notes, queued, overlap>>

-----------------------------------------------------------------------------
(* One statement. Few of them may be repeated: the rest of a creation that *)
(* stopped half way is refused ever after.                                 *)
Accepts(e, S, s) ==
  CASE s = "database" -> e = "mysql" \/ "database" \notin S
    [] s = "use"      -> "database" \in S
    [] s = "user"     -> e = "postgresql" \/ "user" \notin S
    [] s = "grant"    -> "user" \in S /\ (e = "mysql" \/ "database" \in S)
    [] s = "owner"    -> {"database", "user"} \subseteq S
    [] s = "revoke"   -> IF e = "mysql" THEN {"user", "grant"} \subseteq S
                                        ELSE {"database", "user"} \subseteq S
    [] s = "drop user" -> e = "mysql" \/ S \cap {"owner", "grant"} = {}
    [] OTHER          -> TRUE

Result(e, S, s) ==
  CASE s \in {"database", "user", "grant", "owner"} -> S \cup {s}
    [] s = "revoke"        -> S \ {"grant"}
    [] s = "drop user"     -> S \ {"user", "grant"}
    [] s = "drop database" -> S \ (IF e = "mysql" THEN {"database"} ELSE {"database", "owner", "grant"})
    [] OTHER               -> S

Advance(w) ==
  job' = [job EXCEPT ![w] = [@ EXCEPT !.todo = Tail(job[w].todo),
            !.pc = IF Len(job[w].todo) > 1 THEN "sql" ELSE IF w = "worker" THEN "ready" ELSE "done"]]

Execute(w) ==
  LET d == job[w].db  e == object[d].engine  s == Head(job[w].todo) IN
  /\ job[w].pc = "sql" /\ Accepts(e, server[d], s)
  /\ server' = [server EXCEPT ![d] = Result(e, @, s)]
  /\ Advance(w)
  /\ UNCHANGED <<objectVars, pool, cache, notes, queued, overlap, faults>>

MutGiveUp(w) == Advance(w)
GiveUp(w) == Stop(w)

ExecuteFails(w) ==
  LET d == job[w].db IN
  /\ job[w].pc = "sql"
  /\ IF Accepts(object[d].engine, server[d], Head(job[w].todo)) THEN Spend ELSE UNCHANGED faults
  /\ GiveUp(w)
  /\ UNCHANGED <<objectVars, pool, server, cache, notes, queued, overlap>>

(* The status is patched, whichever life of the Db it was found for, unless*)
(* the patch is refused or an old copy says the same already. What comes of*)
(* a recycling is printed, and not tried again.                            *)
Report(b) ==
  LET d == job["worker"].db IN
  /\ \/ object[d].alive /\ object' = [object EXCEPT ![d].ready = b]
     \/ UNCHANGED object
  /\ queued' = queued \cup {d}
  /\ job' = [job EXCEPT !["worker"] = Idle]
  /\ UNCHANGED <<secret, pool, server, cache, notes, overlap, faults>>

Ready    == job["worker"].pc = "ready" /\ Report(TRUE)
NotReady == job["worker"].pc = "not ready" /\ Report(FALSE)

Return ==
  /\ job["handler"].pc \in {"done", "failed"}
  /\ queued' = IF job["handler"].pc = "failed" THEN queued \cup {job["handler"].db} ELSE queued
  /\ job' = [job EXCEPT !["handler"] = Idle]
  /\ UNCHANGED <<objectVars, pool, server, cache, notes, overlap, faults>>

Next ==
  \/ \E d \in Dbs : CreateDb(d) \/ DeleteDb(d) \/ DeleteSecret(d) \/ Observe(d) \/ Take(d)
  \/ Notify \/ Resync \/ Restart
  \/ \E w \in {"worker", "handler"} : Parse(w) \/ ParseFails(w) \/ Execute(w) \/ ExecuteFails(w)
  \/ Check \/ CheckFails \/ Ready \/ NotReady \/ Return

Spec == Init /\ [][Next]_vars

-----------------------------------------------------------------------------
(* A Db that is Ready, and was not made again, can be used: its user can   *)
(* connect, in mysql with all rights, however many creations were cut short*)
(* and repeated. In postgresql it need not own the database.               *)
ReadyIsUsable ==
  \A d \in Dbs : LET o == object[d] IN
    o.alive /\ o.life = 1 /\ o.ready => Usable(o.engine, server[d])

(* When a Db is gone and its events are handled, nothing of it is left on  *)
(* the server, also when its Secret went first: unless a statement failed  *)
(* or the process restarted, which is not made up for, the worker was in   *)
(* the middle of a pass, or another Db has come in its place.              *)
Recycled ==
  \A d \in Dbs :
    LET o == object[d] IN
    ~o.alive /\ o.life = 1 /\ ~o.retain /\ cache[d] = 0 /\ notes = <<>>
      /\ (\A w \in {"worker", "handler"} : job[w].pc = "idle") /\ ~overlap /\ faults = 0
      => server[d] = {}
=============================================================================
