------------------------- MODULE DbControllerProofs -------------------------
(***************************************************************************)
(* Proofs about DbController, for any number of Dbs, lives and             *)
(* disturbances.                                                           *)
(***************************************************************************)
EXTENDS DbController, TLAPS

-----------------------------------------------------------------------------
(* Type correctness.                                                       *)
Workers == {"worker", "handler"}
Parts   == {"database", "user", "grant", "owner"}
Makes   == Parts \cup {"use", "flush"}
Drops   == {"revoke", "drop user", "drop database", "flush"}

ObjectRec == [alive : BOOLEAN, life : Nat, engine : Engines, retain : BOOLEAN, ready : BOOLEAN]
NoteRec   == [db : Dbs, retain : BOOLEAN, gone : BOOLEAN]
JobRec    == [pc : {"idle", "parse", "check", "sql", "ready", "not ready", "done", "failed"},
              db : Dbs, todo : Seq(Makes \cup Drops)]

TypeOK ==
  /\ object \in [Dbs -> ObjectRec] /\ secret \in [Dbs -> BOOLEAN]
  /\ pool \subseteq Dbs /\ queued \subseteq Dbs
  /\ server \in [Dbs -> SUBSET Parts]
  /\ cache \in [Dbs -> Nat]
  /\ notes \in Seq(NoteRec)
  /\ job \in [Workers -> JobRec]
  /\ overlap \in BOOLEAN /\ faults \in Nat

-----------------------------------------------------------------------------
(* What the informer, the events and the jobs know of the lives of a Db.   *)
On(w, d)  == job[w].pc # "idle" /\ job[w].db = d
Gone(i, d) == notes[i].db = d /\ notes[i].gone
GoneNote(d) == \E i \in 1 .. Len(notes) : Gone(i, d)

Control ==
  /\ job["worker"].pc \in {"idle", "parse", "check", "sql", "ready", "not ready"}
  /\ job["handler"].pc \in {"idle", "parse", "sql", "done", "failed"}
  /\ \A w \in Workers : job[w].pc = "sql" => job[w].todo # <<>>

Lives(d) ==
  /\ cache[d] <= object[d].life
  /\ object[d].life = 0 =>
       /\ ~object[d].alive /\ ~On("worker", d)
       /\ \A i \in 1 .. Len(notes) : notes[i].db # d
  /\ object[d].life = 0 \/ (object[d].life = 1 /\ object[d].alive) =>
       ~GoneNote(d) /\ ~On("handler", d)

(* The rest of a creation brings what the database still lacks.            *)
Building(e, S, todo) ==
  /\ \A i \in 1 .. Len(todo) : todo[i] \in Makes
  /\ \A s \in {"database", "user"} \cup (IF e = "mysql" THEN {"grant"} ELSE {}) :
       s \in S \/ \E i \in 1 .. Len(todo) : todo[i] = s

Serving(d) ==
  object[d].life = 1 /\ object[d].alive =>
    LET e == object[d].engine IN
    /\ On("worker", d) /\ job["worker"].pc = "sql" => Building(e, server[d], job["worker"].todo)
    /\ On("worker", d) /\ job["worker"].pc = "ready" => Usable(e, server[d])
    /\ object[d].ready => Usable(e, server[d])

UsableInv == TypeOK /\ Control /\ \A d \in Dbs : Lives(d) /\ Serving(d)

-----------------------------------------------------------------------------
(* Without a disturbance, a database is made and recycled as a whole.      *)
Full(e) == IF e = "mysql" THEN {"database", "user", "grant"} ELSE Parts

Making(e, S, t) ==
  IF e = "mysql"
    THEN \/ t = <<"database", "use", "user", "grant", "flush">> /\ S = {}
         \/ t = <<"use", "user", "grant", "flush">> /\ S = {"database"}
         \/ t = <<"user", "grant", "flush">> /\ S = {"database"}
         \/ t = <<"grant", "flush">> /\ S = {"database", "user"}
         \/ t = <<"flush">> /\ S = {"database", "user", "grant"}
    ELSE \/ t = <<"database", "user", "grant", "owner">> /\ S = {}
         \/ t = <<"user", "grant", "owner">> /\ S = {"database"}
         \/ t = <<"grant", "owner">> /\ S = {"database", "user"}
         \/ t = <<"owner">> /\ S = {"database", "user", "grant"}

Unmaking(e, S, t) ==
  IF e = "mysql"
    THEN \/ t = <<"revoke", "drop user", "drop database", "flush">> /\ S \in {{}, Full(e)}
         \/ t = <<"drop user", "drop database", "flush">> /\ S = {"database", "user"}
         \/ t = <<"drop database", "flush">> /\ S = {"database"}
         \/ t = <<"flush">> /\ S = {}
    ELSE \/ t = <<"revoke", "drop database", "drop user">> /\ S \in {{}, Full(e)}
         \/ t = <<"drop database", "drop user">> /\ S = {"database", "user", "owner"}
         \/ t = <<"drop user">> /\ S = {"user"}

(* What is on the server, by who works on the Db.                          *)
Whole(d) == server[d] \in {{}, Full(object[d].engine)}

OnServer(d) ==
  LET e == object[d].engine IN
  /\ ~On("handler", d) /\ ~(On("worker", d) /\ job["worker"].pc = "sql") => Whole(d)
  /\ On("worker", d) /\ job["worker"].pc = "sql" => Making(e, server[d], job["worker"].todo)
  /\ On("handler", d) =>
       /\ ~On("worker", d)
       /\ job["handler"].pc = "parse" => Whole(d)
       /\ job["handler"].pc = "sql" => Unmaking(e, server[d], job["handler"].todo)
       /\ job["handler"].pc \in {"done", "failed"} => server[d] = {}

(* Its end is told once, with what its Db says of keeping the database.    *)
Events(d) ==
  /\ \A i, j \in 1 .. Len(notes) : Gone(i, d) /\ Gone(j, d) => i = j
  /\ \A i \in 1 .. Len(notes) : notes[i].db = d => notes[i].retain = object[d].retain

(* Its account is in the pool, and its events come in the order of its     *)
(* life: once the informer has seen it go, the handler is told, once.      *)
Ending(d) ==
  /\ server[d] # {} \/ (On("worker", d) /\ job["worker"].pc \in {"check", "sql"}) => d \in pool
  /\ cache[d] = 0 /\ ~GoneNote(d) /\ ~On("handler", d) => ~On("worker", d) /\ server[d] = {}
  /\ GoneNote(d) \/ On("handler", d) => cache[d] = 0 /\ ~object[d].alive
  /\ ~(GoneNote(d) /\ On("handler", d))
  /\ Events(d)

Calm(d) ==
  /\ object[d].life = 0 => server[d] = {}
  /\ object[d].life = 1 /\ ~object[d].retain => OnServer(d) /\ Ending(d)

RecycleInv ==
  TypeOK /\ Control /\ \A d \in Dbs : Lives(d) /\ (faults = 0 /\ ~overlap => Calm(d))

-----------------------------------------------------------------------------
(* The scripts and their statements.                                       *)
Stmts == Makes \cup Drops
Pcs   == {"idle", "parse", "check", "sql", "ready", "not ready", "done", "failed"}

LEMMA Short ==
  ASSUME NEW S, NEW a \in S, NEW b \in S, NEW c \in S
  PROVE  <<a, b, c>> \in Seq(S) /\ <<a, b, c>> # <<>>
OBVIOUS

LEMMA Middle ==
  ASSUME NEW S, NEW a \in S, NEW b \in S, NEW c \in S, NEW d \in S
  PROVE  <<a, b, c, d>> \in Seq(S) /\ <<a, b, c, d>> # <<>>
OBVIOUS

LEMMA Long ==
  ASSUME NEW S, NEW a \in S, NEW b \in S, NEW c \in S, NEW d \in S, NEW e \in S
  PROVE  <<a, b, c, d, e>> \in Seq(S) /\ <<a, b, c, d, e>> # <<>>
OBVIOUS

LEMMA ScriptType ==
  ASSUME NEW e \in Engines
  PROVE  /\ Creating(e) \in Seq(Stmts) /\ Creating(e) # <<>>
         /\ Recycling(e) \in Seq(Stmts) /\ Recycling(e) # <<>>
<1>1. {"database", "use", "user", "grant", "flush", "owner", "revoke", "drop user",
       "drop database"} \subseteq Stmts
  BY DEF Stmts, Makes, Parts, Drops
<1>2. /\ <<"database", "use", "user", "grant", "flush">> \in Seq(Stmts)
      /\ <<"database", "use", "user", "grant", "flush">> # <<>>
  BY <1>1, Long
<1>3. /\ <<"database", "user", "grant", "owner">> \in Seq(Stmts)
      /\ <<"database", "user", "grant", "owner">> # <<>>
  BY <1>1, Middle
<1>4. /\ <<"revoke", "drop user", "drop database", "flush">> \in Seq(Stmts)
      /\ <<"revoke", "drop user", "drop database", "flush">> # <<>>
  BY <1>1, Middle
<1>5. /\ <<"revoke", "drop database", "drop user">> \in Seq(Stmts)
      /\ <<"revoke", "drop database", "drop user">> # <<>>
  BY <1>1, Short
<1>6. QED
  BY <1>2, <1>3, <1>4, <1>5, Zenon DEF Creating, Recycling

LEMMA ResultType ==
  ASSUME NEW e, NEW S \in SUBSET Parts, NEW s
  PROVE  Result(e, S, s) \in SUBSET Parts
BY DEF Result, Parts

LEMMA ResultKeeps ==
  ASSUME NEW e, NEW S \in SUBSET Parts, NEW s \in Makes
  PROVE  /\ S \subseteq Result(e, S, s)
         /\ s \in Parts => s \in Result(e, S, s)
BY DEF Result, Parts, Makes

-----------------------------------------------------------------------------
(* What steps do to the jobs.                                              *)
LEMMA IdleType ==
  ASSUME Dbs # {}
  PROVE  Idle \in JobRec /\ Idle.pc = "idle" /\ Idle.todo = <<>>
<1>1. (CHOOSE d \in Dbs : TRUE) \in Dbs
  OBVIOUS
<1>2. QED
  BY <1>1 DEF Idle, JobRec

LEMMA JobType ==
  ASSUME TypeOK, NEW w \in Workers
  PROVE  /\ job[w] \in JobRec /\ job[w].pc \in Pcs /\ job[w].db \in Dbs
         /\ job[w].todo \in Seq(Stmts)
BY DEF TypeOK, JobRec, Pcs, Stmts

LEMMA GotoEffect ==
  ASSUME TypeOK, NEW w \in Workers, NEW c \in Pcs, Goto(w, c)
  PROVE  /\ job' \in [Workers -> JobRec]
         /\ job'[w].pc = c /\ job'[w].db = job[w].db /\ job'[w].todo = job[w].todo
         /\ \A v \in Workers \ {w} : job'[v] = job[v]
<1>1. job[w] \in JobRec
  BY JobType
<1>2. /\ [job[w] EXCEPT !.pc = c] \in JobRec
      /\ [job[w] EXCEPT !.pc = c].pc = c
      /\ [job[w] EXCEPT !.pc = c].db = job[w].db
      /\ [job[w] EXCEPT !.pc = c].todo = job[w].todo
  BY <1>1 DEF JobRec, Pcs
<1>3. job' = [job EXCEPT ![w] = [job[w] EXCEPT !.pc = c]]
  BY DEF Goto
<1>4. QED
  BY <1>2, <1>3 DEF TypeOK

LEMMA BeginEffect ==
  ASSUME TypeOK, NEW w \in Workers, NEW t \in Seq(Stmts), Begin(w, t)
  PROVE  /\ job' \in [Workers -> JobRec]
         /\ job'[w].pc = "sql" /\ job'[w].db = job[w].db /\ job'[w].todo = t
         /\ \A v \in Workers \ {w} : job'[v] = job[v]
<1> DEFINE x == [job[w] EXCEPT !.pc = "sql", !.todo = t]
<1>1. job[w] \in JobRec
  BY JobType
<1>2. x \in JobRec /\ x.pc = "sql" /\ x.db = job[w].db /\ x.todo = t
  BY <1>1 DEF JobRec, Stmts
<1>3. job' = [job EXCEPT ![w] = x]
  BY DEF Begin
<1>4. QED
  BY <1>2, <1>3 DEF TypeOK

LEMMA TailType ==
  ASSUME NEW S, NEW t \in Seq(S), t # <<>>
  PROVE  /\ Tail(t) \in Seq(S) /\ Head(t) = t[1] /\ t[1] \in S /\ Len(t) \in Nat
         /\ 1 \in 1 .. Len(t) /\ Len(Tail(t)) = Len(t) - 1
         /\ \A i \in 1 .. Len(Tail(t)) : i + 1 \in 1 .. Len(t) /\ Tail(t)[i] = t[i + 1]
         /\ \A i \in 1 .. Len(t) : i # 1 => i - 1 \in 1 .. Len(Tail(t)) /\ Tail(t)[i - 1] = t[i]
         /\ Len(t) > 1 <=> Tail(t) # <<>>
<1>1. Len(t) \in Nat /\ Len(t) >= 1 /\ Head(t) = t[1] /\ t[1] \in S /\ 1 \in 1 .. Len(t)
  OBVIOUS
<1>2. Tail(t) \in Seq(S) /\ Len(Tail(t)) = Len(t) - 1
  OBVIOUS
<1>3. \A i \in 1 .. Len(Tail(t)) : i + 1 \in 1 .. Len(t) /\ Tail(t)[i] = t[i + 1]
  OBVIOUS
<1>4. ASSUME NEW i \in 1 .. Len(t), i # 1
      PROVE  i - 1 \in 1 .. Len(Tail(t)) /\ Tail(t)[i - 1] = t[i]
  <2>1. i - 1 \in 1 .. Len(Tail(t)) /\ (i - 1) + 1 = i
    BY <1>1, <1>2, <1>4
  <2>2. QED
    BY <1>3, <2>1
<1>5. ASSUME NEW u \in Seq(S)
      PROVE  u # <<>> <=> Len(u) > 0
  OBVIOUS
<1>6. Len(t) > 1 <=> Len(t) - 1 > 0
  BY <1>1
<1>7. QED
  BY <1>1, <1>2, <1>3, <1>4, <1>5, <1>6

LEMMA AdvanceEffect ==
  ASSUME TypeOK, NEW w \in Workers, job[w].todo # <<>>, Advance(w)
  PROVE  /\ job' \in [Workers -> JobRec]
         /\ job'[w].db = job[w].db /\ job'[w].todo = Tail(job[w].todo)
         /\ job'[w].pc = IF Tail(job[w].todo) # <<>> THEN "sql"
                          ELSE IF w = "worker" THEN "ready" ELSE "done"
         /\ \A v \in Workers \ {w} : job'[v] = job[v]
<1> DEFINE c == IF Len(job[w].todo) > 1 THEN "sql" ELSE IF w = "worker" THEN "ready" ELSE "done"
           t == Tail(job[w].todo)
           x == [job[w] EXCEPT !.todo = t, !.pc = c]
<1>1. job[w] \in JobRec /\ job[w].todo \in Seq(Stmts)
  BY JobType
<1>2. t \in Seq(Stmts) /\ (Len(job[w].todo) > 1 <=> t # <<>>) /\ c \in Pcs
  BY <1>1, TailType DEF Pcs
<1>3. job' = [job EXCEPT ![w] = x]
  BY DEF Advance
<1>4. c = IF t # <<>> THEN "sql" ELSE IF w = "worker" THEN "ready" ELSE "done"
  BY <1>2
<1> HIDE DEF c, t
<1>5. x \in JobRec /\ x.pc = c /\ x.db = job[w].db /\ x.todo = t
  BY <1>1, <1>2 DEF JobRec, Stmts, Pcs
<1>6. job'[w] = x /\ job' \in [Workers -> JobRec] /\ \A v \in Workers \ {w} : job'[v] = job[v]
  BY <1>3, <1>5 DEF TypeOK
<1>7. QED
  BY <1>4, <1>5, <1>6 DEF t

(* The steps that work on a job, and the others.                           *)
JobStep(w) ==
  \/ Parse(w) \/ ParseFails(w) \/ Execute(w) \/ ExecuteFails(w)
  \/ w = "worker" /\ (Check \/ CheckFails \/ Ready \/ NotReady)
  \/ w = "handler" /\ Return
OutsideStep ==
  \E d \in Dbs : CreateDb(d) \/ DeleteDb(d) \/ DeleteSecret(d) \/ Observe(d)

LEMMA NextSteps ==
  [Next]_vars => \/ OutsideStep \/ Resync \/ Notify \/ Restart \/ UNCHANGED vars
                 \/ \E d \in Dbs : Take(d)
                 \/ \E w \in Workers : JobStep(w)
BY DEF Next, OutsideStep, JobStep, Workers

LEMMA OutsideJob ==
  OutsideStep \/ Resync \/ UNCHANGED vars => UNCHANGED <<pool, server, job, overlap, faults>>
BY DEF OutsideStep, CreateDb, DeleteDb, DeleteSecret, Observe, Resync, vars, objectVars

(* A job that goes on is still for its Db; one that begins is for the one  *)
(* that was taken, or whose event was read.                                *)
LEMMA JobStepEffect ==
  ASSUME TypeOK, Control, Dbs # {}, NEW w \in Workers, JobStep(w)
  PROVE  /\ job' \in [Workers -> JobRec] /\ Control'
         /\ job[w].pc # "idle"
         /\ job'[w].pc # "idle" => job'[w].db = job[w].db
         /\ \A v \in Workers \ {w} : job'[v] = job[v]
<1> DEFINE Goal == /\ job' \in [Workers -> JobRec] /\ Control'
                   /\ job[w].pc # "idle"
                   /\ job'[w].pc # "idle" => job'[w].db = job[w].db
                   /\ \A v \in Workers \ {w} : job'[v] = job[v]
<1>1. /\ object[job[w].db].engine \in Engines /\ "worker" \in Workers /\ "handler" \in Workers
      /\ "worker" # "handler"
  BY JobType DEF TypeOK, ObjectRec, Workers
<1>2. ASSUME NEW c \in Pcs, Goto(w, c), job[w].pc # "idle",
             w = "worker" => c \in {"check", "ready", "not ready"},
             w = "handler" => c = "failed"
      PROVE  Goal
  BY <1>2, GotoEffect DEF Control, Workers
<1>3. ASSUME NEW t \in Seq(Stmts), t # <<>>, Begin(w, t), job[w].pc # "idle"
      PROVE  Goal
  BY <1>3, BeginEffect DEF Control, Workers
<1>4. CASE Parse(w)
  <2>1. CASE w = "worker"
    BY <1>2, <1>4, <2>1 DEF Parse, Pcs, Workers
  <2>2. CASE w = "handler"
    BY <1>1, <1>3, <1>4, <2>2, ScriptType DEF Parse
  <2>3. QED
    BY <2>1, <2>2 DEF Workers
<1>5. ASSUME Stop(w), job[w].pc # "idle"
      PROVE  Goal
  BY <1>2, <1>5 DEF Stop, Pcs, Workers
<1>6. CASE ParseFails(w)
  BY <1>5, <1>6 DEF ParseFails
<1>7. CASE ExecuteFails(w)
  BY <1>5, <1>7 DEF ExecuteFails, GiveUp
<1>8. CASE Execute(w)
  BY <1>8, AdvanceEffect DEF Execute, Control, Workers
<1>9. CASE w = "worker" /\ Check
  BY <1>1, <1>2, <1>3, <1>9, ScriptType DEF Check, Pcs
<1>10. CASE w = "worker" /\ CheckFails
  BY <1>1, <1>3, <1>10, ScriptType DEF CheckFails
<1>11. ASSUME job' = [job EXCEPT ![w] = Idle], job[w].pc # "idle"
       PROVE  Goal
  BY <1>11, IdleType DEF Control, Workers, TypeOK
<1>12. CASE w = "worker" /\ (Ready \/ NotReady)
  BY <1>11, <1>12 DEF Ready, NotReady, Report
<1>13. CASE w = "handler" /\ Return
  BY <1>11, <1>13 DEF Return
<1>14. QED
  BY <1>4, <1>6, <1>7, <1>8, <1>9, <1>10, <1>12, <1>13 DEF JobStep

LEMMA TakeEffect ==
  ASSUME TypeOK, Control, NEW d \in Dbs, Take(d)
  PROVE  /\ job' \in [Workers -> JobRec] /\ Control'
         /\ job["worker"].pc = "idle" /\ job'["handler"] = job["handler"]
         /\ \/ job' = job
            \/ cache[d] # 0 /\ job'["worker"].pc = "parse" /\ job'["worker"].db = d
<1> DEFINE x == [pc |-> "parse", db |-> d, todo |-> <<>>]
<1>1. x \in JobRec /\ x.pc = "parse" /\ x.db = d
  BY DEF JobRec
<1> HIDE DEF x
<1>2. job' = job \/ (cache[d] # 0 /\ job' = [job EXCEPT !["worker"] = x])
  BY DEF Take, x
<1>3. job["worker"].pc = "idle"
  BY DEF Take
<1>4. QED
  BY <1>1, <1>2, <1>3 DEF TypeOK, Control, Workers

LEMMA NotifyEffect ==
  ASSUME TypeOK, Control, Notify
  PROVE  /\ job' \in [Workers -> JobRec] /\ Control'
         /\ job["handler"].pc = "idle" /\ job'["worker"] = job["worker"]
         /\ \/ job' = job /\ overlap' = overlap /\ ~(notes[1].gone /\ ~notes[1].retain)
            \/ /\ notes[1].gone /\ ~notes[1].retain
               /\ job'["handler"].pc = "parse" /\ job'["handler"].db = notes[1].db
               /\ overlap' = (overlap \/ On("worker", notes[1].db))
         /\ notes # <<>> /\ notes' = Tail(notes)
         /\ UNCHANGED <<objectVars, pool, server, cache, faults>>
<1>1. notes # <<>> /\ notes' = Tail(notes) /\ notes[1] \in NoteRec /\ Head(notes) = notes[1]
  BY TailType DEF Notify, TypeOK
<1>2. UNCHANGED <<objectVars, pool, server, cache, faults>> /\ job["handler"].pc = "idle"
  BY DEF Notify
<1> DEFINE n == notes[1]
           x == [pc |-> "parse", db |-> n.db, todo |-> <<>>]
<1>3. x \in JobRec /\ x.pc = "parse" /\ x.db = n.db
  BY <1>1 DEF JobRec, NoteRec
<1> HIDE DEF x
<1>4. CASE n.gone /\ ~n.retain
  <2>1. /\ job' = [job EXCEPT !["handler"] = x]
        /\ overlap' = (overlap \/ (job["worker"].pc # "idle" /\ job["worker"].db = n.db))
    BY <1>1, <1>4 DEF Notify, x
  <2>2. /\ job' \in [Workers -> JobRec] /\ job'["handler"] = x /\ job'["worker"] = job["worker"]
        /\ Control'
    BY <1>3, <2>1 DEF TypeOK, Control, Workers
  <2>3. overlap' = (overlap \/ On("worker", n.db))
    BY <2>1 DEF On
  <2>4. QED
    BY <1>1, <1>2, <1>3, <1>4, <2>2, <2>3
<1>5. CASE ~(n.gone /\ ~n.retain)
  <2>1. job' = job /\ overlap' = overlap
    BY <1>1, <1>5 DEF Notify
  <2>2. job' \in [Workers -> JobRec] /\ Control'
    BY <2>1 DEF TypeOK, Control
  <2>3. QED
    BY <1>1, <1>2, <1>5, <2>1, <2>2
<1>6. QED
  BY <1>4, <1>5

LEMMA RestartEffect ==
  ASSUME TypeOK, Dbs # {}, Restart
  PROVE  /\ job' \in [Workers -> JobRec] /\ Control'
         /\ \A w \in Workers : job'[w].pc = "idle"
BY IdleType DEF Restart, Control, Workers

-----------------------------------------------------------------------------
(* What steps do to the Dbs: one is made, goes, or is reported on.         *)
Same(d) ==
  /\ object'[d].life = object[d].life /\ object'[d].engine = object[d].engine
  /\ object'[d].retain = object[d].retain
Made(d) ==
  /\ ~object[d].alive /\ object'[d].alive /\ ~object'[d].ready
  /\ object'[d].life = object[d].life + 1
  /\ object[d].life > 0 =>
       object'[d].engine = object[d].engine /\ object'[d].retain = object[d].retain
Went(d) == object[d].alive /\ ~object'[d].alive /\ Same(d)
Reported(d) ==
  /\ object[d].alive /\ object'[d].alive /\ Same(d) /\ job["worker"].db = d
  /\ object'[d].ready => job["worker"].pc = "ready"

LEMMA MadeEffect ==
  ASSUME TypeOK, NEW d \in Dbs, CreateDb(d)
  PROVE  /\ object' \in [Dbs -> ObjectRec] /\ secret' \in [Dbs -> BOOLEAN] /\ Made(d)
         /\ \A c \in Dbs \ {d} : object'[c] = object[c]
<1>1. PICK e \in Engines : \E r \in BOOLEAN :
        /\ object[d].life > 0 => e = object[d].engine /\ r = object[d].retain
        /\ object' = [object EXCEPT ![d] =
             [alive |-> TRUE, life |-> @.life + 1, engine |-> e, retain |-> r, ready |-> FALSE]]
  BY DEF CreateDb
<1>2. PICK r \in BOOLEAN :
        /\ object[d].life > 0 => e = object[d].engine /\ r = object[d].retain
        /\ object' = [object EXCEPT ![d] =
             [alive |-> TRUE, life |-> @.life + 1, engine |-> e, retain |-> r, ready |-> FALSE]]
  BY <1>1
<1> DEFINE x == [alive |-> TRUE, life |-> object[d].life + 1, engine |-> e, retain |-> r,
                 ready |-> FALSE]
<1>3. object[d] \in ObjectRec /\ object[d].life \in Nat /\ ~object[d].alive
  BY DEF TypeOK, ObjectRec, CreateDb
<1>4. /\ x \in ObjectRec /\ x.alive /\ ~x.ready /\ x.life = object[d].life + 1
      /\ x.engine = e /\ x.retain = r
  BY <1>3 DEF ObjectRec
<1>5. object' = [object EXCEPT ![d] = x]
  BY <1>2
<1> HIDE DEF x
<1>6. object' \in [Dbs -> ObjectRec] /\ object'[d] = x /\ \A c \in Dbs \ {d} : object'[c] = object[c]
  BY <1>4, <1>5 DEF TypeOK
<1>7. secret' \in [Dbs -> BOOLEAN]
  BY DEF TypeOK, CreateDb
<1>8. QED
  BY <1>2, <1>3, <1>4, <1>6, <1>7 DEF Made

LEMMA WentEffect ==
  ASSUME TypeOK, NEW d \in Dbs, DeleteDb(d)
  PROVE  /\ object' \in [Dbs -> ObjectRec] /\ Went(d)
         /\ \A c \in Dbs \ {d} : object'[c] = object[c]
<1>1. object[d] \in ObjectRec /\ object[d].alive
  BY DEF TypeOK, DeleteDb
<1> DEFINE x == [object[d] EXCEPT !.alive = FALSE]
<1>2. /\ x \in ObjectRec /\ ~x.alive /\ x.life = object[d].life /\ x.engine = object[d].engine
      /\ x.retain = object[d].retain
  BY <1>1 DEF ObjectRec
<1>3. object' = [object EXCEPT ![d] = x]
  BY DEF DeleteDb
<1> HIDE DEF x
<1>4. object' \in [Dbs -> ObjectRec] /\ object'[d] = x /\ \A c \in Dbs \ {d} : object'[c] = object[c]
  BY <1>2, <1>3 DEF TypeOK
<1>5. QED
  BY <1>1, <1>2, <1>4 DEF Went, Same

LEMMA ReportEffect ==
  ASSUME TypeOK, NEW b \in BOOLEAN, Report(b), b => job["worker"].pc = "ready"
  PROVE  /\ object' \in [Dbs -> ObjectRec]
         /\ \A c \in Dbs : object'[c] = object[c] \/ Reported(c)
<1> DEFINE d == job["worker"].db
<1>1. d \in Dbs
  BY JobType DEF Workers
<1>2. CASE UNCHANGED object
  BY <1>2 DEF TypeOK
<1>3. CASE object[d].alive /\ object' = [object EXCEPT ![d].ready = b]
  <2> DEFINE x == [object[d] EXCEPT !.ready = b]
  <2>1. object[d] \in ObjectRec
    BY <1>1 DEF TypeOK
  <2>2. /\ x \in ObjectRec /\ x.alive = object[d].alive /\ x.life = object[d].life
        /\ x.engine = object[d].engine /\ x.retain = object[d].retain /\ x.ready = b
    BY <2>1 DEF ObjectRec
  <2>3. object' = [object EXCEPT ![d] = x]
    BY <1>3
  <2> HIDE DEF x
  <2>4. object' \in [Dbs -> ObjectRec] /\ object'[d] = x
        /\ \A c \in Dbs \ {d} : object'[c] = object[c]
    BY <1>1, <2>2, <2>3 DEF TypeOK
  <2>5. Reported(d)
    BY <1>3, <2>2, <2>4 DEF Reported, Same
  <2>6. QED
    BY <2>4, <2>5
<1>4. QED
  BY <1>2, <1>3 DEF Report

-----------------------------------------------------------------------------
(* What a job does to the server, and what it leaves alone.                *)
Executes(w) ==
  LET d == job[w].db IN
  /\ job[w].pc = "sql"
  /\ Accepts(object[d].engine, server[d], job[w].todo[1])
  /\ server' = [server EXCEPT ![d] = Result(object[d].engine, server[d], job[w].todo[1])]
  /\ Advance(w)
  /\ UNCHANGED <<objectVars, pool, faults>>

LEMMA ExecuteEffect ==
  ASSUME TypeOK, Control, NEW w \in Workers, Execute(w)
  PROVE  /\ Executes(w) /\ server' \in [Dbs -> SUBSET Parts]
         /\ server'[job[w].db] =
              Result(object[job[w].db].engine, server[job[w].db], job[w].todo[1])
         /\ \A d \in Dbs \ {job[w].db} : server'[d] = server[d]
<1> DEFINE d == job[w].db
           S == Result(object[d].engine, server[d], job[w].todo[1])
<1>1. job[w].todo \in Seq(Stmts) /\ d \in Dbs /\ job[w].todo # <<>>
  BY JobType DEF Control, Execute
<1>2. Head(job[w].todo) = job[w].todo[1]
  BY <1>1, TailType
<1>3. Executes(w)
  BY <1>2 DEF Execute, Executes
<1>4. server' = [server EXCEPT ![d] = S]
  BY <1>3 DEF Executes
<1>5. server[d] \in SUBSET Parts
  BY <1>1 DEF TypeOK
<1>6. S \in SUBSET Parts
  BY <1>5, ResultType
<1> HIDE DEF S
<1>7. server' \in [Dbs -> SUBSET Parts] /\ server'[d] = S /\ \A c \in Dbs \ {d} : server'[c] = server[c]
  BY <1>1, <1>4, <1>6 DEF TypeOK
<1>8. QED
  BY <1>3, <1>7 DEF S

LEMMA JobFrame ==
  ASSUME TypeOK, Control, NEW w \in Workers, JobStep(w)
  PROVE  /\ UNCHANGED <<secret, cache, notes, overlap>>
         /\ queued' \subseteq Dbs /\ pool' \subseteq Dbs /\ pool \subseteq pool'
         /\ server' \in [Dbs -> SUBSET Parts] /\ faults' \in Nat
         /\ \A d \in Dbs : d = job[w].db \/ server'[d] = server[d]
         /\ object' \in [Dbs -> ObjectRec]
         /\ \A d \in Dbs : object'[d] = object[d] \/ (w = "worker" /\ Reported(d))
<1>1. job[w].db \in Dbs /\ "worker" \in Workers /\ "handler" \in Workers
  BY JobType DEF Workers
<1>2. UNCHANGED <<secret, cache, notes, overlap>>
  BY DEF JobStep, Parse, ParseFails, Execute, ExecuteFails, Check, CheckFails, Ready, NotReady,
         Report, Return, objectVars
<1>3. pool' \subseteq Dbs /\ pool \subseteq pool'
  BY <1>1 DEF JobStep, Parse, ParseFails, Execute, ExecuteFails, Check, CheckFails, Ready, NotReady,
         Report, Return, TypeOK
<1>4. queued' \subseteq Dbs
  BY <1>1, JobType DEF JobStep, Parse, ParseFails, Execute, ExecuteFails, Check, CheckFails, Ready,
         NotReady, Report, Return, TypeOK
<1>5. faults' \in Nat
  <2>1. CASE ParseFails(w)
    BY <2>1 DEF ParseFails, Spend, TypeOK
  <2>2. CASE ExecuteFails(w)
    <3>1. Spend \/ UNCHANGED faults
      BY <2>2, Zenon DEF ExecuteFails
    <3>2. QED
      BY <3>1 DEF Spend, TypeOK
  <2>3. CASE CheckFails
    BY <2>3 DEF CheckFails, Spend, TypeOK
  <2>4. CASE Parse(w) \/ Execute(w) \/ Check \/ Ready \/ NotReady \/ Return
    BY <2>4 DEF Parse, Execute, Check, Ready, NotReady, Report, Return, TypeOK
  <2>5. QED
    BY <2>1, <2>2, <2>3, <2>4 DEF JobStep
<1>6. /\ server' \in [Dbs -> SUBSET Parts]
      /\ \A d \in Dbs : d = job[w].db \/ server'[d] = server[d]
  <2>1. CASE Execute(w)
    BY <2>1, ExecuteEffect
  <2>2. CASE ~Execute(w)
    <3>1. server' = server
      BY <2>2 DEF JobStep, Parse, ParseFails, ExecuteFails, Check, CheckFails, Ready, NotReady,
             Report, Return
    <3>2. QED
      BY <3>1 DEF TypeOK
  <2>3. QED
    BY <2>1, <2>2
<1>7. /\ object' \in [Dbs -> ObjectRec]
      /\ \A d \in Dbs : object'[d] = object[d] \/ (w = "worker" /\ Reported(d))
  <2>1. CASE w = "worker" /\ (Ready \/ NotReady)
    BY <2>1, ReportEffect DEF Ready, NotReady
  <2>2. CASE ~(w = "worker" /\ (Ready \/ NotReady))
    <3>1. object' = object
      BY <2>2 DEF JobStep, Parse, ParseFails, Execute, ExecuteFails, Check, CheckFails, Return,
             objectVars
    <3>2. QED
      BY <3>1 DEF TypeOK
  <2>3. QED
    BY <2>1, <2>2
<1>8. QED
  BY <1>2, <1>3, <1>4, <1>5, <1>6, <1>7

-----------------------------------------------------------------------------
(* What the informer does: it adds an event at the end.                    *)
LEMMA AppendType ==
  ASSUME NEW S, NEW t \in Seq(S), NEW x \in S
  PROVE  /\ Append(t, x) \in Seq(S) /\ Len(t) \in Nat
         /\ Len(t) + 1 \in 1 .. Len(Append(t, x)) /\ Append(t, x)[Len(t) + 1] = x
         /\ \A i \in 1 .. Len(t) : i \in 1 .. Len(Append(t, x)) /\ Append(t, x)[i] = t[i]
         /\ \A i \in 1 .. Len(Append(t, x)) : i \in 1 .. Len(t) \/ i = Len(t) + 1
OBVIOUS

Observed(d, n) ==
  /\ cache[d] # (IF object[d].alive THEN object[d].life ELSE 0)
  /\ n.db = d /\ n.retain = object[d].retain
  /\ n.gone => cache[d] > 0 /\ cache'[d] = 0
  /\ ~n.gone => object[d].alive /\ cache'[d] = object[d].life
  /\ notes' = Append(notes, n)

LEMMA ObserveEffect ==
  ASSUME TypeOK, NEW d \in Dbs, Observe(d)
  PROVE  /\ \E n \in NoteRec : Observed(d, n)
         /\ cache' \in [Dbs -> Nat] /\ \A c \in Dbs \ {d} : cache'[c] = cache[c]
         /\ UNCHANGED <<objectVars, pool, server, queued, job, overlap, faults>>
<1> DEFINE o == object[d]
           m == [db |-> d, retain |-> o.retain, gone |-> TRUE]
           n == [db |-> d, retain |-> o.retain, gone |-> FALSE]
<1>1. o.retain \in BOOLEAN /\ o.life \in Nat
  BY DEF TypeOK, ObjectRec
<1>2. /\ m \in NoteRec /\ m.db = d /\ m.retain = o.retain /\ m.gone = TRUE
      /\ n \in NoteRec /\ n.db = d /\ n.retain = o.retain /\ n.gone = FALSE
  BY <1>1 DEF NoteRec
<1>3. UNCHANGED <<objectVars, pool, server, queued, job, overlap, faults>>
  BY DEF Observe
<1>4. cache[d] # (IF o.alive THEN o.life ELSE 0)
  BY DEF Observe
<1>5. \/ cache[d] > 0 /\ cache' = [cache EXCEPT ![d] = 0] /\ notes' = Append(notes, m)
      \/ o.alive /\ cache' = [cache EXCEPT ![d] = o.life] /\ notes' = Append(notes, n)
  BY DEF Observe
<1> HIDE DEF m, n
<1>6. CASE cache[d] > 0 /\ cache' = [cache EXCEPT ![d] = 0] /\ notes' = Append(notes, m)
  <2>1. /\ cache' \in [Dbs -> Nat] /\ cache'[d] = 0
        /\ \A c \in Dbs \ {d} : cache'[c] = cache[c]
    BY <1>6 DEF TypeOK
  <2>2. Observed(d, m)
    BY <1>2, <1>4, <1>6, <2>1 DEF Observed
  <2>3. QED
    BY <1>2, <1>3, <2>1, <2>2
<1>7. CASE o.alive /\ cache' = [cache EXCEPT ![d] = o.life] /\ notes' = Append(notes, n)
  <2>1. /\ cache' \in [Dbs -> Nat] /\ cache'[d] = o.life
        /\ \A c \in Dbs \ {d} : cache'[c] = cache[c]
    BY <1>1, <1>7 DEF TypeOK
  <2>2. Observed(d, n)
    BY <1>2, <1>4, <1>7, <2>1 DEF Observed
  <2>3. QED
    BY <1>2, <1>3, <2>1, <2>2
<1>8. QED
  BY <1>5, <1>6, <1>7

LEMMA RestEffect ==
  ASSUME TypeOK, NEW d \in Dbs, DeleteSecret(d)
  PROVE  /\ secret' \in [Dbs -> BOOLEAN] /\ \A c \in Dbs \ {d} : secret'[c] = secret[c]
         /\ UNCHANGED <<object, pool, server, cache, notes, queued, job, overlap, faults>>
BY DEF DeleteSecret, TypeOK

-----------------------------------------------------------------------------
(* The types and the control states are kept by every step.                *)
LEMMA TypeStep ==
  ASSUME TypeOK, Control, Dbs # {}, [Next]_vars
  PROVE  TypeOK' /\ Control'
<1> DEFINE Goal == TypeOK' /\ Control'
<1>1. ASSUME UNCHANGED <<pool, server, job, overlap, faults>>,
             object' \in [Dbs -> ObjectRec], secret' \in [Dbs -> BOOLEAN],
             queued' \subseteq Dbs, cache' \in [Dbs -> Nat], notes' \in Seq(NoteRec)
      PROVE  Goal
  BY <1>1 DEF TypeOK, Control
<1>2. ASSUME OutsideStep
      PROVE  Goal
  <2>1. PICK d \in Dbs : CreateDb(d) \/ DeleteDb(d) \/ DeleteSecret(d) \/ Observe(d)
    BY <1>2 DEF OutsideStep
  <2>2. UNCHANGED <<pool, server, job, overlap, faults>>
    BY <1>2, OutsideJob
  <2>3. CASE CreateDb(d)
    <3>1. UNCHANGED <<queued, cache, notes>>
      BY <2>3 DEF CreateDb
    <3>2. QED
      BY <1>1, <2>2, <2>3, <3>1, MadeEffect DEF TypeOK
  <2>4. CASE DeleteDb(d)
    <3>1. UNCHANGED <<secret, queued, cache, notes>>
      BY <2>4 DEF DeleteDb
    <3>2. QED
      BY <1>1, <2>2, <2>4, <3>1, WentEffect DEF TypeOK
  <2>5. CASE DeleteSecret(d)
    BY <1>1, <2>5, RestEffect DEF TypeOK
  <2>6. CASE Observe(d)
    <3>1. PICK n \in NoteRec : Observed(d, n)
      BY <2>6, ObserveEffect
    <3>2. notes' \in Seq(NoteRec)
      BY <3>1, AppendType DEF Observed, TypeOK
    <3>3. UNCHANGED <<object, secret, queued>> /\ cache' \in [Dbs -> Nat]
      BY <2>6, ObserveEffect DEF objectVars
    <3>4. QED
      BY <1>1, <2>2, <3>2, <3>3 DEF TypeOK
  <2>7. QED
    BY <2>1, <2>3, <2>4, <2>5, <2>6
<1>3. ASSUME Resync
      PROVE  Goal
  <2>1. queued' \subseteq Dbs /\ UNCHANGED <<object, secret, cache, notes>>
    BY <1>3 DEF Resync, objectVars, TypeOK
  <2>2. QED
    BY <1>1, <1>3, <2>1, OutsideJob DEF TypeOK
<1>4. ASSUME Notify
      PROVE  Goal
  <2> notes \in Seq(NoteRec) /\ notes # <<>> /\ notes' = Tail(notes)
    BY <1>4, NotifyEffect DEF TypeOK
  <2>1. notes' \in Seq(NoteRec) /\ notes[1] \in NoteRec /\ Head(notes) = notes[1]
    BY TailType
  <2>2. queued' \subseteq Dbs
    BY <1>4, <2>1 DEF Notify, TypeOK, NoteRec
  <2>3. overlap' \in BOOLEAN
    BY <1>4 DEF Notify, TypeOK
  <2>4. QED
    BY <1>4, <2>1, <2>2, <2>3, NotifyEffect DEF TypeOK, objectVars
<1>5. ASSUME Restart
      PROVE  Goal
  <2>1. /\ pool' \subseteq Dbs /\ queued' \subseteq Dbs /\ cache' \in [Dbs -> Nat] /\ faults' \in Nat
        /\ notes' \in Seq(NoteRec)
    BY <1>5 DEF Restart, Spend, TypeOK
  <2>2. UNCHANGED <<object, secret, server, overlap>>
    BY <1>5 DEF Restart, objectVars
  <2>3. QED
    BY <1>5, <2>1, <2>2, RestartEffect DEF TypeOK
<1>6. ASSUME UNCHANGED vars
      PROVE  Goal
  BY <1>6 DEF TypeOK, Control, vars
<1>7. ASSUME NEW d \in Dbs, Take(d)
      PROVE  Goal
  <2>1. queued' \subseteq Dbs /\ UNCHANGED <<object, secret, pool, server, cache, notes, overlap, faults>>
    BY <1>7 DEF Take, objectVars, TypeOK
  <2>2. QED
    BY <1>7, <2>1, TakeEffect DEF TypeOK
<1>8. ASSUME NEW w \in Workers, JobStep(w)
      PROVE  Goal
  BY <1>8, JobStepEffect, JobFrame DEF TypeOK
<1>9. QED
  BY <1>2, <1>3, <1>4, <1>5, <1>6, <1>7, <1>8, NextSteps

-----------------------------------------------------------------------------
(* The lives of a Db: every step does one of a few things to it.           *)
ObjectStep(d) == object'[d] = object[d] \/ Made(d) \/ Went(d) \/ Reported(d)

LEMMA ObjectSteps ==
  ASSUME TypeOK, Control, Dbs # {}, [Next]_vars, NEW d \in Dbs
  PROVE  ObjectStep(d)
<1>1. ASSUME NEW c \in Dbs, CreateDb(c) \/ DeleteDb(c) \/ DeleteSecret(c) \/ Observe(c)
      PROVE  ObjectStep(d)
  BY <1>1, MadeEffect, WentEffect, RestEffect, ObserveEffect DEF ObjectStep, objectVars
<1>2. ASSUME Resync \/ Notify \/ Restart \/ UNCHANGED vars \/ \E c \in Dbs : Take(c)
      PROVE  ObjectStep(d)
  BY <1>2 DEF ObjectStep, Resync, Notify, Restart, vars, objectVars, Take
<1>3. ASSUME NEW w \in Workers, JobStep(w)
      PROVE  ObjectStep(d)
  BY <1>3, JobFrame DEF ObjectStep
<1>4. QED
  BY <1>1, <1>2, <1>3, NextSteps DEF OutsideStep

(* A Db that is in its first life is not recycled, and before it nobody    *)
(* knows of it.                                                            *)
Early(d) == object[d].life = 0 \/ (object[d].life = 1 /\ object[d].alive)

LEMMA EarlyStep ==
  ASSUME TypeOK, Control, Dbs # {}, [Next]_vars, NEW d \in Dbs, Lives(d)
  PROVE  /\ object[d].life <= object'[d].life
         /\ object'[d].life = 0 => object[d].life = 0 /\ ~object'[d].alive
         /\ Early(d)' => Early(d)
<1>1. object[d] \in ObjectRec /\ object[d].life \in Nat /\ object[d].alive \in BOOLEAN
  BY DEF TypeOK, ObjectRec
<1>2. object[d].life = 0 => ~object[d].alive
  BY DEF Lives
<1>3. ObjectStep(d)
  BY ObjectSteps
<1>4. QED
  BY <1>1, <1>2, <1>3 DEF ObjectStep, Made, Went, Reported, Same, Early

LEMMA LivesStep ==
  ASSUME TypeOK, Control, Dbs # {}, [Next]_vars, NEW d \in Dbs, Lives(d)
  PROVE  Lives(d)'
<1>1. /\ object[d].life \in Nat /\ object'[d].life \in Nat /\ cache[d] \in Nat
      /\ object[d].alive \in BOOLEAN /\ notes \in Seq(NoteRec)
  BY TypeStep DEF TypeOK, ObjectRec
<1>2. /\ object[d].life <= object'[d].life
      /\ object'[d].life = 0 => object[d].life = 0 /\ ~object'[d].alive
      /\ Early(d)' => Early(d)
  BY EarlyStep
<1>3. /\ cache[d] <= object[d].life
      /\ object[d].life = 0 => /\ ~object[d].alive /\ ~On("worker", d)
                               /\ \A i \in 1 .. Len(notes) : notes[i].db # d
      /\ Early(d) => ~GoneNote(d) /\ ~On("handler", d)
  BY DEF Lives, Early
<1> DEFINE Goal == Lives(d)'
<1>4. ASSUME cache'[d] <= object'[d].life,
             object[d].life = 0 => /\ ~On("worker", d)'
                                   /\ \A i \in 1 .. Len(notes') : notes'[i].db # d,
             Early(d) => ~GoneNote(d)' /\ ~On("handler", d)'
      PROVE  Goal
  BY <1>2, <1>4 DEF Lives, Early
<1>5. ASSUME UNCHANGED <<cache, notes, job>>
      PROVE  Goal
  <2>1. cache'[d] <= object'[d].life
    BY <1>1, <1>2, <1>3, <1>5
  <2>2. On("worker", d)' = On("worker", d) /\ On("handler", d)' = On("handler", d)
    BY <1>5 DEF On
  <2>3. GoneNote(d)' = GoneNote(d)
    BY <1>5 DEF GoneNote, Gone
  <2>4. QED
    BY <1>3, <1>4, <1>5, <2>1, <2>2, <2>3
<1>6. ASSUME NEW c \in Dbs, Observe(c)
      PROVE  Goal
  <2>1. PICK n \in NoteRec : Observed(c, n)
    BY <1>6, ObserveEffect
  <2>2. UNCHANGED <<object, job>> /\ (c = d \/ cache'[d] = cache[d])
    BY <1>6, ObserveEffect DEF objectVars
  <2>3. notes' = Append(notes, n) /\ n.db = c /\ n.gone \in BOOLEAN
    BY <2>1 DEF Observed, NoteRec
  <2>4. cache'[d] <= object'[d].life
    <3>1. CASE c = d
      BY <1>1, <2>1, <2>2, <2>3, <3>1 DEF Observed
    <3>2. CASE c # d
      BY <1>3, <2>2, <3>2
    <3>3. QED
      BY <3>1, <3>2
  <2>5. \A i \in 1 .. Len(notes') : (i \in 1 .. Len(notes) /\ notes'[i] = notes[i]) \/ notes'[i] = n
    BY <1>1, <2>3, AppendType
  <2>6. ASSUME object[d].life = 0
        PROVE  c # d
    BY <1>1, <1>3, <2>1, <2>3, <2>6 DEF Observed
  <2>7. ASSUME Early(d), n.gone
        PROVE  c # d
    BY <1>1, <1>3, <2>1, <2>7 DEF Observed, Early
  <2>8. object[d].life = 0 => \A i \in 1 .. Len(notes') : notes'[i].db # d
    BY <1>3, <2>3, <2>5, <2>6
  <2>9. Early(d) => ~GoneNote(d)'
    BY <1>3, <2>3, <2>5, <2>7 DEF GoneNote, Gone
  <2>10. On("worker", d)' = On("worker", d) /\ On("handler", d)' = On("handler", d)
    BY <2>2 DEF On
  <2>11. QED
    BY <1>3, <1>4, <2>4, <2>8, <2>9, <2>10
<1>7. ASSUME Notify
      PROVE  Goal
  <2>1. UNCHANGED <<object, cache>> /\ notes # <<>> /\ notes' = Tail(notes)
    BY <1>7, NotifyEffect DEF objectVars
  <2>2. /\ 1 \in 1 .. Len(notes)
        /\ \A i \in 1 .. Len(notes') : i + 1 \in 1 .. Len(notes) /\ notes'[i] = notes[i + 1]
    BY <1>1, <2>1, TailType
  <2>3. On("worker", d)' = On("worker", d)
    BY <1>7, NotifyEffect DEF On
  <2>4. On("handler", d)' => Gone(1, d)
    BY <1>7, NotifyEffect DEF On, Gone
  <2>5. GoneNote(d)' => GoneNote(d)
    BY <2>2 DEF GoneNote, Gone
  <2>6. object[d].life = 0 => \A i \in 1 .. Len(notes') : notes'[i].db # d
    BY <1>3, <2>2
  <2>7. cache'[d] <= object'[d].life
    BY <1>3, <2>1
  <2>8. On("handler", d)' => GoneNote(d)
    BY <2>2, <2>4 DEF GoneNote
  <2>9. QED
    BY <1>3, <1>4, <2>3, <2>5, <2>6, <2>7, <2>8
<1>8. ASSUME Restart
      PROVE  Goal
  <2>1. cache'[d] = 0 /\ notes' = <<>>
    BY <1>8 DEF Restart
  <2>2. ~On("worker", d)' /\ ~On("handler", d)'
    BY <1>8, RestartEffect DEF On, Workers
  <2>3. 1 .. Len(notes') = {}
    BY <2>1
  <2>4. ~GoneNote(d)'
    BY <2>3 DEF GoneNote
  <2>5. QED
    BY <1>1, <1>4, <2>1, <2>2, <2>3, <2>4
<1>9. ASSUME NEW c \in Dbs, Take(c)
      PROVE  Goal
  <2>1. UNCHANGED <<object, cache, notes>>
    BY <1>9 DEF Take, objectVars
  <2>2. On("handler", d)' = On("handler", d)
    BY <1>9, TakeEffect DEF On
  <2>3. On("worker", d)' => cache[d] # 0
    BY <1>9, TakeEffect DEF On
  <2>4. object[d].life = 0 => ~On("worker", d)'
    BY <1>1, <1>3, <2>3
  <2>5. GoneNote(d)' = GoneNote(d)
    BY <2>1 DEF GoneNote, Gone
  <2>6. QED
    BY <1>3, <1>4, <2>1, <2>2, <2>4, <2>5
<1>10. ASSUME NEW w \in Workers, JobStep(w)
       PROVE  Goal
  <2>1. UNCHANGED <<cache, notes>>
    BY <1>10, JobFrame
  <2>2. \A v \in Workers : On(v, d)' => On(v, d)
    BY <1>10, JobStepEffect DEF On
  <2>3. GoneNote(d)' = GoneNote(d)
    BY <2>1 DEF GoneNote, Gone
  <2>4. cache'[d] <= object'[d].life
    BY <1>1, <1>2, <1>3, <2>1
  <2>5. (On("worker", d)' => On("worker", d)) /\ (On("handler", d)' => On("handler", d))
    BY <2>2 DEF Workers
  <2>6. QED
    BY <1>3, <1>4, <2>1, <2>3, <2>4, <2>5
<1>11. ASSUME NEW c \in Dbs, CreateDb(c) \/ DeleteDb(c) \/ DeleteSecret(c)
       PROVE  Goal
  BY <1>5, <1>11 DEF CreateDb, DeleteDb, DeleteSecret
<1>12. ASSUME Resync \/ UNCHANGED vars
       PROVE  Goal
  BY <1>5, <1>12 DEF Resync, vars
<1>13. QED
  BY <1>6, <1>7, <1>8, <1>9, <1>10, <1>11, <1>12, NextSteps DEF OutsideStep

-----------------------------------------------------------------------------
(* A creation: each statement brings its part, and none is lost.           *)
Needs(e) == {"database", "user"} \cup (IF e = "mysql" THEN {"grant"} ELSE {})

LEMMA NeedsUsable ==
  ASSUME NEW e \in Engines, NEW S
  PROVE  Usable(e, S) <=> \A s \in Needs(e) : s \in S
BY DEF Usable, Needs

LEMMA Five ==
  ASSUME NEW a, NEW b, NEW c, NEW d, NEW e
  PROVE  /\ Len(<<a, b, c, d, e>>) = 5
         /\ \A i \in 1 .. 5 : <<a, b, c, d, e>>[i] \in {a, b, c, d, e}
         /\ <<a, b, c, d, e>>[1] = a /\ <<a, b, c, d, e>>[2] = b /\ <<a, b, c, d, e>>[3] = c
         /\ <<a, b, c, d, e>>[4] = d /\ <<a, b, c, d, e>>[5] = e
OBVIOUS

LEMMA Four ==
  ASSUME NEW a, NEW b, NEW c, NEW d
  PROVE  /\ Len(<<a, b, c, d>>) = 4
         /\ \A i \in 1 .. 4 : <<a, b, c, d>>[i] \in {a, b, c, d}
         /\ <<a, b, c, d>>[1] = a /\ <<a, b, c, d>>[2] = b /\ <<a, b, c, d>>[3] = c
         /\ <<a, b, c, d>>[4] = d
OBVIOUS

LEMMA CreatingBuilds ==
  ASSUME NEW e \in Engines, NEW S
  PROVE  Building(e, S, Creating(e))
<1> DEFINE t == Creating(e)
<1>1. CASE e = "mysql"
  <2>1. t = <<"database", "use", "user", "grant", "flush">>
    BY <1>1 DEF Creating
  <2>2. /\ Len(t) = 5 /\ \A i \in 1 .. 5 : t[i] \in {"database", "use", "user", "grant", "flush"}
        /\ t[1] = "database" /\ t[3] = "user" /\ t[4] = "grant"
    BY <2>1, Five
  <2> HIDE DEF t
  <2>3. \A i \in 1 .. Len(t) : t[i] \in Makes
    BY <2>2 DEF Makes, Parts
  <2>4. \A s \in {"database", "user", "grant"} : \E i \in 1 .. Len(t) : t[i] = s
    BY <2>2
  <2>5. QED
    BY <1>1, <2>3, <2>4 DEF Building, t
<1>2. CASE e # "mysql"
  <2>1. t = <<"database", "user", "grant", "owner">>
    BY <1>2 DEF Creating
  <2>2. /\ Len(t) = 4 /\ \A i \in 1 .. 4 : t[i] \in {"database", "user", "grant", "owner"}
        /\ t[1] = "database" /\ t[2] = "user"
    BY <2>1, Four
  <2> HIDE DEF t
  <2>3. \A i \in 1 .. Len(t) : t[i] \in Makes
    BY <2>2 DEF Makes, Parts
  <2>4. \A s \in {"database", "user"} : \E i \in 1 .. Len(t) : t[i] = s
    BY <2>2
  <2>5. QED
    BY <1>2, <2>3, <2>4 DEF Building, t
<1>3. QED
  BY <1>1, <1>2

LEMMA BuildingStep ==
  ASSUME NEW e \in Engines, NEW S \in SUBSET Parts, NEW t \in Seq(Stmts), t # <<>>,
         Building(e, S, t)
  PROVE  /\ S \subseteq Result(e, S, t[1])
         /\ Building(e, Result(e, S, t[1]), Tail(t))
         /\ Tail(t) = <<>> => Usable(e, Result(e, S, t[1]))
<1> DEFINE R == Result(e, S, t[1])
<1>1. /\ Tail(t) \in Seq(Stmts) /\ 1 \in 1 .. Len(t)
      /\ \A i \in 1 .. Len(Tail(t)) : i + 1 \in 1 .. Len(t) /\ Tail(t)[i] = t[i + 1]
      /\ \A i \in 1 .. Len(t) : i # 1 => i - 1 \in 1 .. Len(Tail(t)) /\ Tail(t)[i - 1] = t[i]
  BY TailType
<1>2. /\ \A i \in 1 .. Len(t) : t[i] \in Makes
      /\ \A s \in Needs(e) : s \in S \/ \E i \in 1 .. Len(t) : t[i] = s
  BY DEF Building, Needs
<1>3. S \subseteq R /\ (t[1] \in Parts => t[1] \in R)
  BY <1>1, <1>2, ResultKeeps
<1> HIDE DEF R
<1>4. \A i \in 1 .. Len(Tail(t)) : Tail(t)[i] \in Makes
  BY <1>1, <1>2
<1>5. ASSUME NEW s \in Needs(e)
      PROVE  s \in R \/ \E i \in 1 .. Len(Tail(t)) : Tail(t)[i] = s
  <2>1. s \in Parts
    BY DEF Needs, Parts
  <2>2. CASE s \in S
    BY <1>3, <2>2
  <2>3. ASSUME NEW i \in 1 .. Len(t), t[i] = s
        PROVE  s \in R \/ \E j \in 1 .. Len(Tail(t)) : Tail(t)[j] = s
    <3>1. CASE i = 1
      BY <1>3, <2>1, <2>3, <3>1
    <3>2. CASE i # 1
      BY <1>1, <2>3, <3>2
    <3>3. QED
      BY <3>1, <3>2
  <2>4. QED
    BY <1>2, <2>2, <2>3
<1>6. Building(e, R, Tail(t))
  BY <1>4, <1>5 DEF Building, Needs
<1>7. ASSUME Tail(t) = <<>>
      PROVE  Usable(e, R)
  <2>1. 1 .. Len(Tail(t)) = {}
    BY <1>7
  <2>2. \A s \in Needs(e) : s \in R
    BY <1>5, <2>1
  <2>3. QED
    BY <2>2, NeedsUsable
<1>8. QED
  BY <1>3, <1>6, <1>7 DEF R

LEMMA ServingStep ==
  ASSUME TypeOK, Control, Dbs # {}, [Next]_vars, NEW d \in Dbs, Lives(d), Serving(d)
  PROVE  Serving(d)'
<1> DEFINE o == object[d]
           e == o.engine
           First == o.life = 1 /\ o.alive
           On1 == On("worker", d)
           Goal == Serving(d)'
<1>1. /\ o \in ObjectRec /\ o.life \in Nat /\ o.engine \in Engines /\ server[d] \in SUBSET Parts
      /\ o.alive \in BOOLEAN /\ o.ready \in BOOLEAN
      /\ "worker" \in Workers /\ "handler" \in Workers /\ "worker" # "handler"
  BY DEF TypeOK, ObjectRec, Workers
<1>2. ObjectStep(d)
  BY ObjectSteps
<1>3. Early(d)' => Early(d)
  BY EarlyStep
<1>4. First' => (First \/ o.life = 0) /\ ~On("handler", d)
  BY <1>3 DEF Early, Lives
<1>5. First /\ First' => object'[d].engine = e /\ (object'[d] = o \/ Reported(d))
  BY <1>1, <1>2 DEF ObjectStep, Made, Went, Reported, Same
<1>6. ASSUME First', ~First
      PROVE  o.life = 0 /\ ~object'[d].ready
  BY <1>1, <1>2, <1>4, <1>6 DEF ObjectStep, Made, Went, Reported, Same, Lives
(* Its database is as it was, and the worker is not at it in a new way.    *)
<1>7. ASSUME server'[d] = server[d],
             On("worker", d)' /\ job'["worker"].pc \in {"sql", "ready"} =>
               On("worker", d) /\ job'["worker"] = job["worker"],
             First' /\ object'[d].ready => First /\ o.ready
      PROVE  Goal
  <2>1. SUFFICES ASSUME First'
                 PROVE  /\ On("worker", d)' /\ job'["worker"].pc = "sql" =>
                             Building(object'[d].engine, server'[d], job'["worker"].todo)
                        /\ On("worker", d)' /\ job'["worker"].pc = "ready" =>
                             Usable(object'[d].engine, server'[d])
                        /\ object'[d].ready => Usable(object'[d].engine, server'[d])
    BY DEF Serving
  <2>2. CASE First
    BY <1>5, <1>7, <2>1, <2>2 DEF Serving
  <2>3. CASE ~First
    <3>1. ~On("worker", d) /\ ~object'[d].ready
      BY <1>6, <2>1, <2>3 DEF Lives
    <3>2. QED
      BY <1>7, <3>1
  <2>4. QED
    BY <2>2, <2>3
<1>8. ASSUME OutsideStep \/ Resync \/ UNCHANGED vars
      PROVE  Goal
  <2>1. UNCHANGED <<server, job>>
    BY <1>8, OutsideJob
  <2>2. On("worker", d)' = On("worker", d)
    BY <2>1 DEF On
  <2>3. ASSUME NEW c \in Dbs, CreateDb(c) \/ DeleteDb(c) \/ DeleteSecret(c) \/ Observe(c)
        PROVE  object'[d] = object[d] \/ Made(d) \/ Went(d)
    BY <2>3, MadeEffect, WentEffect, RestEffect, ObserveEffect DEF objectVars
  <2>4. object'[d] = object[d] \/ Made(d) \/ Went(d)
    BY <1>8, <2>3 DEF OutsideStep, Resync, vars, objectVars
  <2>5. First' /\ object'[d].ready => First /\ o.ready
    BY <2>4 DEF Made, Went
  <2>6. QED
    BY <1>7, <2>1, <2>2, <2>5
<1>9. ASSUME Notify
      PROVE  Goal
  <2>1. UNCHANGED <<object, server>> /\ job'["worker"] = job["worker"]
    BY <1>9, NotifyEffect DEF objectVars
  <2>2. On("worker", d)' = On("worker", d)
    BY <2>1 DEF On
  <2>3. QED
    BY <1>7, <2>1, <2>2
<1>10. ASSUME Restart
       PROVE  Goal
  <2>1. UNCHANGED <<object, server>>
    BY <1>10 DEF Restart, objectVars
  <2>2. ~On("worker", d)'
    BY <1>1, <1>10, RestartEffect DEF On
  <2>3. QED
    BY <1>7, <2>1, <2>2
<1>11. ASSUME NEW c \in Dbs, Take(c)
       PROVE  Goal
  <2>1. UNCHANGED <<object, server>>
    BY <1>11 DEF Take, objectVars
  <2>2. job'["worker"] = job["worker"] \/ job'["worker"].pc = "parse"
    BY <1>11, TakeEffect
  <2>3. On("worker", d)' /\ job'["worker"].pc \in {"sql", "ready"} =>
          On("worker", d) /\ job'["worker"] = job["worker"]
    BY <2>2 DEF On
  <2>4. QED
    BY <1>7, <2>1, <2>3
<1>12. ASSUME NEW w \in Workers, JobStep(w), job[w].db # d
       PROVE  Goal
  <2>1. server'[d] = server[d] /\ object'[d] = object[d]
    BY <1>12, JobFrame, JobStepEffect DEF Reported
  <2>2. On("worker", d)' => On("worker", d) /\ job'["worker"] = job["worker"]
    BY <1>1, <1>12, JobStepEffect DEF On
  <2>3. QED
    BY <1>7, <2>1, <2>2
<1>13. ASSUME JobStep("handler"), job["handler"].db = d
       PROVE  Goal
  <2>1. On("handler", d)
    BY <1>1, <1>13, JobStepEffect DEF On
  <2>2. QED
    BY <1>4, <2>1 DEF Serving
<1>14. ASSUME JobStep("worker"), job["worker"].db = d
       PROVE  Goal
  <2>1. On("worker", d) /\ o.life # 0
    BY <1>1, <1>14, JobStepEffect DEF On, Lives
  <2>2. SUFFICES ASSUME First', First
                 PROVE  /\ On("worker", d)' /\ job'["worker"].pc = "sql" =>
                             Building(e, server'[d], job'["worker"].todo)
                        /\ On("worker", d)' /\ job'["worker"].pc = "ready" => Usable(e, server'[d])
                        /\ object'[d].ready => Usable(e, server'[d])
    BY <1>4, <1>5, <2>1 DEF Serving
  <2>3. /\ job["worker"].pc = "sql" => Building(e, server[d], job["worker"].todo)
        /\ job["worker"].pc = "ready" => Usable(e, server[d])
        /\ o.ready => Usable(e, server[d])
    BY <2>1, <2>2 DEF Serving
  <2>4. object'[d].ready => o.ready \/ job["worker"].pc = "ready"
    BY <1>5, <2>2 DEF Reported
  <2>5. job["worker"].todo \in Seq(Stmts)
    BY <1>1, JobType
  <2>6. CASE Execute("worker")
    <3>1. /\ job["worker"].pc = "sql" /\ job["worker"].todo # <<>>
          /\ Advance("worker") /\ UNCHANGED object
          /\ server'[d] = Result(e, server[d], job["worker"].todo[1])
      BY <1>1, <1>14, <2>6, ExecuteEffect DEF Executes, Control, objectVars
    <3>2. /\ server[d] \subseteq server'[d]
          /\ Building(e, server'[d], Tail(job["worker"].todo))
          /\ Tail(job["worker"].todo) = <<>> => Usable(e, server'[d])
      <4> DEFINE t == job["worker"].todo
                 S == server[d]
      <4>1. S \in SUBSET Parts /\ t \in Seq(Stmts) /\ t # <<>> /\ e \in Engines /\ Building(e, S, t)
        BY <1>1, <2>3, <2>5, <3>1
      <4>2. server'[d] = Result(e, S, t[1])
        BY <3>1
      <4> HIDE DEF t, S, e
      <4>3. /\ S \subseteq Result(e, S, t[1])
            /\ Building(e, Result(e, S, t[1]), Tail(t))
            /\ Tail(t) = <<>> => Usable(e, Result(e, S, t[1]))
        BY <4>1, BuildingStep
      <4>4. S \subseteq server'[d] /\ Building(e, server'[d], Tail(t))
            /\ (Tail(t) = <<>> => Usable(e, server'[d]))
        BY <4>2, <4>3, Zenon
      <4>5. QED
        BY <4>4, Zenon DEF t, S, e
    <3>3. /\ job'["worker"].todo = Tail(job["worker"].todo)
          /\ job'["worker"].pc = IF Tail(job["worker"].todo) # <<>> THEN "sql" ELSE "ready"
      BY <1>1, <3>1, AdvanceEffect
    <3>4. o.ready => Usable(e, server'[d])
      BY <1>1, <2>3, <3>2, NeedsUsable
    <3>5. QED
      BY <3>1, <3>2, <3>3, <3>4
  <2>7. ASSUME UNCHANGED server, UNCHANGED object,
               \/ \E c \in {"check", "not ready"} : Goto("worker", c)
               \/ Usable(e, server[d]) /\ Goto("worker", "ready")
               \/ Begin("worker", Creating(e))
        PROVE  /\ On("worker", d)' /\ job'["worker"].pc = "sql" =>
                    Building(e, server'[d], job'["worker"].todo)
               /\ On("worker", d)' /\ job'["worker"].pc = "ready" => Usable(e, server'[d])
               /\ object'[d].ready => Usable(e, server'[d])
    <3>1. CASE \E c \in {"check", "not ready"} : Goto("worker", c)
      <4>1. job'["worker"].pc \in {"check", "not ready"}
        BY <1>1, <3>1, GotoEffect DEF Pcs
      <4>2. QED
        BY <2>3, <2>7, <4>1
    <3>2. CASE Usable(e, server[d]) /\ Goto("worker", "ready")
      <4>1. job'["worker"].pc = "ready"
        BY <1>1, <3>2, GotoEffect DEF Pcs
      <4>2. QED
        BY <2>3, <2>7, <3>2, <4>1
    <3>3. CASE Begin("worker", Creating(e))
      <4>1. job'["worker"].pc = "sql" /\ job'["worker"].todo = Creating(e)
        BY <1>1, <3>3, BeginEffect, ScriptType
      <4>2. QED
        BY <1>1, <2>3, <2>7, <4>1, CreatingBuilds
    <3>4. QED
      BY <2>7, <3>1, <3>2, <3>3
  <2>8. CASE Parse("worker")
    BY <2>7, <2>8 DEF Parse, objectVars
  <2>9. CASE ParseFails("worker")
    BY <2>7, <2>9 DEF ParseFails, Stop, objectVars
  <2>10. CASE ExecuteFails("worker")
    BY <2>7, <2>10 DEF ExecuteFails, GiveUp, Stop, objectVars
  <2>11. CASE Check
    BY <1>14, <2>7, <2>11 DEF Check, objectVars
  <2>12. CASE CheckFails
    BY <1>14, <2>7, <2>12 DEF CheckFails, objectVars
  <2>13. CASE Ready \/ NotReady
    <3>1. job' = [job EXCEPT !["worker"] = Idle] /\ UNCHANGED server
      BY <2>13 DEF Ready, NotReady, Report
    <3>2. ~On("worker", d)'
      BY <1>1, <3>1, IdleType DEF On, TypeOK
    <3>3. QED
      BY <2>3, <2>4, <3>1, <3>2
  <2>14. QED
    BY <1>1, <1>14, <2>6, <2>8, <2>9, <2>10, <2>11, <2>12, <2>13 DEF JobStep
<1>15. QED
  BY <1>8, <1>9, <1>10, <1>11, <1>12, <1>13, <1>14, NextSteps DEF Workers

-----------------------------------------------------------------------------
LEMMA UsableStart ==
  ASSUME Dbs # {}, Init
  PROVE  UsableInv
<1>1. Idle \in JobRec /\ Idle.pc = "idle"
  BY IdleType
<1>2. Unborn \in ObjectRec /\ Unborn.life = 0 /\ Unborn.alive = FALSE
  BY DEF Unborn, ObjectRec, Engines
<1>3. TypeOK
  <2>1. <<>> \in Seq(NoteRec)
    OBVIOUS
  <2>2. job \in [Workers -> JobRec]
    BY <1>1 DEF Init, Workers
  <2>3. object \in [Dbs -> ObjectRec]
    BY <1>2 DEF Init
  <2>4. notes \in Seq(NoteRec)
    BY <2>1, Zenon DEF Init
  <2>5. QED
    BY <2>2, <2>3, <2>4 DEF Init, TypeOK
<1>4. job["worker"] = Idle /\ job["handler"] = Idle
  BY DEF Init
<1>5. Control
  BY <1>1, <1>4 DEF Control, Workers
<1>6. ASSUME NEW d \in Dbs
      PROVE  Lives(d) /\ Serving(d)
  <2>1. object[d].life = 0 /\ ~object[d].alive /\ cache[d] = 0 /\ notes = <<>>
    BY <1>2 DEF Init
  <2>2. ~On("worker", d) /\ ~On("handler", d)
    BY <1>1, <1>4 DEF On
  <2>3. 1 .. Len(notes) = {}
    BY <2>1
  <2>4. Lives(d)
    BY <2>1, <2>2, <2>3 DEF Lives, GoneNote
  <2>5. Serving(d)
    BY <2>1 DEF Serving
  <2>6. QED
    BY <2>4, <2>5
<1>7. QED
  BY <1>3, <1>5, <1>6 DEF UsableInv

(* A Db that is Ready can be used, however many creations were cut short,  *)
(* failed, or overtaken by what the API server and the informer know.      *)
THEOREM ServesWhenReady ==
  ASSUME Dbs # {}
  PROVE  Spec => []ReadyIsUsable
<1>1. Init => UsableInv
  BY UsableStart
<1>2. UsableInv /\ [Next]_vars => UsableInv'
  <2>1. SUFFICES ASSUME UsableInv, [Next]_vars
                 PROVE  UsableInv'
    OBVIOUS
  <2>2. TypeOK' /\ Control'
    BY <2>1, TypeStep DEF UsableInv
  <2>3. \A d \in Dbs : Lives(d)' /\ Serving(d)'
    BY <2>1, LivesStep, ServingStep DEF UsableInv
  <2>4. QED
    BY <2>2, <2>3 DEF UsableInv
<1>3. UsableInv => ReadyIsUsable
  BY DEF UsableInv, Serving, ReadyIsUsable
<1>4. QED
  BY <1>1, <1>2, <1>3, PTL DEF Spec

-----------------------------------------------------------------------------
(* Undisturbed scripts: each statement is accepted, and brings the server  *)
(* to the next line of the table.                                          *)
LEMMA Tail1 ==
  ASSUME NEW a
  PROVE  Tail(<<a>>) = <<>> /\ <<a>>[1] = a /\ <<a>> # <<>>
OBVIOUS

LEMMA Tail2 ==
  ASSUME NEW a, NEW b
  PROVE  Tail(<<a, b>>) = <<b>> /\ <<a, b>>[1] = a /\ <<b>> # <<>>
OBVIOUS

LEMMA Tail3 ==
  ASSUME NEW a, NEW b, NEW c
  PROVE  Tail(<<a, b, c>>) = <<b, c>> /\ <<a, b, c>>[1] = a /\ <<b, c>> # <<>>
OBVIOUS

LEMMA Tail4 ==
  ASSUME NEW a, NEW b, NEW c, NEW d
  PROVE  Tail(<<a, b, c, d>>) = <<b, c, d>> /\ <<a, b, c, d>>[1] = a /\ <<b, c, d>> # <<>>
OBVIOUS

LEMMA Tail5 ==
  ASSUME NEW a, NEW b, NEW c, NEW d, NEW e
  PROVE  /\ Tail(<<a, b, c, d, e>>) = <<b, c, d, e>> /\ <<a, b, c, d, e>>[1] = a
         /\ <<b, c, d, e>> # <<>>
OBVIOUS

MakingGoesOn(e, S, t) ==
  /\ Accepts(e, S, t[1])
  /\ Tail(t) # <<>> => Making(e, Result(e, S, t[1]), Tail(t))
  /\ Tail(t) = <<>> => Result(e, S, t[1]) = Full(e)

LEMMA MakingStep ==
  ASSUME NEW e \in Engines, NEW S, NEW t, Making(e, S, t)
  PROVE  MakingGoesOn(e, S, t)
<1>1. CASE e = "mysql"
  <2>1. CASE t = <<"database", "use", "user", "grant", "flush">> /\ S = {}
    <3>1. t[1] = "database" /\ Tail(t) = <<"use", "user", "grant", "flush">> /\ Tail(t) # <<>>
      BY <2>1, Tail5
    <3>2. Accepts(e, S, "database") /\ Result(e, S, "database") = {"database"}
      BY <1>1, <2>1 DEF Accepts, Result
    <3>3. QED
      BY <1>1, <3>1, <3>2, Zenon DEF MakingGoesOn, Making
  <2>2. CASE t = <<"use", "user", "grant", "flush">> /\ S = {"database"}
    <3>1. t[1] = "use" /\ Tail(t) = <<"user", "grant", "flush">> /\ Tail(t) # <<>>
      BY <2>2, Tail4
    <3>2. Accepts(e, S, "use") /\ Result(e, S, "use") = {"database"}
      BY <1>1, <2>2 DEF Accepts, Result
    <3>3. QED
      BY <1>1, <3>1, <3>2, Zenon DEF MakingGoesOn, Making
  <2>3. CASE t = <<"user", "grant", "flush">> /\ S = {"database"}
    <3>1. t[1] = "user" /\ Tail(t) = <<"grant", "flush">> /\ Tail(t) # <<>>
      BY <2>3, Tail3
    <3>2. Accepts(e, S, "user") /\ Result(e, S, "user") = {"database", "user"}
      BY <1>1, <2>3 DEF Accepts, Result
    <3>3. QED
      BY <1>1, <3>1, <3>2, Zenon DEF MakingGoesOn, Making
  <2>4. CASE t = <<"grant", "flush">> /\ S = {"database", "user"}
    <3>1. t[1] = "grant" /\ Tail(t) = <<"flush">> /\ Tail(t) # <<>>
      BY <2>4, Tail2
    <3>2. Accepts(e, S, "grant") /\ Result(e, S, "grant") = {"database", "user", "grant"}
      BY <1>1, <2>4 DEF Accepts, Result
    <3>3. QED
      BY <1>1, <3>1, <3>2, Zenon DEF MakingGoesOn, Making
  <2>5. CASE t = <<"flush">> /\ S = {"database", "user", "grant"}
    <3>1. t[1] = "flush" /\ Tail(t) = <<>>
      BY <2>5, Tail1
    <3>2. Accepts(e, S, "flush") /\ Result(e, S, "flush") = Full(e)
      BY <1>1, <2>5 DEF Accepts, Result, Full
    <3>3. QED
      BY <3>1, <3>2, Zenon DEF MakingGoesOn
  <2>6. QED
    BY <1>1, <2>1, <2>2, <2>3, <2>4, <2>5, Zenon DEF Making
<1>2. CASE e = "postgresql"
  <2>1. CASE t = <<"database", "user", "grant", "owner">> /\ S = {}
    <3>1. t[1] = "database" /\ Tail(t) = <<"user", "grant", "owner">> /\ Tail(t) # <<>>
      BY <2>1, Tail4
    <3>2. Accepts(e, S, "database") /\ Result(e, S, "database") = {"database"}
      BY <1>2, <2>1 DEF Accepts, Result
    <3>3. Making(e, {"database"}, <<"user", "grant", "owner">>)
      BY <1>2 DEF Making
    <3>4. QED
      BY <3>1, <3>2, <3>3, Zenon DEF MakingGoesOn
  <2>2. CASE t = <<"user", "grant", "owner">> /\ S = {"database"}
    <3>1. t[1] = "user" /\ Tail(t) = <<"grant", "owner">> /\ Tail(t) # <<>>
      BY <2>2, Tail3
    <3>2. Accepts(e, S, "user") /\ Result(e, S, "user") = {"database", "user"}
      BY <1>2, <2>2 DEF Accepts, Result
    <3>3. Making(e, {"database", "user"}, <<"grant", "owner">>)
      BY <1>2 DEF Making
    <3>4. QED
      BY <3>1, <3>2, <3>3, Zenon DEF MakingGoesOn
  <2>3. CASE t = <<"grant", "owner">> /\ S = {"database", "user"}
    <3>1. t[1] = "grant" /\ Tail(t) = <<"owner">> /\ Tail(t) # <<>>
      BY <2>3, Tail2
    <3>2. Accepts(e, S, "grant") /\ Result(e, S, "grant") = {"database", "user", "grant"}
      BY <1>2, <2>3 DEF Accepts, Result
    <3>3. Making(e, {"database", "user", "grant"}, <<"owner">>)
      BY <1>2 DEF Making
    <3>4. QED
      BY <3>1, <3>2, <3>3, Zenon DEF MakingGoesOn
  <2>4. CASE t = <<"owner">> /\ S = {"database", "user", "grant"}
    <3>1. t[1] = "owner" /\ Tail(t) = <<>>
      BY <2>4, Tail1
    <3>2. Accepts(e, S, "owner") /\ Result(e, S, "owner") = Full(e)
      BY <1>2, <2>4 DEF Accepts, Result, Full, Parts
    <3>3. QED
      BY <3>1, <3>2, Zenon DEF MakingGoesOn
  <2>5. e # "mysql"
    BY <1>2
  <2>6. QED
    BY <2>1, <2>2, <2>3, <2>4, <2>5, Zenon DEF Making
<1>3. QED
  BY <1>1, <1>2 DEF Engines

UnmakingGoesOn(e, S, t) ==
  /\ ~Accepts(e, S, t[1]) => S = {}
  /\ Tail(t) # <<>> /\ Accepts(e, S, t[1]) => Unmaking(e, Result(e, S, t[1]), Tail(t))
  /\ Tail(t) = <<>> => Result(e, S, t[1]) = {}

LEMMA UnmakingStep ==
  ASSUME NEW e \in Engines, NEW S, NEW t, Unmaking(e, S, t)
  PROVE  UnmakingGoesOn(e, S, t)
<1>1. CASE e = "mysql"
  <2>1. CASE t = <<"revoke", "drop user", "drop database", "flush">> /\ S \in {{}, Full(e)}
    <3>1. t[1] = "revoke" /\ Tail(t) = <<"drop user", "drop database", "flush">> /\ Tail(t) # <<>>
      <4> DEFINE a == "revoke"
                 b == "drop user"
                 c == "drop database"
                 d == "flush"
      <4>1. t = <<a, b, c, d>>
        BY <2>1
      <4> HIDE DEF a, b, c, d
      <4>2. t[1] = a /\ Tail(t) = <<b, c, d>> /\ Tail(t) # <<>>
        BY <4>1, Tail4
      <4>3. QED
        BY <4>2, Zenon DEF a, b, c, d
    <3>2. S = {} => ~Accepts(e, S, "revoke")
      BY <1>1 DEF Accepts
    <3>3. S = Full(e) => Accepts(e, S, "revoke") /\ Result(e, S, "revoke") = {"database", "user"}
      BY <1>1 DEF Accepts, Result, Full
    <3>4. Unmaking(e, {"database", "user"}, <<"drop user", "drop database", "flush">>)
      BY <1>1 DEF Unmaking
    <3>5. S = {} \/ S = Full(e)
      BY <2>1
    <3>6. QED
      BY <3>1, <3>2, <3>3, <3>4, <3>5, Zenon DEF UnmakingGoesOn
  <2>2. CASE t = <<"drop user", "drop database", "flush">> /\ S = {"database", "user"}
    <3>1. t[1] = "drop user" /\ Tail(t) = <<"drop database", "flush">> /\ Tail(t) # <<>>
      <4> DEFINE a == "drop user"
                 b == "drop database"
                 c == "flush"
      <4>1. t = <<a, b, c>>
        BY <2>2
      <4> HIDE DEF a, b, c
      <4>2. t[1] = a /\ Tail(t) = <<b, c>> /\ Tail(t) # <<>>
        BY <4>1, Tail3
      <4>3. QED
        BY <4>2, Zenon DEF a, b, c
    <3>2. Accepts(e, S, "drop user") /\ Result(e, S, "drop user") = {"database"}
      BY <1>1, <2>2 DEF Accepts, Result
    <3>3. Unmaking(e, {"database"}, <<"drop database", "flush">>)
      BY <1>1 DEF Unmaking
    <3>4. QED
      BY <3>1, <3>2, <3>3, Zenon DEF UnmakingGoesOn
  <2>3. CASE t = <<"drop database", "flush">> /\ S = {"database"}
    <3>1. t[1] = "drop database" /\ Tail(t) = <<"flush">> /\ Tail(t) # <<>>
      BY <2>3, Tail2
    <3>2. Accepts(e, S, "drop database") /\ Result(e, S, "drop database") = {}
      BY <1>1, <2>3 DEF Accepts, Result
    <3>3. Unmaking(e, {}, <<"flush">>)
      BY <1>1 DEF Unmaking
    <3>4. QED
      BY <3>1, <3>2, <3>3, Zenon DEF UnmakingGoesOn
  <2>4. CASE t = <<"flush">> /\ S = {}
    <3>1. t[1] = "flush" /\ Tail(t) = <<>>
      BY <2>4, Tail1
    <3>2. Result(e, S, "flush") = {}
      BY <1>1, <2>4 DEF Result
    <3>3. QED
      BY <2>4, <3>1, <3>2, Zenon DEF UnmakingGoesOn
  <2>5. QED
    BY <1>1, <2>1, <2>2, <2>3, <2>4, Zenon DEF Unmaking
<1>2. CASE e = "postgresql"
  <2>1. CASE t = <<"revoke", "drop database", "drop user">> /\ S \in {{}, Full(e)}
    <3>1. t[1] = "revoke" /\ Tail(t) = <<"drop database", "drop user">> /\ Tail(t) # <<>>
      <4> DEFINE a == "revoke"
                 b == "drop database"
                 c == "drop user"
      <4>1. t = <<a, b, c>>
        BY <2>1
      <4> HIDE DEF a, b, c
      <4>2. t[1] = a /\ Tail(t) = <<b, c>> /\ Tail(t) # <<>>
        BY <4>1, Tail3
      <4>3. QED
        BY <4>2, Zenon DEF a, b, c
    <3>2. S = {} => ~Accepts(e, S, "revoke")
      BY <1>2 DEF Accepts
    <3>3. S = Full(e) =>
            Accepts(e, S, "revoke") /\ Result(e, S, "revoke") = {"database", "user", "owner"}
      BY <1>2 DEF Accepts, Result, Full, Parts
    <3>4. Unmaking(e, {"database", "user", "owner"}, <<"drop database", "drop user">>)
      BY <1>2 DEF Unmaking
    <3>5. S = {} \/ S = Full(e)
      BY <2>1
    <3>6. QED
      BY <3>1, <3>2, <3>3, <3>4, <3>5, Zenon DEF UnmakingGoesOn
  <2>2. CASE t = <<"drop database", "drop user">> /\ S = {"database", "user", "owner"}
    <3>1. t[1] = "drop database" /\ Tail(t) = <<"drop user">> /\ Tail(t) # <<>>
      BY <2>2, Tail2
    <3>2. Accepts(e, S, "drop database") /\ Result(e, S, "drop database") = {"user"}
      BY <1>2, <2>2 DEF Accepts, Result
    <3>3. Unmaking(e, {"user"}, <<"drop user">>)
      BY <1>2 DEF Unmaking
    <3>4. QED
      BY <3>1, <3>2, <3>3, Zenon DEF UnmakingGoesOn
  <2>3. CASE t = <<"drop user">> /\ S = {"user"}
    <3>1. t[1] = "drop user" /\ Tail(t) = <<>>
      BY <2>3, Tail1
    <3>2. Accepts(e, S, "drop user") /\ Result(e, S, "drop user") = {}
      BY <1>2, <2>3 DEF Accepts, Result
    <3>3. QED
      BY <3>1, <3>2, Zenon DEF UnmakingGoesOn
  <2>4. e # "mysql"
    BY <1>2
  <2>5. QED
    BY <2>1, <2>2, <2>3, <2>4, Zenon DEF Unmaking
<1>3. QED
  BY <1>1, <1>2 DEF Engines

LEMMA NothingToDrop ==
  ASSUME NEW e \in Engines, NEW S, NEW t, Unmaking(e, S, t), Accepts(e, S, t[1]), Tail(t) # <<>>
  PROVE  S # {}
<1>1. SUFFICES ASSUME S = {}
               PROVE  FALSE
  OBVIOUS
<1>2. \/ t = <<"revoke", "drop user", "drop database", "flush">>
      \/ t = <<"revoke", "drop database", "drop user">>
      \/ t = <<"flush">>
  <2>1. {"database", "user"} # {} /\ {"database"} # {} /\ {"user"} # {}
        /\ {"database", "user", "owner"} # {}
    OBVIOUS
  <2>2. QED
    BY <1>1, <2>1, Zenon DEF Unmaking
<1>3. t[1] = "revoke"
  <2>1. CASE t = <<"flush">>
    BY <2>1, Tail1
  <2>2. CASE t = <<"revoke", "drop user", "drop database", "flush">>
    BY <2>2
  <2>3. CASE t = <<"revoke", "drop database", "drop user">>
    BY <2>3
  <2>4. QED
    BY <1>2, <2>1, <2>2, <2>3
<1>4. QED
  BY <1>1, <1>3 DEF Accepts, Engines

LEMMA ScriptsBegin ==
  ASSUME NEW e \in Engines, NEW S, S \in {{}, Full(e)}
  PROVE  /\ Unmaking(e, S, Recycling(e))
         /\ ~Usable(e, S) => S = {} /\ Making(e, S, Creating(e))
<1>1. Unmaking(e, S, Recycling(e))
  BY DEF Unmaking, Recycling
<1>2. Usable(e, Full(e))
  BY DEF Usable, Full, Parts
<1>3. Making(e, {}, Creating(e))
  BY DEF Making, Creating
<1>4. S = {} \/ S = Full(e)
  OBVIOUS
<1>5. QED
  BY <1>1, <1>2, <1>3, <1>4, Zenon

-----------------------------------------------------------------------------
(* The events of a Db when one is added or read.                           *)
LEMMA EventsAppend ==
  ASSUME TypeOK, NEW d \in Dbs, NEW n \in NoteRec, notes' = Append(notes, n), Events(d),
         object'[d].retain = object[d].retain,
         n.db = d => n.retain = object[d].retain,
         n.db = d /\ n.gone => ~GoneNote(d)
  PROVE  Events(d)' /\ (GoneNote(d)' <=> GoneNote(d) \/ (n.db = d /\ n.gone))
<1>1. /\ notes \in Seq(NoteRec) /\ Len(notes) \in Nat
      /\ Len(notes) + 1 \in 1 .. Len(notes') /\ notes'[Len(notes) + 1] = n
      /\ \A i \in 1 .. Len(notes) : i \in 1 .. Len(notes') /\ notes'[i] = notes[i]
      /\ \A i \in 1 .. Len(notes') : i \in 1 .. Len(notes) \/ i = Len(notes) + 1
  <2>1. notes \in Seq(NoteRec)
    BY DEF TypeOK
  <2>2. QED
    BY <2>1, AppendType
<1>2. GoneNote(d)' <=> GoneNote(d) \/ (n.db = d /\ n.gone)
  BY <1>1 DEF GoneNote, Gone
<1>3. ASSUME NEW i \in 1 .. Len(notes'), NEW j \in 1 .. Len(notes'), Gone(i, d)', Gone(j, d)'
      PROVE  i = j
  <2>1. i \in 1 .. Len(notes) => Gone(i, d) /\ GoneNote(d)
    BY <1>1, <1>3 DEF Gone, GoneNote
  <2>2. j \in 1 .. Len(notes) => Gone(j, d) /\ GoneNote(d)
    BY <1>1, <1>3 DEF Gone, GoneNote
  <2>3. i \notin 1 .. Len(notes) => i = Len(notes) + 1 /\ n.db = d /\ n.gone
    BY <1>1, <1>3 DEF Gone
  <2>4. j \notin 1 .. Len(notes) => j = Len(notes) + 1 /\ n.db = d /\ n.gone
    BY <1>1, <1>3 DEF Gone
  <2>5. QED
    BY <2>1, <2>2, <2>3, <2>4 DEF Events
<1>4. ASSUME NEW i \in 1 .. Len(notes'), notes'[i].db = d
      PROVE  notes'[i].retain = object'[d].retain
  BY <1>1, <1>4 DEF Events
<1>5. QED
  BY <1>2, <1>3, <1>4 DEF Events

LEMMA EventsTail ==
  ASSUME TypeOK, NEW d \in Dbs, notes # <<>>, notes' = Tail(notes), Events(d),
         object'[d].retain = object[d].retain
  PROVE  /\ Events(d)' /\ (notes[1].db = d => notes[1].retain = object[d].retain)
         /\ Gone(1, d) => GoneNote(d) /\ ~GoneNote(d)'
         /\ ~Gone(1, d) => (GoneNote(d)' <=> GoneNote(d))
<1>1. /\ 1 \in 1 .. Len(notes)
      /\ \A i \in 1 .. Len(notes') : i + 1 \in 1 .. Len(notes) /\ notes'[i] = notes[i + 1]
      /\ \A i \in 1 .. Len(notes) : i # 1 => i - 1 \in 1 .. Len(notes') /\ notes'[i - 1] = notes[i]
  <2>1. notes \in Seq(NoteRec)
    BY DEF TypeOK
  <2>2. QED
    BY <2>1, TailType
<1>2. \A i \in 1 .. Len(notes') : Gone(i, d)' => Gone(i + 1, d) /\ i + 1 # 1
  BY <1>1 DEF Gone
<1>3. \A i \in 1 .. Len(notes) : Gone(i, d) /\ i # 1 => Gone(i - 1, d)'
  BY <1>1 DEF Gone
<1>4. Gone(1, d) => GoneNote(d) /\ ~GoneNote(d)'
  BY <1>1, <1>2 DEF GoneNote, Events
<1>5. ~Gone(1, d) => (GoneNote(d)' <=> GoneNote(d))
  BY <1>1, <1>2, <1>3 DEF GoneNote
<1>6. ASSUME NEW i \in 1 .. Len(notes'), NEW j \in 1 .. Len(notes'), Gone(i, d)', Gone(j, d)'
      PROVE  i = j
  <2>1. i + 1 = j + 1
    BY <1>1, <1>2, <1>6 DEF Events
  <2>2. QED
    BY <2>1
<1>7. ASSUME NEW i \in 1 .. Len(notes'), notes'[i].db = d
      PROVE  notes'[i].retain = object'[d].retain
  BY <1>1, <1>7 DEF Events
<1>8. QED
  BY <1>1, <1>4, <1>5, <1>6, <1>7 DEF Events

-----------------------------------------------------------------------------
(* A step that does not touch the Db, its jobs or its events.              *)
SameJobs(d) == \A w \in Workers : (On(w, d)' <=> On(w, d)) /\ (On(w, d) => job'[w] = job[w])

LEMMA CalmSame ==
  ASSUME TypeOK, NEW d \in Dbs, Lives(d), Calm(d), Same(d), object'[d].alive => object[d].alive,
         server'[d] = server[d], d \in pool => d \in pool', cache'[d] = cache[d],
         SameJobs(d), UNCHANGED notes
  PROVE  Calm(d)'
<1>1. GoneNote(d)' <=> GoneNote(d)
  BY DEF GoneNote, Gone
<1>2. Events(d) => Events(d)'
  BY DEF Events, Gone, Same
<1>3. /\ (On("worker", d)' <=> On("worker", d)) /\ (On("handler", d)' <=> On("handler", d))
      /\ On("worker", d) => job'["worker"] = job["worker"]
      /\ On("handler", d) => job'["handler"] = job["handler"]
  BY DEF SameJobs, Workers
<1>4. OnServer(d) => OnServer(d)'
  BY <1>3 DEF OnServer, Whole, Same
<1>5. Ending(d) => Ending(d)'
  BY <1>1, <1>2, <1>3 DEF Ending
<1>6. QED
  BY <1>4, <1>5 DEF Calm, Same

(* The worker's steps on a Db in its first life.                           *)
LEMMA WorkerCalm ==
  ASSUME TypeOK, Control, Dbs # {}, NEW d \in Dbs, OnServer(d), Ending(d),
         JobStep("worker"), job["worker"].db = d, faults = 0, faults' = 0, Same(d)
  PROVE  OnServer(d)' /\ (server'[d] # {} \/ (On("worker", d)' /\ job'["worker"].pc \in {"check", "sql"})
                            => d \in pool')
<1> DEFINE e == object[d].engine
           S == server[d]
           t == job["worker"].todo
           pc == job'["worker"].pc
           Goal == OnServer(d)' /\ (server'[d] # {} \/ (On("worker", d)' /\ pc \in {"check", "sql"})
                                      => d \in pool')
<1>1. /\ e \in Engines /\ S \in SUBSET Parts /\ t \in Seq(Stmts)
      /\ "worker" \in Workers /\ "handler" \in Workers /\ "worker" # "handler"
  BY JobType DEF TypeOK, ObjectRec, Workers
<1>2. On("worker", d) /\ job'["handler"] = job["handler"]
  BY <1>1, JobStepEffect DEF On
<1>3. ~On("handler", d)
  BY <1>2 DEF OnServer
<1>4. ~On("handler", d)'
  BY <1>2, <1>3 DEF On
<1>5. /\ job["worker"].pc # "sql" => S \in {{}, Full(e)}
      /\ job["worker"].pc = "sql" => Making(e, S, t)
      /\ S # {} => d \in pool
      /\ job["worker"].pc \in {"check", "sql"} => d \in pool
  BY <1>2, <1>3 DEF OnServer, Ending, Whole
<1>6. object'[d].engine = e /\ pool \subseteq pool'
  BY <1>1, JobFrame DEF Same
<1>7. ASSUME pc # "sql", server'[d] \in {{}, Full(e)}, server'[d] # {} => d \in pool',
             pc = "check" => d \in pool'
      PROVE  Goal
  BY <1>4, <1>6, <1>7 DEF OnServer, Whole
<1>8. ASSUME On("worker", d)', pc = "sql", Making(e, server'[d], job'["worker"].todo), d \in pool'
      PROVE  Goal
  BY <1>4, <1>6, <1>8 DEF OnServer
<1>9. CASE Parse("worker")
  <2>1. /\ Goto("worker", "check") /\ server' = server /\ d \in pool' /\ job["worker"].pc = "parse"
    BY <1>9 DEF Parse, HasAccount
  <2>2. pc = "check"
    BY <1>1, <2>1, GotoEffect DEF Pcs
  <2>3. QED
    BY <1>5, <1>7, <2>1, <2>2
<1>10. ASSUME Goto("worker", "not ready"), server' = server, pool' = pool, job["worker"].pc # "sql"
       PROVE  Goal
  <2>1. pc = "not ready"
    BY <1>1, <1>10, GotoEffect DEF Pcs
  <2>2. QED
    BY <1>5, <1>7, <1>10, <2>1
<1>11. CASE ParseFails("worker")
  BY <1>10, <1>11 DEF ParseFails, Stop
<1>12. CASE Execute("worker")
  <2>1. /\ job["worker"].pc = "sql" /\ t # <<>> /\ Advance("worker")
        /\ server'[d] = Result(e, S, t[1])
    BY <1>1, <1>12, ExecuteEffect DEF Executes, Control
  <2>2. MakingGoesOn(e, S, t)
    BY <1>1, <1>5, <2>1, MakingStep
  <2>3. /\ job'["worker"].todo = Tail(t) /\ job'["worker"].db = d
        /\ pc = IF Tail(t) # <<>> THEN "sql" ELSE "ready"
    BY <1>1, <2>1, AdvanceEffect
  <2>4. d \in pool'
    BY <1>5, <1>6, <2>1
  <2>5. CASE Tail(t) # <<>>
    <3>1. Making(e, server'[d], job'["worker"].todo)
      BY <2>1, <2>2, <2>3, <2>5, Zenon DEF MakingGoesOn
    <3>2. On("worker", d)' /\ pc = "sql"
      BY <2>3, <2>5 DEF On
    <3>3. QED
      BY <1>8, <2>4, <3>1, <3>2
  <2>6. CASE Tail(t) = <<>>
    <3>1. server'[d] = Full(e) /\ pc = "ready"
      BY <2>1, <2>2, <2>3, <2>6, Zenon DEF MakingGoesOn
    <3>2. QED
      BY <1>7, <2>4, <3>1
  <2>7. QED
    BY <2>5, <2>6
<1>13. CASE ExecuteFails("worker")
  <2>1. job["worker"].pc = "sql" /\ t # <<>>
    BY <1>1, <1>13 DEF ExecuteFails, Control
  <2>2. Accepts(e, S, t[1]) /\ Head(t) = t[1]
    BY <1>1, <1>5, <2>1, MakingStep, TailType DEF MakingGoesOn
  <2>3. Spend
    BY <1>13, <2>2, Zenon DEF ExecuteFails
  <2>4. QED
    BY <2>3 DEF Spend
<1>14. CASE Check
  <2>1. /\ job["worker"].pc = "check" /\ server' = server
        /\ IF Usable(e, S) THEN Goto("worker", "ready") ELSE Begin("worker", Creating(e))
    BY <1>14 DEF Check
  <2>2. S \in {{}, Full(e)} /\ d \in pool'
    BY <1>5, <1>6, <2>1
  <2>3. CASE Usable(e, S)
    <3>1. pc = "ready"
      BY <1>1, <2>1, <2>3, GotoEffect DEF Pcs
    <3>2. QED
      BY <1>7, <2>1, <2>2, <3>1
  <2>4. CASE ~Usable(e, S)
    <3>1. Creating(e) \in Seq(Stmts) /\ Making(e, S, Creating(e))
      BY <1>1, <2>2, <2>4, ScriptType, ScriptsBegin
    <3>2. pc = "sql" /\ job'["worker"].db = d /\ job'["worker"].todo = Creating(e)
      BY <1>1, <2>1, <2>4, <3>1, BeginEffect
    <3>3. On("worker", d)'
      BY <3>2 DEF On
    <3>4. QED
      BY <1>8, <2>1, <2>2, <3>1, <3>2, <3>3
  <2>5. QED
    BY <2>3, <2>4
<1>15. CASE CheckFails
  BY <1>15 DEF CheckFails, Spend
<1>16. CASE Ready \/ NotReady
  <2>1. job' = [job EXCEPT !["worker"] = Idle] /\ server' = server /\ pool' = pool
    BY <1>16 DEF Ready, NotReady, Report
  <2>2. pc = "idle"
    BY <1>1, <2>1, IdleType DEF TypeOK
  <2>3. job["worker"].pc # "sql"
    BY <1>16 DEF Ready, NotReady
  <2>4. QED
    BY <1>5, <1>7, <2>1, <2>2, <2>3
<1>17. QED
  BY <1>1, <1>9, <1>11, <1>12, <1>13, <1>14, <1>15, <1>16 DEF JobStep

(* The steps of its recycling.                                             *)
LEMMA HandlerCalm ==
  ASSUME TypeOK, Control, Dbs # {}, NEW d \in Dbs, OnServer(d), Ending(d),
         JobStep("handler"), job["handler"].db = d, faults = 0, faults' = 0, Same(d)
  PROVE  /\ OnServer(d)' /\ (server'[d] # {} => d \in pool')
         /\ ~On("worker", d)' /\ (~On("handler", d)' => server'[d] = {})
<1> DEFINE e == object[d].engine
           S == server[d]
           t == job["handler"].todo
           pc == job'["handler"].pc
           Goal == /\ OnServer(d)' /\ (server'[d] # {} => d \in pool')
                   /\ ~On("worker", d)' /\ (~On("handler", d)' => server'[d] = {})
<1>1. /\ e \in Engines /\ S \in SUBSET Parts /\ t \in Seq(Stmts)
      /\ "worker" \in Workers /\ "handler" \in Workers /\ "worker" # "handler"
  BY JobType DEF TypeOK, ObjectRec, Workers
<1>2. On("handler", d) /\ job'["worker"] = job["worker"]
  BY <1>1, JobStepEffect DEF On
<1>3. ~On("worker", d)
  BY <1>2 DEF OnServer
<1>4. ~On("worker", d)'
  BY <1>2, <1>3 DEF On
<1>5. /\ job["handler"].pc = "parse" => S \in {{}, Full(e)}
      /\ job["handler"].pc = "sql" => Unmaking(e, S, t)
      /\ job["handler"].pc \in {"done", "failed"} => S = {}
      /\ S # {} => d \in pool
  BY <1>2 DEF OnServer, Ending, Whole
<1>6. object'[d].engine = e /\ pool \subseteq pool'
  BY <1>1, JobFrame DEF Same
<1>7. ASSUME pc \in {"idle", "done", "failed"}, server'[d] = {}
      PROVE  Goal
  BY <1>4, <1>6, <1>7 DEF OnServer, Whole
<1>8. ASSUME On("handler", d)', pc = "sql", Unmaking(e, server'[d], job'["handler"].todo),
             server'[d] # {} => d \in pool'
      PROVE  Goal
  BY <1>4, <1>6, <1>8 DEF OnServer
<1>9. CASE Parse("handler")
  <2>1. /\ Begin("handler", Recycling(e)) /\ server' = server /\ job["handler"].pc = "parse"
    BY <1>1, <1>9 DEF Parse
  <2>2. Recycling(e) \in Seq(Stmts) /\ Unmaking(e, S, Recycling(e))
    BY <1>1, <1>5, <2>1, ScriptType, ScriptsBegin
  <2>3. pc = "sql" /\ job'["handler"].db = d /\ job'["handler"].todo = Recycling(e)
    BY <1>1, <2>1, <2>2, BeginEffect
  <2>4. On("handler", d)'
    BY <2>3 DEF On
  <2>5. QED
    BY <1>5, <1>6, <1>8, <2>1, <2>2, <2>3, <2>4
<1>10. ASSUME Goto("handler", "failed"), server' = server, S = {}
       PROVE  Goal
  <2>1. pc = "failed"
    BY <1>1, <1>10, GotoEffect DEF Pcs
  <2>2. QED
    BY <1>7, <1>10, <2>1
<1>11. CASE ParseFails("handler")
  <2>1. /\ Goto("handler", "failed") /\ server' = server
        /\ IF HasAccount(d) THEN Spend ELSE UNCHANGED faults
    BY <1>1, <1>11 DEF ParseFails, Stop
  <2>2. ~HasAccount(d)
    BY <2>1 DEF Spend
  <2>3. S = {}
    BY <1>5, <2>2 DEF HasAccount
  <2>4. QED
    BY <1>10, <2>1, <2>3
<1>12. CASE Execute("handler")
  <2>1. /\ job["handler"].pc = "sql" /\ t # <<>> /\ Advance("handler") /\ Accepts(e, S, t[1])
        /\ server'[d] = Result(e, S, t[1])
    BY <1>1, <1>12, ExecuteEffect DEF Executes, Control
  <2>2. UnmakingGoesOn(e, S, t)
    BY <1>1, <1>5, <2>1, UnmakingStep
  <2>3. /\ job'["handler"].todo = Tail(t) /\ job'["handler"].db = d
        /\ pc = IF Tail(t) # <<>> THEN "sql" ELSE "done"
    BY <1>1, <2>1, AdvanceEffect
  <2>4. CASE Tail(t) # <<>>
    <3>1. Unmaking(e, server'[d], job'["handler"].todo)
      BY <2>1, <2>2, <2>3, <2>4, Zenon DEF UnmakingGoesOn
    <3>2. On("handler", d)' /\ pc = "sql"
      BY <2>3, <2>4 DEF On
    <3>3. S # {}
      BY <1>1, <1>5, <2>1, <2>4, NothingToDrop
    <3>4. d \in pool'
      BY <1>5, <1>6, <3>3
    <3>5. QED
      BY <1>8, <3>1, <3>2, <3>4
  <2>5. CASE Tail(t) = <<>>
    <3>1. server'[d] = {} /\ pc = "done"
      BY <2>1, <2>2, <2>3, <2>5, Zenon DEF UnmakingGoesOn
    <3>2. QED
      BY <1>7, <3>1
  <2>6. QED
    BY <2>4, <2>5
<1>13. CASE ExecuteFails("handler")
  <2>1. /\ job["handler"].pc = "sql" /\ t # <<>> /\ Goto("handler", "failed") /\ server' = server
    BY <1>1, <1>13 DEF ExecuteFails, Control, GiveUp, Stop
  <2>2. UnmakingGoesOn(e, S, t) /\ Head(t) = t[1]
    BY <1>1, <1>5, <2>1, UnmakingStep, TailType
  <2>3. ~Spend
    BY DEF Spend
  <2>4. ~Accepts(e, S, t[1])
    BY <1>13, <2>2, <2>3, Zenon DEF ExecuteFails
  <2>5. S = {}
    BY <2>2, <2>4, Zenon DEF UnmakingGoesOn
  <2>6. QED
    BY <1>10, <2>1, <2>5
<1>14. CASE Return
  <2>1. job' = [job EXCEPT !["handler"] = Idle] /\ server' = server
        /\ job["handler"].pc \in {"done", "failed"}
    BY <1>14 DEF Return
  <2>2. pc = "idle"
    BY <1>1, <2>1, IdleType DEF TypeOK
  <2>3. QED
    BY <1>5, <1>7, <2>1, <2>2
<1>15. QED
  BY <1>1, <1>9, <1>11, <1>12, <1>13, <1>14 DEF JobStep

-----------------------------------------------------------------------------
(* A Db whose first life begins: nothing is on the server, nobody knows it.*)
LEMMA CalmBegins ==
  ASSUME TypeOK, NEW d \in Dbs, Lives(d), Calm(d), CreateDb(d)
  PROVE  Calm(d)'
<1>1. /\ UNCHANGED <<pool, server, cache, notes, job>> /\ Made(d)
      /\ object[d].life \in Nat /\ cache[d] \in Nat
  BY MadeEffect DEF CreateDb, TypeOK, ObjectRec
<1>2. SUFFICES ASSUME object'[d].life = 1
               PROVE  OnServer(d)' /\ Ending(d)'
  BY <1>1 DEF Calm, Made
<1>3. object[d].life = 0
  BY <1>1, <1>2 DEF Made
<1>4. /\ server[d] = {} /\ ~On("worker", d) /\ ~On("handler", d) /\ ~GoneNote(d)
      /\ \A i \in 1 .. Len(notes) : notes[i].db # d
  BY <1>3 DEF Calm, Lives
<1>5. server'[d] = {} /\ ~On("worker", d)' /\ ~On("handler", d)' /\ ~GoneNote(d)'
  BY <1>1, <1>4 DEF On, GoneNote, Gone
<1>6. \A i \in 1 .. Len(notes') : notes'[i].db # d
  BY <1>1, <1>4
<1>7. Events(d)'
  BY <1>6 DEF Events, Gone
<1>8. OnServer(d)'
  BY <1>5 DEF OnServer, Whole
<1>9. Ending(d)'
  BY <1>5, <1>7 DEF Ending
<1>10. QED
  BY <1>8, <1>9

LEMMA CalmStep ==
  ASSUME TypeOK, Control, Dbs # {}, [Next]_vars, NEW d \in Dbs, Lives(d), Calm(d),
         faults = 0, faults' = 0, ~overlap'
  PROVE  Calm(d)'
<1> DEFINE First == object[d].life = 1 /\ ~object[d].retain
           Goal == Calm(d)'
<1>1. /\ object[d].life \in Nat /\ cache[d] \in Nat /\ object[d].alive \in BOOLEAN
      /\ "worker" \in Workers /\ "handler" \in Workers /\ "worker" # "handler"
  BY DEF TypeOK, ObjectRec, Workers
<1>2. /\ object[d].life = 0 => server[d] = {} /\ ~On("worker", d) /\ ~On("handler", d)
      /\ First => OnServer(d) /\ Ending(d)
  BY DEF Calm, Lives
<1>3. ASSUME Same(d), object[d].life = 0 => server'[d] = {}, First => OnServer(d)' /\ Ending(d)'
      PROVE  Goal
  BY <1>3 DEF Calm, Same
<1>4. ASSUME NEW c \in Dbs, CreateDb(c)
      PROVE  Goal
  <2>1. UNCHANGED <<pool, server, cache, notes, job>>
    BY <1>4 DEF CreateDb
  <2>2. SameJobs(d)
    BY <2>1 DEF SameJobs, On
  <2>3. CASE c = d
    BY <1>4, <2>3, CalmBegins
  <2>4. CASE c # d
    <3>1. object'[d] = object[d]
      BY <1>4, <2>4, MadeEffect
    <3>2. QED
      BY <2>1, <2>2, <3>1, CalmSame DEF Same
  <2>5. QED
    BY <2>3, <2>4
<1>5. ASSUME UNCHANGED <<pool, server, cache, notes, job>>, object'[d] = object[d] \/ Went(d)
      PROVE  Goal
  <2>1. SameJobs(d)
    BY <1>5 DEF SameJobs, On
  <2>2. Same(d) /\ (object'[d].alive => object[d].alive)
    BY <1>5 DEF Same, Went
  <2>3. QED
    BY <1>5, <2>1, <2>2, CalmSame
<1>6. ASSUME NEW c \in Dbs, DeleteDb(c)
      PROVE  Goal
  BY <1>5, <1>6, WentEffect DEF DeleteDb
<1>7. ASSUME NEW c \in Dbs, DeleteSecret(c)
      PROVE  Goal
  BY <1>5, <1>7, RestEffect
<1>8. ASSUME Resync \/ UNCHANGED vars
      PROVE  Goal
  BY <1>5, <1>8 DEF Resync, vars, objectVars
<1>9. ASSUME Restart
      PROVE  Goal
  BY <1>9 DEF Restart, Spend
<1>10. ASSUME NEW c \in Dbs, Observe(c)
       PROVE  Goal
  <2>1. PICK n \in NoteRec : Observed(c, n)
    BY <1>10, ObserveEffect
  <2>2. UNCHANGED <<object, pool, server, job>> /\ (c = d \/ cache'[d] = cache[d])
    BY <1>10, ObserveEffect DEF objectVars
  <2>3. Same(d)
    BY <2>2 DEF Same
  <2>4. On("worker", d)' = On("worker", d) /\ On("handler", d)' = On("handler", d)
    BY <2>2 DEF On
  <2>5. SUFFICES ASSUME First
                 PROVE  OnServer(d)' /\ Ending(d)'
    BY <1>2, <1>3, <2>2, <2>3
  <2>6. OnServer(d) /\ Ending(d) /\ cache[d] <= 1
    BY <1>2, <2>5 DEF Lives
  <2>7. OnServer(d)'
    BY <2>2, <2>4, <2>6 DEF OnServer, Whole
  <2>8. /\ notes' = Append(notes, n) /\ n.db = c /\ n.retain = object[c].retain
        /\ n.gone \in BOOLEAN
    BY <2>1 DEF Observed, NoteRec
  <2>9. c = d /\ n.gone => ~object[d].alive /\ cache[d] # 0 /\ cache'[d] = 0
    BY <1>1, <2>1, <2>5, <2>6 DEF Observed
  <2>10. c = d /\ n.gone => ~GoneNote(d) /\ ~On("handler", d)
    BY <2>6, <2>9 DEF Ending
  <2>11. Events(d)' /\ (GoneNote(d)' <=> GoneNote(d) \/ (n.db = d /\ n.gone))
    <3>1. Events(d) /\ (n.db = d => n.retain = object[d].retain) /\ (n.db = d /\ n.gone => ~GoneNote(d))
      BY <2>6, <2>8, <2>10 DEF Ending
    <3>2. object'[d].retain = object[d].retain
      BY <2>2
    <3>3. QED
      BY <2>8, <3>1, <3>2, EventsAppend
  <2>12. CASE c = d /\ n.gone
    BY <2>2, <2>4, <2>6, <2>7, <2>8, <2>9, <2>10, <2>11, <2>12 DEF Ending
  <2>13. CASE c = d /\ ~n.gone
    <3>1. object[d].alive /\ cache'[d] = 1
      BY <2>1, <2>5, <2>13 DEF Observed
    <3>2. ~GoneNote(d) /\ ~On("handler", d)
      BY <2>6, <3>1 DEF Ending
    <3>3. QED
      BY <2>2, <2>4, <2>6, <2>7, <2>8, <2>11, <2>13, <3>1, <3>2 DEF Ending
  <2>14. CASE c # d
    BY <2>2, <2>4, <2>6, <2>7, <2>8, <2>11, <2>14 DEF Ending
  <2>15. QED
    BY <2>7, <2>12, <2>13, <2>14
<1>11. ASSUME Notify
       PROVE  Goal
  <2>1. /\ UNCHANGED <<object, pool, server, cache>> /\ job'["worker"] = job["worker"]
        /\ notes # <<>> /\ notes' = Tail(notes)
    BY <1>11, NotifyEffect DEF objectVars
  <2>2. Same(d) /\ object'[d].retain = object[d].retain
    BY <2>1 DEF Same
  <2>3. (On("worker", d)' <=> On("worker", d)) /\ ~On("handler", d)
    BY <1>11, <2>1, NotifyEffect DEF On
  <2>4. SUFFICES ASSUME First
                 PROVE  OnServer(d)' /\ Ending(d)'
    BY <1>2, <1>3, <2>1, <2>2
  <2>5. OnServer(d) /\ Ending(d) /\ Events(d)
    BY <1>2, <2>4 DEF Ending
  <2>6. /\ Events(d)' /\ (notes[1].db = d => notes[1].retain = object[d].retain)
        /\ Gone(1, d) => GoneNote(d) /\ ~GoneNote(d)'
        /\ ~Gone(1, d) => (GoneNote(d)' <=> GoneNote(d))
    BY <2>1, <2>2, <2>5, EventsTail
  <2>7. CASE Gone(1, d)
    <3>1. notes[1].gone /\ notes[1].db = d /\ ~notes[1].retain
      BY <2>4, <2>6, <2>7 DEF Gone
    <3>2. /\ job'["handler"].pc = "parse" /\ job'["handler"].db = d
          /\ overlap' = (overlap \/ On("worker", d))
      BY <1>11, <3>1, NotifyEffect
    <3>3. ~On("worker", d) /\ On("handler", d)'
      BY <3>2 DEF On
    <3>4. /\ cache[d] = 0 /\ ~object[d].alive /\ ~GoneNote(d)' /\ Whole(d)
          /\ server[d] # {} => d \in pool
      BY <2>3, <2>5, <2>6, <2>7, <3>3 DEF Ending, OnServer
    <3>5. OnServer(d)'
      BY <2>1, <2>3, <3>2, <3>3, <3>4 DEF OnServer, Whole
    <3>6. Ending(d)'
      BY <2>1, <2>3, <2>6, <3>3, <3>4 DEF Ending
    <3>7. QED
      BY <3>5, <3>6
  <2>8. CASE ~Gone(1, d)
    <3>1. ~On("handler", d)'
      BY <1>11, <2>3, <2>8, NotifyEffect DEF On, Gone
    <3>2. OnServer(d)'
      BY <2>1, <2>3, <2>5, <3>1 DEF OnServer, Whole
    <3>3. Ending(d)'
      BY <2>1, <2>3, <2>5, <2>6, <2>8, <3>1 DEF Ending
    <3>4. QED
      BY <3>2, <3>3
  <2>9. QED
    BY <2>7, <2>8
<1>12. ASSUME NEW c \in Dbs, Take(c)
       PROVE  Goal
  <2>1. UNCHANGED <<object, pool, server, cache, notes>>
    BY <1>12 DEF Take, objectVars
  <2>2. /\ job["worker"].pc = "idle" /\ job'["handler"] = job["handler"]
        /\ \/ job' = job
           \/ cache[c] # 0 /\ job'["worker"].pc = "parse" /\ job'["worker"].db = c
    BY <1>12, TakeEffect
  <2>3. Same(d)
    BY <2>1 DEF Same
  <2>4. CASE On("worker", d)'
    <3>1. ~On("worker", d) /\ job'["worker"].pc = "parse" /\ cache[d] # 0
      BY <2>2, <2>4 DEF On
    <3>2. SUFFICES ASSUME First
                   PROVE  OnServer(d)' /\ Ending(d)'
      BY <1>2, <1>3, <2>1, <2>3
    <3>3. OnServer(d) /\ Ending(d) /\ ~GoneNote(d) /\ ~On("handler", d)
      BY <1>2, <3>1, <3>2 DEF Ending
    <3>4. ~GoneNote(d)' /\ ~On("handler", d)' /\ Events(d)'
      BY <2>1, <2>2, <3>3 DEF GoneNote, Gone, On, Ending, Events
    <3>5. OnServer(d)'
      BY <2>1, <3>1, <3>3, <3>4 DEF OnServer, Whole
    <3>6. Ending(d)'
      BY <2>1, <3>1, <3>3, <3>4 DEF Ending
    <3>7. QED
      BY <3>5, <3>6
  <2>5. CASE ~On("worker", d)'
    <3>1. SameJobs(d)
      BY <2>2, <2>5 DEF SameJobs, On, Workers
    <3>2. QED
      BY <2>1, <2>3, <3>1, CalmSame
  <2>6. QED
    BY <2>4, <2>5
<1>13. ASSUME NEW w \in Workers, JobStep(w)
       PROVE  Goal
  <2>1. /\ UNCHANGED <<cache, notes>> /\ pool \subseteq pool'
        /\ d = job[w].db \/ server'[d] = server[d]
        /\ object'[d] = object[d] \/ Reported(d)
    BY <1>13, JobFrame
  <2>2. Same(d) /\ (object'[d].alive => object[d].alive)
    BY <2>1 DEF Same, Reported
  <2>3. /\ job[w].pc # "idle" /\ (job'[w].pc # "idle" => job'[w].db = job[w].db)
        /\ \A v \in Workers \ {w} : job'[v] = job[v]
    BY <1>13, JobStepEffect
  <2>4. CASE job[w].db # d
    <3>1. SameJobs(d)
      BY <2>3, <2>4 DEF SameJobs, On
    <3>2. QED
      BY <2>1, <2>2, <2>4, <3>1, CalmSame
  <2>5. ASSUME job[w].db = d
        PROVE  Goal
    <3>1. On(w, d) /\ object[d].life # 0
      BY <1>2, <2>3, <2>5 DEF On, Workers
    <3>2. SUFFICES ASSUME First
                   PROVE  OnServer(d)' /\ Ending(d)'
      BY <1>3, <2>2, <3>1
    <3>3. OnServer(d) /\ Ending(d)
      BY <1>2, <3>2
    <3>4. (GoneNote(d)' <=> GoneNote(d)) /\ Events(d)'
      BY <2>1, <2>2, <3>3 DEF GoneNote, Gone, Events, Ending, Same
    <3>5. CASE w = "worker"
      <4>1. OnServer(d)' /\ (server'[d] # {} \/ (On("worker", d)' /\ job'["worker"].pc \in {"check", "sql"})
                               => d \in pool')
        BY <1>13, <2>2, <2>5, <3>3, <3>5, WorkerCalm
      <4>2. ~On("handler", d) /\ job'["handler"] = job["handler"]
        BY <1>1, <2>3, <3>1, <3>3, <3>5 DEF OnServer
      <4>3. ~On("handler", d)' /\ (cache[d] # 0 \/ GoneNote(d))
        BY <3>1, <3>3, <3>5, <4>2 DEF On, Ending
      <4>4. GoneNote(d) => cache'[d] = 0 /\ ~object'[d].alive
        BY <2>1, <2>2, <3>3 DEF Ending
      <4>5. QED
        BY <2>1, <3>4, <4>1, <4>3, <4>4 DEF Ending
    <3>6. CASE w = "handler"
      <4>1. /\ OnServer(d)' /\ (server'[d] # {} => d \in pool')
            /\ ~On("worker", d)' /\ (~On("handler", d)' => server'[d] = {})
        BY <1>13, <2>2, <2>5, <3>3, <3>6, HandlerCalm
      <4>2. cache'[d] = 0 /\ ~object'[d].alive /\ ~GoneNote(d)'
        BY <2>1, <2>2, <3>1, <3>3, <3>4, <3>6 DEF Ending
      <4>3. QED
        BY <3>4, <4>1, <4>2 DEF Ending
    <3>7. QED
      BY <3>5, <3>6 DEF Workers
  <2>6. QED
    BY <2>4, <2>5
<1>14. QED
  BY <1>4, <1>6, <1>7, <1>8, <1>9, <1>10, <1>11, <1>12, <1>13, NextSteps DEF OutsideStep

(* Disturbances and overlaps are remembered.                               *)
LEMMA Remembered ==
  ASSUME TypeOK, Control, [Next]_vars
  PROVE  (faults' = 0 => faults = 0) /\ (overlap => overlap')
<1>1. ASSUME NEW w \in Workers, JobStep(w)
      PROVE  (faults' = faults \/ faults' = faults + 1) /\ overlap' = overlap
  <2>1. overlap' = overlap
    BY <1>1, JobFrame
  <2>2. faults' = faults \/ Spend
    <3>1. CASE ExecuteFails(w)
      BY <3>1, Zenon DEF ExecuteFails
    <3>2. CASE ~ExecuteFails(w)
      BY <1>1, <3>2 DEF JobStep, Parse, ParseFails, Execute, Check, CheckFails, Ready, NotReady,
             Report, Return
    <3>3. QED
      BY <3>1, <3>2
  <2>3. QED
    BY <2>1, <2>2 DEF Spend
<1>2. ASSUME OutsideStep \/ Resync \/ UNCHANGED vars
      PROVE  faults' = faults /\ overlap' = overlap
  BY <1>2, OutsideJob
<1>3. ASSUME Restart
      PROVE  faults' = faults + 1 /\ overlap' = overlap
  BY <1>3 DEF Restart, Spend
<1>4. ASSUME Notify
      PROVE  faults' = faults /\ (overlap => overlap')
  BY <1>4 DEF Notify
<1>5. ASSUME NEW d \in Dbs, Take(d)
      PROVE  faults' = faults /\ overlap' = overlap
  BY <1>5 DEF Take
<1>6. faults \in Nat
  BY DEF TypeOK
<1>7. (faults' = faults \/ faults' = faults + 1) /\ (overlap => overlap')
  BY <1>1, <1>2, <1>3, <1>4, <1>5, NextSteps
<1>8. QED
  BY <1>6, <1>7

(* When a Db has gone and its events are handled, nothing of it is left on *)
(* the server, also when its Secret went first: with no statement failed,  *)
(* no restart, and no recycling beside a pass of the worker.               *)
THEOREM RecycledAtTheEnd ==
  ASSUME Dbs # {}
  PROVE  Spec => []Recycled
<1>1. Init => RecycleInv
  <2>1. SUFFICES ASSUME Init
                 PROVE  RecycleInv
    OBVIOUS
  <2>2. TypeOK /\ Control /\ \A d \in Dbs : Lives(d)
    BY <2>1, UsableStart DEF UsableInv
  <2>3. Unborn.life = 0
    BY DEF Unborn
  <2>4. \A d \in Dbs : server[d] = {} /\ object[d].life = 0
    BY <2>1, <2>3 DEF Init
  <2>5. \A d \in Dbs : Calm(d)
    BY <2>4 DEF Calm
  <2>6. QED
    BY <2>2, <2>5 DEF RecycleInv
<1>2. RecycleInv /\ [Next]_vars => RecycleInv'
  <2>1. SUFFICES ASSUME RecycleInv, [Next]_vars
                 PROVE  RecycleInv'
    OBVIOUS
  <2>2. TypeOK' /\ Control'
    BY <2>1, TypeStep DEF RecycleInv
  <2>3. \A d \in Dbs : Lives(d)'
    BY <2>1, LivesStep DEF RecycleInv
  <2>4. ASSUME NEW d \in Dbs, faults' = 0, ~overlap'
        PROVE  Calm(d)'
    <3>1. TypeOK /\ Control /\ Lives(d)
      BY <2>1 DEF RecycleInv
    <3>2. faults = 0 /\ ~overlap
      BY <2>1, <2>4, <3>1, Remembered
    <3>3. Calm(d)
      BY <2>1, <3>2 DEF RecycleInv
    <3>4. QED
      BY <2>1, <2>4, <3>1, <3>2, <3>3, CalmStep
  <2>5. QED
    BY <2>2, <2>3, <2>4 DEF RecycleInv
<1>3. RecycleInv => Recycled
  <2>1. SUFFICES ASSUME RecycleInv, NEW d \in Dbs,
                        object[d].life = 1, ~object[d].retain, cache[d] = 0, notes = <<>>,
                        \A w \in Workers : job[w].pc = "idle", ~overlap, faults = 0
                 PROVE  server[d] = {}
    BY DEF Recycled, Workers
  <2>2. Ending(d)
    BY <2>1 DEF RecycleInv, Calm
  <2>3. ~On("handler", d) /\ 1 .. Len(notes) = {}
    BY <2>1 DEF On, Workers
  <2>4. ~GoneNote(d)
    BY <2>3 DEF GoneNote
  <2>5. QED
    BY <2>1, <2>2, <2>3, <2>4 DEF Ending
<1>4. QED
  BY <1>1, <1>2, <1>3, PTL DEF Spec
=============================================================================
