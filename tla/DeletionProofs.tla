---------------------------- MODULE DeletionProofs ----------------------------
(***************************************************************************)
(* Proofs about BackupDeletion, for any number of requests, Backups,       *)
(* snapshots and disturbances.                                             *)
(***************************************************************************)
EXTENDS BackupDeletion, TLAPS

-----------------------------------------------------------------------------
(* Type correctness.                                                       *)
Pc == {"idle", "purge", "find", "mark", "forget", "fail"}

LEMMA IdleType == IdleRun \in RunRec /\ IdleRun.pc = "idle"
BY DEF IdleRun, RunRec, ReqPhase

LEMMA SpendType ==
  ASSUME TypeOK, NEW k \in Kinds, Spend(k)
  PROVE  used' \in [Kinds -> Nat]
BY AllowedAssumption DEF Spend, TypeOK

LEMMA GotoType ==
  ASSUME TypeOK, NEW c \in Pc, Goto(c)
  PROVE  /\ run' \in RunRec /\ run'.pc = c
         /\ run'.item = run.item /\ run'.phase = run.phase /\ run'.err = run.err
BY DEF Goto, TypeOK, RunRec, Pc

LEMMA HoldType ==
  ASSUME TypeOK, NEW c \in Pc, NEW p \in ReqPhase, Hold(c, p)
  PROVE  /\ run' \in RunRec /\ run'.pc = c
         /\ run'.item = run.item /\ run'.phase = p /\ run'.err = run.err
BY DEF Hold, TypeOK, RunRec, Pc

LEMMA RunParts ==
  ASSUME TypeOK
  PROVE  /\ run.pc \in Pc /\ run.item \in Requests \cup {None}
         /\ run.phase \in ReqPhase /\ run.left \subseteq Snapshots
         /\ run.err \in BOOLEAN
BY DEF TypeOK, RunRec, Pc

(* A report writes the request of the pass, or nothing.                    *)
LEMMA ReportEffect ==
  ASSUME TypeOK, NEW p \in ReqPhase, Report(p)
  PROVE  /\ req' \in [Requests -> ReqPhase]
         /\ \A q \in Requests :
              req'[q] = req[q] \/ (q = Item /\ req'[q] = p)
BY DEF Report, TypeOK

LEMMA ReportedEffect ==
  ASSUME TypeOK, NEW p \in ReqPhase, Reported(p)
  PROVE  /\ req' \in [Requests -> ReqPhase] /\ used' \in [Kinds -> Nat]
         /\ \A q \in Requests :
              \/ req'[q] = req[q]
              \/ q = Item /\ req[q] \notin NoObject /\ req'[q] = p
         /\ req[Item] \notin NoObject /\ used' = used
BY ReportEffect DEF Reported, TypeOK

LEMMA NotReportedEffect ==
  ASSUME TypeOK, NEW p \in ReqPhase, NotReported(p)
  PROVE  /\ req' \in [Requests -> ReqPhase] /\ used' \in [Kinds -> Nat]
         /\ \A q \in Requests :
              \/ req'[q] = req[q]
              \/ q = Item /\ req[q] \notin NoObject /\ req'[q] = p
         /\ \/ req[Item] \in NoObject /\ UNCHANGED <<req, used>>
            \/ Spend("api")
<1>1. CASE req[Item] \in NoObject
  BY <1>1 DEF NotReported, TypeOK
<1>2. CASE req[Item] \notin NoObject
  <2>1. (UNCHANGED req \/ Report(p)) /\ Spend("api")
    BY <1>2 DEF NotReported
  <2>2. used' \in [Kinds -> Nat]
    BY <2>1, SpendType, KindsAssumption
  <2>3. CASE UNCHANGED req
    BY <2>1, <2>2, <2>3 DEF TypeOK
  <2>4. CASE Report(p)
    BY <1>2, <2>1, <2>2, <2>4, ReportEffect
  <2>5. QED
    BY <2>1, <2>3, <2>4
<1>3. QED
  BY <1>1, <1>2

(* What a pass over the request holds on to.                               *)
Busy == run.pc # "idle"
HasItem == Busy => run.item \in Requests

LEMMA TypeInit == Init => TypeOK /\ HasItem
BY IdleType DEF Init, TypeOK, HasItem, Busy, ReqPhase, BkPhase

LEMMA BackupType ==
  ASSUME TypeOK, HasItem, NEW b \in Backups,
         CreateBackup(b) \/ DeleteBackup(b) \/ DeliverBackup(b)
  PROVE  TypeOK' /\ HasItem'
<1>1. CASE CreateBackup(b)
  BY <1>1 DEF CreateBackup, TypeOK, HasItem, Busy, BkPhase, cacheVars
<1>2. CASE DeleteBackup(b)
  <2>1. used' \in [Kinds -> Nat]
    BY <1>2, SpendType, KindsAssumption DEF DeleteBackup
  <2>2. QED
    BY <1>2, <2>1 DEF DeleteBackup, TypeOK, HasItem, Busy, BkPhase, cacheVars
<1>3. CASE DeliverBackup(b)
  BY <1>3 DEF DeliverBackup, TypeOK, HasItem, Busy, serverVars
<1>4. QED
  BY <1>1, <1>2, <1>3

LEMMA RequestType ==
  ASSUME TypeOK, HasItem, NEW q \in Requests,
         CreateRequest(q) \/ Age(q) \/ Deliver(q)
  PROVE  TypeOK' /\ HasItem'
<1>1. CASE CreateRequest(q)
  BY <1>1 DEF CreateRequest, TypeOK, HasItem, Busy, ReqPhase, cacheVars
<1>2. CASE Age(q)
  BY <1>2 DEF Age, TypeOK, HasItem, Busy, cacheVars
<1>3. CASE Deliver(q)
  BY <1>3 DEF Deliver, TypeOK, HasItem, Busy, serverVars
<1>4. QED
  BY <1>1, <1>2, <1>3

LEMMA RebootType ==
  ASSUME TypeOK, Reboot, UNCHANGED serverVars, used' \in [Kinds -> Nat]
  PROVE  TypeOK' /\ HasItem'
BY IdleType DEF Reboot, Known, TypeOK, HasItem, Busy, serverVars

LEMMA TakingType ==
  ASSUME TypeOK, HasItem, NEW q \in Requests, Taking(q)
  PROVE  TypeOK' /\ HasItem'
<1>1. CASE Skip(q)
  BY <1>1 DEF Skip, Take, TypeOK, HasItem, Busy, serverVars, cacheVars
<1>2. CASE RemoveExpired(q)
  <2>1. used' \in [Kinds -> Nat]
    BY <1>2, SpendType, KindsAssumption DEF RemoveExpired, TypeOK
  <2>2. req' \in [Requests -> ReqPhase]
    BY <1>2 DEF RemoveExpired, TypeOK, ReqPhase
  <2>3. QED
    BY <1>2, <2>1, <2>2 DEF RemoveExpired, Take, TypeOK, HasItem, Busy, cacheVars
<1>3. CASE Begin(q)
  <2>1. run' \in RunRec /\ run'.item = q
    BY <1>3, IdleType DEF Begin, TypeOK, RunRec, IdleRun
  <2>2. QED
    BY <1>3, <2>1 DEF Begin, Take, TypeOK, HasItem, Busy, serverVars, cacheVars
<1>4. QED
  BY <1>1, <1>2, <1>3 DEF Taking

LEMMA WorkingType ==
  ASSUME TypeOK, HasItem, Working
  PROVE  TypeOK' /\ HasItem'
<1> USE DEF cacheVars
<1>1. CASE Purge
  <2> DEFINE there == {q \in Others : req[q] \notin NoObject}
  <2>1. PICK done \in SUBSET there :
          /\ IF done = there THEN UNCHANGED used ELSE Spend("api")
          /\ req' = [q \in Requests |-> IF q \in done THEN "Gone" ELSE req[q]]
          /\ IF done = Others THEN Goto("find") /\ UNCHANGED queued
                              ELSE EndRun /\ Requeue
    BY <1>1 DEF Purge
  <2>2. used' \in [Kinds -> Nat]
    BY <2>1, SpendType, KindsAssumption DEF TypeOK
  <2>3. req' \in [Requests -> ReqPhase]
    BY <2>1 DEF TypeOK, ReqPhase
  <2>4. run.item \in Requests
    BY <1>1 DEF Purge, HasItem, Busy
  <2>5. run' \in RunRec /\ queued' \subseteq Requests /\ HasItem'
    <3>1. CASE done = Others
      BY <2>1, <2>4, <3>1, GotoType DEF Pc, TypeOK, HasItem, Busy
    <3>2. CASE done # Others
      BY <2>1, <2>4, <3>2, IdleType DEF EndRun, Requeue, Item, TypeOK, HasItem, Busy
    <3>3. QED
      BY <3>1, <3>2
  <2>6. UNCHANGED <<labels, old, bk, snaps, cacheVars>>
    BY <1>1 DEF Purge
  <2>7. QED
    BY <2>2, <2>3, <2>5, <2>6 DEF TypeOK
<1>2. CASE FindNone \/ Find \/ Fail
  <2>1. run.item \in Requests
    BY <1>2 DEF FindNone, Find, Fail, HasItem, Busy
  <2>2. PICK p \in {"Completed", "InProgress", "Failed"} :
          /\ Reported(p) \/ NotReported(p)
          /\ \/ EndRun
             \/ Hold("fail", p)
             \/ Hold("mark", req'[Item])
          /\ UNCHANGED queued \/ Requeue
          /\ UNCHANGED <<labels, old, bk, snaps, cacheVars>>
    BY <1>2 DEF FindNone, Find, Fail
  <2>3. req' \in [Requests -> ReqPhase] /\ used' \in [Kinds -> Nat]
    BY <2>2, ReportedEffect, NotReportedEffect DEF ReqPhase
  <2>4. run' \in RunRec /\ HasItem'
    <3>1. CASE EndRun
      BY <3>1, IdleType DEF EndRun, HasItem, Busy
    <3>2. CASE Hold("fail", p)
      BY <2>1, <3>2, HoldType DEF Pc, ReqPhase, HasItem
    <3>3. CASE Hold("mark", req'[Item])
      BY <2>1, <2>3, <3>3, HoldType DEF Pc, Item, HasItem
    <3>4. QED
      BY <2>2, <3>1, <3>2, <3>3
  <2>5. queued' \subseteq Requests
    BY <2>1, <2>2 DEF Requeue, Item, TypeOK
  <2>6. QED
    BY <2>2, <2>3, <2>4, <2>5 DEF TypeOK
<1>3. CASE Mark
  <2>1. run.item \in Requests
    BY <1>3 DEF Mark, HasItem, Busy
  <2>2. /\ used' \in [Kinds -> Nat]
        /\ bk' \in [Backups -> BkPhase]
    BY <1>3, SpendType, KindsAssumption DEF Mark, TypeOK, BkPhase
  <2>3. run' \in RunRec /\ HasItem'
    <3>1. CASE run' = [run EXCEPT !.pc = "forget", !.left = Snapshots]
      BY <2>1, <3>1 DEF TypeOK, RunRec, HasItem, Busy
    <3>2. CASE MarkFailed
      BY <2>1, <3>2, GotoType DEF MarkFailed, Pc, HasItem, Busy
    <3>3. QED
      BY <1>3, <3>1, <3>2 DEF Mark
  <2>4. QED
    BY <1>3, <2>2, <2>3 DEF Mark, TypeOK
<1>4. CASE ListFails \/ SomeFailed
  <2>1. run' \in RunRec /\ HasItem'
    BY <1>4, GotoType DEF ListFails, SomeFailed, Pc, HasItem, Busy
  <2>2. used' \in [Kinds -> Nat]
    BY <1>4, SpendType, KindsAssumption DEF ListFails, SomeFailed, TypeOK
  <2>3. QED
    BY <1>4, <2>1, <2>2 DEF ListFails, SomeFailed, serverVars, TypeOK
<1>5. CASE Forget
  <2>1. PICK s \in run.left :
          \/ /\ snaps' = [snaps EXCEPT ![Bk] = @ \ {s}]
             /\ run' = [run EXCEPT !.left = @ \ {s}]
             /\ UNCHANGED used
          \/ /\ Spend("api")
             /\ run' = [run EXCEPT !.left = @ \ {s}, !.err = TRUE]
             /\ UNCHANGED snaps
    BY <1>5 DEF Forget, Forgotten
  <2>2. used' \in [Kinds -> Nat] /\ snaps' \in [Backups -> SUBSET Snapshots]
    BY <2>1, SpendType, KindsAssumption DEF TypeOK
  <2>3. run' \in RunRec /\ run'.pc = run.pc /\ run'.item = run.item
    BY <2>1 DEF TypeOK, RunRec
  <2>4. QED
    BY <1>5, <2>2, <2>3 DEF Forget, TypeOK, HasItem, Busy
<1>6. CASE Panic
  BY <1>6, RebootType DEF Panic, TypeOK
<1>7. QED
  BY <1>1, <1>2, <1>3, <1>4, <1>5, <1>6 DEF Working

LEMMA TypeStep ==
  ASSUME TypeOK, HasItem, [Next]_vars
  PROVE  TypeOK' /\ HasItem'
<1>1. CASE \E b \in Backups : CreateBackup(b) \/ DeleteBackup(b) \/ DeliverBackup(b)
  BY <1>1, BackupType
<1>2. CASE \E q \in Requests : CreateRequest(q) \/ Age(q) \/ Deliver(q)
  BY <1>2, RequestType
<1>3. CASE \E q \in Requests : Taking(q)
  BY <1>3, TakingType
<1>4. CASE Enqueue
  BY <1>4 DEF Enqueue, Known, TypeOK, HasItem, Busy, serverVars, cacheVars
<1>5. CASE Restart
  BY <1>5, RebootType, SpendType, KindsAssumption DEF Restart
<1>6. CASE Working
  BY <1>6, WorkingType
<1>7. CASE UNCHANGED vars
  BY <1>7 DEF vars, TypeOK, HasItem, Busy
<1>8. QED
  BY <1>1, <1>2, <1>3, <1>4, <1>5, <1>6, <1>7 DEF Next

(* The objects, the caches, the queue and the pass keep their types,       *)
(* whichever calls fail and wherever the process stops.                    *)
THEOREM TypeCorrect == Spec => []TypeOK
<1>1. Init => TypeOK /\ HasItem
  BY TypeInit
<1>2. TypeOK /\ HasItem /\ [Next]_vars => (TypeOK /\ HasItem)'
  BY TypeStep
<1>3. QED
  BY <1>1, <1>2, PTL DEF Spec

-----------------------------------------------------------------------------
(* What is known of the objects while a pass works.                        *)
Marked == run.pc = "forget" => bk[Bk] \in {"Deleting", "Gone"}

(* What a cache or a pass has seen was on the server, and once there an    *)
(* object is never "Absent" again.                                         *)
KnownWasThere ==
  /\ \A q \in Requests : cacheReq[q] # "Absent" => req[q] # "Absent"
  /\ \A b \in Backups : cacheBk[b] # "Absent" => bk[b] # "Absent"
  /\ Busy => req[Item] # "Absent"
  /\ run.pc = "mark" => bk[Bk] # "Absent"

(* As long as no call failed and no Backup was removed by a user, a pass   *)
(* gives up only on a request that another pass removed.                   *)
Excused == used["api"] > 0 \/ used["delete"] > 0
NoFailure ==
  /\ \A b \in Backups : bk[b] # "Gone"
  /\ \A q \in Requests : req[q] # "Failed" /\ cacheReq[q] # "Failed"
  /\ run.phase # "Failed" /\ ~run.err
  /\ run.pc = "fail" => req[Item] = "Gone"

IInv == TypeOK /\ HasItem /\ Marked /\ KnownWasThere /\ (~Excused => NoFailure)

LEMMA BkType ==
  ASSUME TypeOK, HasItem, Busy
  PROVE  Item \in Requests /\ Bk \in Backups
BY TargetAssumption DEF HasItem, Item, Bk

(* How the objects change: a request is created, deleted, or reported on   *)
(* by the pass that has it; a Backup is created, deleted, or marked.       *)
LEMMA RequestsMove ==
  ASSUME TypeOK, HasItem, [Next]_vars, NEW q \in Requests
  PROVE  \/ req'[q] = req[q]
         \/ req[q] = "Absent" /\ req'[q] = "New"
         \/ req'[q] = "Gone"
         \/ /\ Busy /\ q = Item /\ req[q] \notin NoObject
            /\ req'[q] \in {"Completed", "InProgress", "Failed"}
            /\ req'[q] = "Failed" => run.pc = "fail"
<1> DEFINE Goal == \/ req'[q] = req[q]
                   \/ req[q] = "Absent" /\ req'[q] = "New"
                   \/ req'[q] = "Gone"
                   \/ /\ Busy /\ q = Item /\ req[q] \notin NoObject
                      /\ req'[q] \in {"Completed", "InProgress", "Failed"}
                      /\ req'[q] = "Failed" => run.pc = "fail"
<1>1. ASSUME NEW b \in Backups, CreateBackup(b) \/ DeleteBackup(b) \/ DeliverBackup(b)
      PROVE  Goal
  BY <1>1 DEF CreateBackup, DeleteBackup, DeliverBackup, serverVars
<1>2. ASSUME NEW x \in Requests, CreateRequest(x) \/ RemoveExpired(x)
      PROVE  Goal
  BY <1>2 DEF CreateRequest, RemoveExpired, TypeOK
<1>3. ASSUME NEW x \in Requests, Age(x) \/ Deliver(x) \/ Skip(x) \/ Begin(x)
      PROVE  Goal
  BY <1>3 DEF Age, Deliver, Skip, Begin, serverVars
<1>4. CASE Enqueue \/ Restart \/ ListFails \/ Panic \/ SomeFailed \/ UNCHANGED vars
  BY <1>4 DEF Enqueue, Restart, ListFails, Panic, SomeFailed, serverVars, vars
<1>5. CASE Mark \/ Forget
  BY <1>5 DEF Mark, Forget
<1>6. CASE Purge
  BY <1>6 DEF Purge, TypeOK
<1>7. CASE FindNone
  BY <1>7, ReportedEffect, NotReportedEffect DEF FindNone, ReqPhase, Busy
<1>8. CASE Find
  BY <1>8, ReportedEffect, NotReportedEffect DEF Find, ReqPhase, Busy
<1>9. CASE Fail
  BY <1>9, ReportedEffect, NotReportedEffect DEF Fail, ReqPhase, Busy
<1>10. QED
  BY <1>1, <1>2, <1>3, <1>4, <1>5, <1>6, <1>7, <1>8, <1>9 DEF Next, Taking, Working

LEMMA BackupsMove ==
  ASSUME TypeOK, HasItem, [Next]_vars, NEW b \in Backups
  PROVE  \/ bk'[b] = bk[b]
         \/ bk[b] = "Absent" /\ bk'[b] = "Present"
         \/ bk'[b] = "Gone" /\ Spend("delete")
         \/ bk[b] \notin NoObject /\ bk'[b] = "Deleting"
<1> DEFINE Goal == \/ bk'[b] = bk[b]
                   \/ bk[b] = "Absent" /\ bk'[b] = "Present"
                   \/ bk'[b] = "Gone" /\ Spend("delete")
                   \/ bk[b] \notin NoObject /\ bk'[b] = "Deleting"
<1>1. ASSUME NEW x \in Backups, CreateBackup(x) \/ DeleteBackup(x) \/ DeliverBackup(x)
      PROVE  Goal
  BY <1>1 DEF CreateBackup, DeleteBackup, DeliverBackup, serverVars, TypeOK
<1>2. ASSUME NEW q \in Requests, CreateRequest(q) \/ Age(q) \/ Deliver(q) \/ Taking(q)
      PROVE  Goal
  BY <1>2 DEF CreateRequest, Age, Deliver, Taking, Skip, RemoveExpired, Begin, serverVars
<1>3. CASE Enqueue \/ Restart \/ ListFails \/ Panic \/ SomeFailed \/ UNCHANGED vars
  BY <1>3 DEF Enqueue, Restart, ListFails, Panic, SomeFailed, serverVars, vars
<1>4. CASE Purge \/ FindNone \/ Find \/ Forget \/ Fail
  BY <1>4 DEF Purge, FindNone, Find, Forget, Fail
<1>5. CASE Mark
  BY <1>5 DEF Mark, TypeOK
<1>6. QED
  BY <1>1, <1>2, <1>3, <1>4, <1>5 DEF Next, Working

(* How a pass goes on: it keeps its request, ends, or begins.              *)
LEMMA PassMoves ==
  ASSUME TypeOK, HasItem, [Next]_vars
  PROVE  \/ run' = run
         \/ run' = IdleRun
         \/ /\ Busy /\ run'.item = run.item
            /\ run'.pc = "forget" => run.pc = "forget" \/ (run.pc = "mark" /\ bk'[Bk] = "Deleting")
            /\ run'.pc = "mark" => run.pc = "find" /\ cacheBk[Bk] \notin NoObject
         \/ \E q \in Requests : Begin(q)
<1> DEFINE Goal ==
      \/ run' = run
      \/ run' = IdleRun
      \/ /\ Busy /\ run'.item = run.item
         /\ run'.pc = "forget" => run.pc = "forget" \/ (run.pc = "mark" /\ bk'[Bk] = "Deleting")
         /\ run'.pc = "mark" => run.pc = "find" /\ cacheBk[Bk] \notin NoObject
      \/ \E q \in Requests : Begin(q)
<1>1. ASSUME NEW b \in Backups, CreateBackup(b) \/ DeleteBackup(b) \/ DeliverBackup(b)
      PROVE  Goal
  BY <1>1 DEF CreateBackup, DeleteBackup, DeliverBackup
<1>2. ASSUME NEW q \in Requests, CreateRequest(q) \/ Age(q) \/ Deliver(q) \/ Taking(q)
      PROVE  Goal
  BY <1>2 DEF CreateRequest, Age, Deliver, Taking, Skip, RemoveExpired
<1>3. CASE Enqueue \/ Restart \/ Panic \/ UNCHANGED vars
  BY <1>3 DEF Enqueue, Restart, Panic, Reboot, vars
<1>4. CASE ListFails \/ SomeFailed
  BY <1>4, GotoType DEF ListFails, SomeFailed, Pc, Busy
<1>5. CASE Purge
  <2>1. EndRun \/ Goto("find")
    BY <1>5 DEF Purge
  <2>2. CASE EndRun
    BY <2>2 DEF EndRun
  <2>3. CASE Goto("find")
    BY <1>5, <2>3, GotoType DEF Purge, Pc, Busy
  <2>4. QED
    BY <2>1, <2>2, <2>3
<1>6. CASE FindNone
  <2>1. EndRun \/ Hold("fail", "Completed")
    BY <1>6 DEF FindNone
  <2>2. QED
    BY <1>6, <2>1, HoldType DEF FindNone, EndRun, Pc, ReqPhase, Busy
<1>7. CASE Find
  <2>1. \/ Reported("InProgress") /\ Hold("mark", req'[Item])
        \/ Hold("fail", "InProgress")
    BY <1>7 DEF Find
  <2>2. CASE Reported("InProgress") /\ Hold("mark", req'[Item])
    <3>1. req'[Item] \in ReqPhase
      BY <1>7, <2>2, ReportedEffect DEF Find, HasItem, Busy, Item, ReqPhase
    <3>2. QED
      BY <1>7, <2>2, <3>1, HoldType DEF Find, Pc, Busy
  <2>3. CASE Hold("fail", "InProgress")
    BY <1>7, <2>3, HoldType DEF Find, Pc, ReqPhase, Busy
  <2>4. QED
    BY <2>1, <2>2, <2>3
<1>8. CASE Mark
  <2>1. Busy /\ run.pc = "mark" /\ Bk \in Backups
    BY <1>8, BkType DEF Mark, Busy
  <2>2. CASE MarkFailed
    BY <2>1, <2>2, GotoType DEF MarkFailed, Pc
  <2>3. CASE ~MarkFailed
    <3>1. /\ bk' = [bk EXCEPT ![Bk] = "Deleting"]
          /\ run' = [run EXCEPT !.pc = "forget", !.left = Snapshots]
      BY <1>8, <2>3 DEF Mark
    <3>2. bk'[Bk] = "Deleting"
      BY <2>1, <3>1 DEF TypeOK
    <3>3. run'.item = run.item /\ run'.pc = "forget"
      BY <3>1 DEF TypeOK, RunRec
    <3>4. QED
      BY <2>1, <3>2, <3>3
  <2>4. QED
    BY <2>2, <2>3
<1>9. CASE Forget
  <2>1. \E s \in run.left : \/ run' = [run EXCEPT !.left = @ \ {s}]
                            \/ run' = [run EXCEPT !.left = @ \ {s}, !.err = TRUE]
    BY <1>9 DEF Forget
  <2>2. run'.pc = "forget" /\ run'.item = run.item
    BY <1>9, <2>1 DEF Forget, TypeOK, RunRec
  <2>3. QED
    BY <1>9, <2>2 DEF Forget, Busy
<1>10. CASE Fail
  BY <1>10 DEF Fail, EndRun
<1>11. QED
  BY <1>1, <1>2, <1>3, <1>4, <1>5, <1>6, <1>7, <1>8, <1>9, <1>10 DEF Next, Working

-----------------------------------------------------------------------------
(* The inductive invariant.                                                *)
LEMMA MarkedStep ==
  ASSUME TypeOK, HasItem, Marked, [Next]_vars
  PROVE  Marked'
<1> SUFFICES ASSUME run'.pc = "forget" PROVE bk'[Target[run'.item]] \in {"Deleting", "Gone"}
  BY DEF Marked, Bk, Item
<1>1. ASSUME Busy, run'.item = run.item, bk[Bk] \in {"Deleting", "Gone"}
      PROVE  bk'[Target[run'.item]] \in {"Deleting", "Gone"}
  BY <1>1, BkType, BackupsMove DEF Bk, Item, NoObject
<1>2. CASE run' = run
  BY <1>1, <1>2 DEF Marked, Busy
<1>3. CASE run' = IdleRun
  BY <1>3, IdleType
<1>4. CASE \E q \in Requests : Begin(q)
  BY <1>4 DEF Begin, IdleRun
<1>5. CASE /\ Busy /\ run'.item = run.item
           /\ run.pc = "forget" \/ (run.pc = "mark" /\ bk'[Bk] = "Deleting")
  BY <1>1, <1>5 DEF Marked, Bk, Item
<1>6. QED
  BY <1>2, <1>3, <1>4, <1>5, PassMoves

(* What the caches hold after a step.                                      *)
LEMMA CachesMove ==
  ASSUME TypeOK, [Next]_vars
  PROVE  /\ \A q \in Requests : cacheReq'[q] \in {cacheReq[q], req[q]}
         /\ \A b \in Backups : cacheBk'[b] \in {cacheBk[b], bk[b]}
<1> DEFINE Goal == /\ \A q \in Requests : cacheReq'[q] \in {cacheReq[q], req[q]}
                   /\ \A b \in Backups : cacheBk'[b] \in {cacheBk[b], bk[b]}
<1>1. CASE UNCHANGED cacheVars
  BY <1>1 DEF cacheVars
<1>2. CASE Reboot
  BY <1>2 DEF Reboot
<1>3. ASSUME NEW b \in Backups, DeliverBackup(b)
      PROVE  Goal
  BY <1>3 DEF DeliverBackup, TypeOK
<1>4. ASSUME NEW q \in Requests, Deliver(q)
      PROVE  Goal
  BY <1>4 DEF Deliver, TypeOK
<1>5. ASSUME NEW b \in Backups, CreateBackup(b) \/ DeleteBackup(b)
      PROVE  UNCHANGED cacheVars
  BY <1>5 DEF CreateBackup, DeleteBackup
<1>6. ASSUME NEW q \in Requests, CreateRequest(q) \/ Age(q) \/ Taking(q)
      PROVE  UNCHANGED cacheVars
  BY <1>6 DEF CreateRequest, Age, Taking, Skip, RemoveExpired, Begin
<1>7. ASSUME Enqueue \/ UNCHANGED vars
      PROVE  UNCHANGED cacheVars
  BY <1>7 DEF Enqueue, vars, cacheVars
<1>8. ASSUME Purge \/ FindNone \/ Find \/ Mark \/ ListFails \/ Forget \/ SomeFailed \/ Fail
      PROVE  UNCHANGED cacheVars
  BY <1>8 DEF Purge, FindNone, Find, Mark, ListFails, Forget, SomeFailed, Fail
<1>9. QED
  BY <1>1, <1>2, <1>3, <1>4, <1>5, <1>6, <1>7, <1>8 DEF Next, Working, Restart, Panic

LEMMA WasThereStep ==
  ASSUME TypeOK, HasItem, KnownWasThere, [Next]_vars
  PROVE  KnownWasThere'
<1>1. \A q \in Requests : req[q] # "Absent" => req'[q] # "Absent"
  BY RequestsMove
<1>2. \A b \in Backups : bk[b] # "Absent" => bk'[b] # "Absent"
  BY BackupsMove
<1>3. /\ \A q \in Requests : cacheReq'[q] # "Absent" => req'[q] # "Absent"
      /\ \A b \in Backups : cacheBk'[b] # "Absent" => bk'[b] # "Absent"
  BY <1>1, <1>2, CachesMove DEF KnownWasThere
<1>4. /\ run'.pc # "idle" => req'[run'.item] # "Absent"
      /\ run'.pc = "mark" => bk'[Target[run'.item]] # "Absent"
  <2>1. CASE run' = run
    BY <1>1, <1>2, <2>1, BkType DEF KnownWasThere, Busy, Item, Bk
  <2>2. CASE run' = IdleRun
    BY <2>2, IdleType
  <2>3. CASE \E q \in Requests : Begin(q)
    <3>1. PICK q \in Requests : Begin(q)
      BY <2>3
    <3>2. req[q] # "Absent" /\ run'.item = q /\ run'.pc = "purge"
      BY <3>1 DEF Begin, KnownWasThere, NoObject, IdleRun
    <3>3. QED
      BY <1>1, <3>2
  <2>4. CASE /\ Busy /\ run'.item = run.item
             /\ run'.pc = "mark" => cacheBk[Bk] \notin NoObject
    BY <1>1, <1>2, <2>4, BkType DEF KnownWasThere, Item, Bk, NoObject
  <2>5. QED
    BY <2>1, <2>2, <2>3, <2>4, PassMoves
<1>5. QED
  BY <1>3, <1>4 DEF KnownWasThere, Busy, Item, Bk

(* A disturbance is remembered.                                            *)
LEMMA ExcuseKept ==
  ASSUME TypeOK, HasItem, [Next]_vars, ~Excused'
  PROVE  /\ ~Excused
         /\ ~Spend("api") /\ ~Spend("delete")
<1>1. \A k \in Kinds : used[k] \in Nat
  BY DEF TypeOK
<1>2. \A k \in Kinds : Spend(k) =>
        /\ used'[k] > 0
        /\ \A j \in Kinds : used[j] > 0 => used'[j] > 0
  BY <1>1 DEF Spend, TypeOK
<1>3. UNCHANGED used \/ \E k \in Kinds : Spend(k)
  <2>1. ASSUME NEW b \in Backups, CreateBackup(b) \/ DeleteBackup(b) \/ DeliverBackup(b)
        PROVE  UNCHANGED used \/ Spend("delete")
    BY <2>1 DEF CreateBackup, DeleteBackup, DeliverBackup
  <2>2. ASSUME NEW q \in Requests, CreateRequest(q) \/ Age(q) \/ Deliver(q) \/ Taking(q)
        PROVE  UNCHANGED used \/ Spend("api")
    BY <2>2 DEF CreateRequest, Age, Deliver, Taking, Skip, RemoveExpired, Begin
  <2>3. CASE Enqueue \/ Restart \/ UNCHANGED vars
    BY <2>3, KindsAssumption DEF Enqueue, Restart, vars
  <2>4. CASE Purge \/ Mark \/ ListFails \/ Forget \/ Panic \/ SomeFailed
    BY <2>4, KindsAssumption DEF Purge, Mark, ListFails, Forget, Forgotten, Panic, SomeFailed
  <2>5. CASE FindNone \/ Find \/ Fail
    BY <2>5, KindsAssumption DEF FindNone, Find, Fail, Reported, NotReported
  <2>6. QED
    BY <2>1, <2>2, <2>3, <2>4, <2>5, KindsAssumption DEF Next, Working
<1>4. QED
  BY <1>2, <1>3, KindsAssumption DEF Excused

(* Without a disturbance, a pass gives up only because another pass has    *)
(* removed its request.                                                    *)
LEMMA GivesUp ==
  ASSUME TypeOK, HasItem, KnownWasThere, NoFailure, [Next]_vars, ~Excused'
  PROVE  /\ run'.phase # "Failed" /\ ~run'.err
         /\ \/ run' = run
            \/ run'.pc = "fail" => Busy /\ run'.item = run.item /\ req'[Item] = "Gone"
<1> DEFINE Goal ==
      /\ run'.phase # "Failed" /\ ~run'.err
      /\ \/ run' = run
         \/ run'.pc = "fail" => Busy /\ run'.item = run.item /\ req'[Item] = "Gone"
<1>1. ~Spend("api")
  BY ExcuseKept
<1>2. CASE run' = run
  BY <1>2 DEF NoFailure
<1>3. CASE run' = IdleRun
  BY <1>3 DEF IdleRun
<1>4. ASSUME NEW q \in Requests, Begin(q)
      PROVE  Goal
  BY <1>4 DEF Begin, IdleRun, NoFailure
<1>5. CASE Purge
  BY <1>3, <1>5, GotoType DEF Purge, EndRun, Pc, NoFailure
<1>6. ASSUME Busy, req[Item] \in NoObject
      PROVE  req[Item] = "Gone"
  BY <1>6 DEF KnownWasThere, NoObject
<1>7. CASE FindNone
  <2>1. CASE EndRun
    BY <1>3, <2>1 DEF EndRun
  <2>2. CASE NotReported("Completed") /\ Hold("fail", "Completed")
    <3>1. req[Item] \in NoObject /\ UNCHANGED req
      BY <1>1, <2>2, NotReportedEffect DEF ReqPhase
    <3>2. QED
      BY <1>6, <1>7, <2>2, <3>1, HoldType DEF FindNone, Busy, Pc, ReqPhase, NoFailure
  <2>3. QED
    BY <1>7, <2>1, <2>2 DEF FindNone
<1>8. CASE Find
  <2>1. CASE Reported("InProgress") /\ Hold("mark", req'[Item])
    <3>1. Item \in Requests
      BY <1>8, BkType DEF Find, Busy
    <3>2. req'[Item] \in ReqPhase /\ req'[Item] # "Failed"
      BY <2>1, <3>1, ReportedEffect DEF ReqPhase, NoFailure
    <3>3. QED
      BY <2>1, <3>2, HoldType DEF Pc, NoFailure
  <2>2. CASE NotReported("InProgress") /\ Hold("fail", "InProgress")
    <3>1. req[Item] \in NoObject /\ UNCHANGED req
      BY <1>1, <2>2, NotReportedEffect DEF ReqPhase
    <3>2. QED
      BY <1>6, <1>8, <2>2, <3>1, HoldType DEF Find, Busy, Pc, ReqPhase, NoFailure
  <2>3. QED
    BY <1>8, <2>1, <2>2 DEF Find
<1>9. CASE Mark
  <2>1. bk[Bk] \notin NoObject
    BY <1>9, BkType DEF Mark, Busy, KnownWasThere, NoFailure, NoObject
  <2>2. run' = [run EXCEPT !.pc = "forget", !.left = Snapshots]
    BY <1>1, <1>9, <2>1 DEF Mark
  <2>3. QED
    BY <2>2 DEF TypeOK, RunRec, NoFailure
<1>10. CASE Forget
  <2>1. \E s \in run.left : run' = [run EXCEPT !.left = @ \ {s}]
    BY <1>1, <1>10 DEF Forget, Forgotten
  <2>2. QED
    BY <1>10, <2>1 DEF Forget, TypeOK, RunRec, NoFailure
<1>11. CASE ListFails \/ SomeFailed
  BY <1>1, <1>11 DEF ListFails, SomeFailed, NoFailure
<1>12. CASE Restart \/ Panic \/ Fail
  BY <1>3, <1>12 DEF Restart, Panic, Reboot, Fail, EndRun
<1>13. ASSUME NEW b \in Backups, CreateBackup(b) \/ DeleteBackup(b) \/ DeliverBackup(b)
       PROVE  run' = run
  BY <1>13 DEF CreateBackup, DeleteBackup, DeliverBackup
<1>14. ASSUME NEW q \in Requests,
              CreateRequest(q) \/ Age(q) \/ Deliver(q) \/ Skip(q) \/ RemoveExpired(q)
       PROVE  run' = run
  BY <1>14 DEF CreateRequest, Age, Deliver, Skip, RemoveExpired
<1>15. ASSUME Enqueue \/ UNCHANGED vars
       PROVE  run' = run
  BY <1>15 DEF Enqueue, vars
<1>16. QED
  BY <1>2, <1>4, <1>5, <1>7, <1>8, <1>9, <1>10, <1>11, <1>12, <1>13, <1>14, <1>15
     DEF Next, Taking, Working

LEMMA NoFailureStep ==
  ASSUME TypeOK, HasItem, KnownWasThere, NoFailure, [Next]_vars, ~Excused'
  PROVE  NoFailure'
<1>1. ~Spend("delete")
  BY ExcuseKept
<1>2. \A b \in Backups : bk'[b] # "Gone"
  BY <1>1, BackupsMove DEF NoFailure
<1>3. ASSUME NEW q \in Requests, Busy, q = Item, req[q] = "Gone"
      PROVE  req'[q] = "Gone"
  BY <1>3, RequestsMove DEF NoObject
<1>4. \A q \in Requests : req'[q] # "Failed"
  BY RequestsMove DEF NoFailure, NoObject
<1>5. \A q \in Requests : cacheReq'[q] # "Failed"
  BY CachesMove DEF NoFailure
<1>6. run'.pc = "fail" => req'[run'.item] = "Gone"
  <2>1. CASE run' = run
    BY <1>3, <2>1, BkType DEF NoFailure, Busy, Item
  <2>2. CASE run'.pc = "fail" => run'.item = run.item /\ req'[Item] = "Gone"
    BY <2>2 DEF Item
  <2>3. QED
    BY <2>1, <2>2, GivesUp
<1>7. QED
  BY <1>2, <1>4, <1>5, <1>6, GivesUp DEF NoFailure, Item

LEMMA IInvStep ==
  ASSUME IInv, [Next]_vars
  PROVE  IInv'
<1>1. TypeOK' /\ HasItem' /\ Marked' /\ KnownWasThere'
  BY TypeStep, MarkedStep, WasThereStep DEF IInv
<1>2. ~Excused' => NoFailure'
  BY ExcuseKept, NoFailureStep DEF IInv
<1>3. QED
  BY <1>1, <1>2 DEF IInv

LEMMA IInvInit == Init => IInv
<1> SUFFICES ASSUME Init PROVE IInv
  OBVIOUS
<1>1. TypeOK /\ HasItem
  BY TypeInit
<1>2. run.pc = "idle" /\ run.phase = "Absent" /\ run.err = FALSE
  BY DEF Init, IdleRun
<1>3. QED
  BY <1>1, <1>2 DEF IInv, Init, Marked, KnownWasThere, NoFailure, Busy

(* The inductive invariant: a pass that forgets works on a marked Backup,  *)
(* what a cache or a pass has seen existed, and without a failed call or a *)
(* removed Backup no pass has met an error.                                *)
THEOREM Invariance == Spec => []IInv
<1>1. IInv /\ [Next]_vars => IInv'
  BY IInvStep
<1>2. QED
  BY <1>1, IInvInit, PTL DEF Spec

(* A request is Failed only because a call failed or the Backup was gone,  *)
(* although each pass is repeated, on snapshots forgotten before, by a     *)
(* process that stops at the end of every pass without errors.             *)
THEOREM FailedWithCause == Spec => []FailureHasCause
<1>1. IInv => FailureHasCause
  <2>1. Excused => FailureHasCause
    BY DEF Excused, FailureHasCause
  <2>2. NoFailure => FailureHasCause
    BY DEF NoFailure, FailureHasCause
  <2>3. QED
    BY <2>1, <2>2 DEF IInv
<1>2. QED
  BY <1>1, Invariance, PTL

LEMMA SnapshotsMove ==
  ASSUME IInv, [Next]_vars, NEW b \in Backups
  PROVE  snaps'[b] \in {snaps[b], Snapshots} \/ bk[b] \in {"Deleting", "Gone"}
<1> DEFINE Goal == snaps'[b] \in {snaps[b], Snapshots} \/ bk[b] \in {"Deleting", "Gone"}
<1> USE DEF IInv
<1>1. CASE Forget
  <2>1. Bk \in Backups /\ bk[Bk] \in {"Deleting", "Gone"}
    BY <1>1, BkType DEF Forget, Marked, Busy
  <2>2. b # Bk => snaps'[b] = snaps[b]
    BY <1>1, <2>1 DEF Forget, TypeOK
  <2>3. QED
    BY <2>1, <2>2
<1>2. ASSUME NEW x \in Backups, CreateBackup(x) \/ DeleteBackup(x) \/ DeliverBackup(x)
      PROVE  Goal
  BY <1>2 DEF CreateBackup, DeleteBackup, DeliverBackup, serverVars, TypeOK
<1>3. ASSUME NEW q \in Requests, CreateRequest(q) \/ Age(q) \/ Deliver(q) \/ Taking(q)
      PROVE  Goal
  BY <1>3 DEF CreateRequest, Age, Deliver, Taking, Skip, RemoveExpired, Begin, serverVars
<1>4. CASE Enqueue \/ Restart \/ UNCHANGED vars
  BY <1>4 DEF Enqueue, Restart, serverVars, vars
<1>5. CASE ListFails \/ Panic \/ SomeFailed
  BY <1>5 DEF ListFails, Panic, SomeFailed, serverVars
<1>6. CASE Purge \/ FindNone \/ Find \/ Mark \/ Fail
  BY <1>6 DEF Purge, FindNone, Find, Mark, Fail
<1>7. QED
  BY <1>1, <1>2, <1>3, <1>4, <1>5, <1>6 DEF Next, Working

(* A snapshot is forgotten only once readers of its Backup can see that it *)
(* is being deleted, whichever calls fail and wherever the process stops.  *)
THEOREM MarkedBefore == Spec => MarkedFirst
<1>1. IInv /\ [Next]_vars =>
        [\A b \in Backups : snaps[b]' \in {snaps[b], Snapshots} \/ bk[b] \in {"Deleting", "Gone"}]_vars
  BY SnapshotsMove
<1>2. QED
  BY <1>1, Invariance, PTL DEF Spec, MarkedFirst

-----------------------------------------------------------------------------
(* What deletion_completes shows of one pass, for all passes: only a pass  *)
(* that finds no Backup completes its request.                             *)
BkKnown(b) == cacheBk[b] \notin NoObject /\ bk[b] # "Gone"

NotReportedDone ==
  [][\A q \in Requests :
       BkKnown(Target[q]) /\ bk[Target[q]]' # "Gone" =>
         /\ BkKnown(Target[q])'
         /\ req[q]' = "Completed" => req[q] = "Completed"]_vars

LEMMA OnlyFindNone ==
  ASSUME TypeOK, HasItem, [Next]_vars,
         NEW q \in Requests, req'[q] = "Completed", req[q] # "Completed"
  PROVE  q = Item /\ cacheBk[Bk] \in NoObject
<1> DEFINE Goal == q = Item /\ cacheBk[Bk] \in NoObject
<1>1. /\ q = Item /\ req' # req
      /\ ~(\E x \in Requests : CreateRequest(x) \/ RemoveExpired(x)) /\ ~Purge
  <2>1. q = Item
    BY RequestsMove
  <2>2. ASSUME NEW x \in Requests, CreateRequest(x) \/ RemoveExpired(x)
        PROVE  FALSE
    BY <2>2 DEF CreateRequest, RemoveExpired, TypeOK
  <2>3. ~Purge
    BY DEF Purge, TypeOK
  <2>4. QED
    BY <2>1, <2>2, <2>3
<1>2. CASE FindNone
  BY <1>1, <1>2 DEF FindNone
<1>3. ~Find /\ ~Fail
  BY ReportedEffect, NotReportedEffect DEF Find, Fail, ReqPhase
<1>4. ASSUME NEW b \in Backups, CreateBackup(b) \/ DeleteBackup(b) \/ DeliverBackup(b)
      PROVE  UNCHANGED req
  BY <1>4 DEF CreateBackup, DeleteBackup, DeliverBackup, serverVars
<1>5. ASSUME NEW x \in Requests, Age(x) \/ Deliver(x) \/ Skip(x) \/ Begin(x)
      PROVE  UNCHANGED req
  BY <1>5 DEF Age, Deliver, Skip, Begin, serverVars
<1>6. ASSUME \/ Enqueue \/ Restart \/ ListFails \/ Panic \/ SomeFailed
             \/ Mark \/ Forget \/ UNCHANGED vars
      PROVE  UNCHANGED req
  BY <1>6 DEF Enqueue, Restart, ListFails, Panic, SomeFailed, Mark, Forget, serverVars, vars
<1>7. QED
  BY <1>1, <1>2, <1>3, <1>4, <1>5, <1>6 DEF Next, Taking, Working

(* Once the operator knows a Backup, and until a user removes it, no pass  *)
(* reports a request for it as done, however many there are and whatever   *)
(* they forget: the cache goes on to know it, and the code that would      *)
(* complete the request is not reached.                                    *)
THEOREM DoneIsNotReported == Spec => NotReportedDone
<1>1. ASSUME IInv, [Next]_vars,
             NEW q \in Requests, BkKnown(Target[q]), bk[Target[q]]' # "Gone"
      PROVE  BkKnown(Target[q])' /\ (req[q]' = "Completed" => req[q] = "Completed")
  <2>1. Target[q] \in Backups
    BY TargetAssumption
  <2>2. bk[Target[q]] \notin NoObject
    BY <1>1, <2>1 DEF BkKnown, IInv, KnownWasThere, NoObject
  <2>3. cacheBk'[Target[q]] \in {cacheBk[Target[q]], bk[Target[q]]}
    BY <1>1, <2>1, CachesMove DEF IInv
  <2>4. BkKnown(Target[q])'
    BY <1>1, <2>2, <2>3 DEF BkKnown
  <2>5. req[q]' = "Completed" => req[q] = "Completed"
    BY <1>1, OnlyFindNone DEF BkKnown, IInv, Bk
  <2>6. QED
    BY <2>4, <2>5
<1>2. IInv /\ [Next]_vars =>
        [\A q \in Requests :
           BkKnown(Target[q]) /\ bk[Target[q]]' # "Gone" =>
             /\ BkKnown(Target[q])'
             /\ req[q]' = "Completed" => req[q] = "Completed"]_vars
  BY <1>1
<1>3. QED
  BY <1>2, Invariance, PTL DEF Spec, NotReportedDone
=============================================================================
