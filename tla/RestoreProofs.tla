---------------------------- MODULE RestoreProofs ----------------------------
(***************************************************************************)
(* Proofs about RestoreController, for any number of processes, Restores,  *)
(* Backups, snapshots and disturbances.                                    *)
(***************************************************************************)
EXTENDS RestoreController, TLAPS

-----------------------------------------------------------------------------
(* Type correctness.                                                       *)
VersionPhase == Pending \cup Ended \cup {"Gone"}

RunOK  == run \in [Runs -> RunRec]
WorkOK ==
  /\ todo \in [Runs -> SUBSET Jobs] /\ waiting \in [Runs -> SUBSET Names]
  /\ watched \in [Runs -> SUBSET Names] /\ events \in [Runs -> Seq(Names)]

LEMMA RunParts ==
  ASSUME NEW p \in Runs
  PROVE  /\ Op(p) \in Operators /\ Rs(p) \in Restores /\ p = <<Op(p), Rs(p)>>
         /\ Source[Rs(p)] \in Backups
BY SourceAssumption DEF Runs, Op, Rs

LEMMA SpendType ==
  ASSUME TypeOK, NEW k \in Kinds, Spend(k)
  PROVE  used' \in [Kinds -> Nat]
BY AllowedAssumption DEF Spend

LEMMA PhaseType ==
  ASSUME TypeOK, NEW r \in Restores
  PROVE  /\ Len(versions[r]) \in Nat
         /\ Phase(r) \in VersionPhase \cup {"Absent"}
         /\ Phase(r) = "Absent" <=> versions[r] = <<>>
         /\ Exists(r) => Phase(r) \in Pending \cup Ended
BY DEF TypeOK, Phase, Exists, VersionPhase, Pending, Ended

LEMMA WriteEffect ==
  ASSUME TypeOK, NEW r \in Restores, NEW v \in VersionPhase, Write(r, v)
  PROVE  /\ versions' \in [Restores -> Seq(VersionPhase)]
         /\ Len(versions'[r]) = Len(versions[r]) + 1
         /\ Phase(r)' = v
         /\ \A i \in 1 .. Len(versions[r]) : versions'[r][i] = versions[r][i]
         /\ \A q \in Restores \ {r} : versions'[q] = versions[q] /\ Phase(q)' = Phase(q)
<1> DEFINE w == Append(versions[r], v)
<1>1. versions \in [Restores -> Seq(VersionPhase)] /\ versions[r] \in Seq(VersionPhase)
  BY DEF TypeOK, VersionPhase
<1>2. /\ w \in Seq(VersionPhase) /\ w # <<>>
      /\ Len(w) = Len(versions[r]) + 1 /\ w[Len(w)] = v
      /\ \A i \in 1 .. Len(versions[r]) : w[i] = versions[r][i]
  BY <1>1
<1>3. versions' = [versions EXCEPT ![r] = w] /\ versions'[r] = w
  BY <1>1 DEF Write
<1>4. Phase(r)' = v
  BY <1>2, <1>3 DEF Phase
<1>5. \A q \in Restores \ {r} : versions'[q] = versions[q] /\ Phase(q)' = Phase(q)
  BY <1>1, <1>3 DEF Phase
<1>6. versions' \in [Restores -> Seq(VersionPhase)]
  BY <1>1, <1>2, <1>3
<1>7. QED
  BY <1>2, <1>3, <1>4, <1>5, <1>6

LEMMA IdleType == IdleRun \in RunRec /\ IdleRun.pc = "idle"
BY DEF IdleRun, RunRec, Stage

(* The values of pc in RunRec.                                             *)
Pc == {"idle", "get", "init", "add", "wait", "complete", "fail"}

(* What a handler does to the control of its run.                          *)
LEMMA GotoEffect ==
  ASSUME RunOK, NEW p \in Runs, NEW c \in Pc, Goto(p, c)
  PROVE  /\ RunOK'
         /\ run'[p].pc = c /\ run'[p].stage = run[p].stage
         /\ run'[p].rv = run[p].rv /\ run'[p].expired = run[p].expired
         /\ \A q \in Runs \ {p} : run'[q] = run[q]
<1>1. run[p] \in RunRec
  BY DEF RunOK
<1>2. [run[p] EXCEPT !.pc = c] \in RunRec
  BY <1>1 DEF RunRec, Pc
<1>3. run' = [run EXCEPT ![p] = [run[p] EXCEPT !.pc = c]]
  BY DEF Goto
<1>4. QED
  BY <1>1, <1>2, <1>3 DEF RunOK, RunRec

LEMMA NextStageEffect ==
  ASSUME RunOK, NEW p \in Runs, NextStage(p)
  PROVE  /\ RunOK'
         /\ \/ run[p].stage = "db" /\ run'[p].pc = "init" /\ run'[p].stage = "volume"
            \/ run[p].stage # "db" /\ run'[p].pc = "complete" /\ run'[p].stage = run[p].stage
         /\ \A q \in Runs \ {p} : run'[q] = run[q]
<1>1. run[p] \in RunRec
  BY DEF RunOK
<1>2. /\ [run[p] EXCEPT !.pc = "init", !.stage = "volume"] \in RunRec
      /\ [run[p] EXCEPT !.pc = "complete"] \in RunRec
  BY <1>1 DEF RunRec, Stage
<1>3. run'[p] = IF run[p].stage = "db" THEN [run[p] EXCEPT !.pc = "init", !.stage = "volume"]
                                        ELSE [run[p] EXCEPT !.pc = "complete"]
  BY DEF NextStage, RunOK
<1>4. \A q \in Runs \ {p} : run'[q] = run[q]
  BY DEF NextStage, RunOK
<1>5. RunOK'
  BY <1>2 DEF NextStage, RunOK
<1>6. QED
  BY <1>1, <1>3, <1>4, <1>5 DEF RunRec

LEMMA EndRunEffect ==
  ASSUME RunOK, WorkOK, NEW p \in Runs, EndRun(p)
  PROVE  /\ RunOK' /\ WorkOK'
         /\ run'[p] = IdleRun /\ todo'[p] = {} /\ waiting'[p] = {}
         /\ watched'[p] = {} /\ events'[p] = <<>>
         /\ \A q \in Runs \ {p} :
              /\ run'[q] = run[q] /\ todo'[q] = todo[q] /\ waiting'[q] = waiting[q]
              /\ watched'[q] = watched[q] /\ events'[q] = events[q]
BY IdleType DEF EndRun, RunOK, WorkOK

LEMMA KeyType ==
  ASSUME NEW j \in Jobs
  PROVE  Key(j) \in Keys /\ j[1] \in Snapshots /\ j[2] \in BOOLEAN /\ Target(j) \in Targets
BY SnapshotAssumption DEF Jobs, Key, Keys, Target

(* The name and the effect of a new task.                                  *)
LEMMA AddTaskEffect ==
  ASSUME TypeOK, NEW p \in Runs, AddTask(p)
  PROVE  \E j \in todo[p], n \in Names :
           /\ j \in Jobs /\ n[1] = Rs(p) /\ n[2] = Key(j) /\ n[3] = now'
           /\ now' \in 0 .. MaxTime
           /\ CreateTask(p, j, n) \/ CreateTaskFails(n)
           /\ Track(p, j, n)
<1>1. PICK j \in todo[p], sec \in now .. MaxTime :
        /\ now' = sec
        /\ CreateTask(p, j, <<Rs(p), Key(j), sec>>) \/ CreateTaskFails(<<Rs(p), Key(j), sec>>)
        /\ Track(p, j, <<Rs(p), Key(j), sec>>)
  BY DEF AddTask
<1> DEFINE n == <<Rs(p), Key(j), sec>>
<1>2. j \in Jobs /\ sec \in 0 .. MaxTime
  BY <1>1, MaxTimeAssumption DEF TypeOK
<1>3. n \in Names /\ n[1] = Rs(p) /\ n[2] = Key(j) /\ n[3] = sec
  BY <1>2, RunParts, KeyType DEF Names
<1>4. QED
  BY <1>1, <1>2, <1>3

LEMMA InitType == Init => TypeOK
<1> SUFFICES ASSUME Init PROVE TypeOK
  OBVIOUS
<1>1. tasks \in [Names -> TaskRec] /\ now \in 0 .. MaxTime
  BY MaxTimeAssumption DEF Init, NoTask, TaskRec
<1>2. run \in [Runs -> RunRec] /\ used \in [Kinds -> Nat] /\ sound \subseteq Restores
  BY IdleType DEF Init
<1>3. /\ versions \in [Restores -> Seq(Pending \cup Ended \cup {"Gone"})]
      /\ snaps \in [Snapshots -> {"Absent", "Pending", "Completed"}]
      /\ cache \in [Runs -> [known : BOOLEAN, seen : Nat, phase : Pending \cup Ended \cup {"Gone"}]]
  BY DEF Init
<1>4. /\ queued \in [Operators -> SUBSET Restores] /\ stopping \in [Operators -> BOOLEAN]
      /\ todo \in [Runs -> SUBSET Jobs] /\ waiting \in [Runs -> SUBSET Names]
      /\ watched \in [Runs -> SUBSET Names] /\ events \in [Runs -> Seq(Names)]
  BY DEF Init
<1>5. QED
  BY <1>1, <1>2, <1>3, <1>4 DEF TypeOK

LEMMA TypeStep == TypeOK /\ [Next]_vars => TypeOK'
<1> SUFFICES ASSUME TypeOK, [Next]_vars PROVE TypeOK'
  OBVIOUS
<1>t. RunOK /\ WorkOK
  BY DEF TypeOK, RunOK, WorkOK
<1>k. /\ {"api", "lost", "restart", "edit", "delete", "gap", "lag"} \subseteq Kinds
      /\ VersionPhase = {"New", "InProgress", "Completed", "Failed", "Gone"}
  BY KindsAssumption DEF VersionPhase, Pending, Ended
<1>1. ASSUME NEW r \in Restores, CreateRestore(r) PROVE TypeOK'
  <2>1. versions' \in [Restores -> Seq(VersionPhase)]
    BY <1>k, <1>1, WriteEffect DEF CreateRestore
  <2>2. snaps' \in [Snapshots -> SnapPhase] /\ sound' \subseteq Restores
    BY <1>1 DEF CreateRestore, Later, SnapPhase, TypeOK
  <2>3. QED
    BY <1>1, <2>1, <2>2 DEF CreateRestore, runVars, TypeOK, VersionPhase, SnapPhase
<1>2. ASSUME NEW r \in Restores, EditRestore(r) \/ DeleteRestore(r) PROVE TypeOK'
  <2>1. PICK v \in {"Gone", Phase(r)} : Write(r, v)
    BY <1>2 DEF EditRestore, DeleteRestore
  <2>2. v \in VersionPhase
    BY <1>k, <1>2, PhaseType DEF EditRestore, DeleteRestore, Pending, Ended
  <2>3. versions' \in [Restores -> Seq(VersionPhase)]
    BY <2>1, <2>2, WriteEffect
  <2>4. used' \in [Kinds -> Nat]
    BY <1>k, <1>2, SpendType DEF EditRestore, DeleteRestore
  <2>5. QED
    BY <1>2, <2>3, <2>4 DEF EditRestore, DeleteRestore, worldVars, runVars, TypeOK, VersionPhase
<1>3. ASSUME NEW p \in Runs, Deliver(p) PROVE TypeOK'
  <2> DEFINE r == Rs(p)
  <2>1. PICK v \in {cache[p].seen + 1, Len(versions[r])} :
          /\ cache' = [cache EXCEPT ![p] = [known |-> TRUE, seen |-> v, phase |-> versions[r][v]]]
          /\ queued' = IF Enqueues(cache[p], versions[r][v])
                         THEN [queued EXCEPT ![Op(p)] = @ \cup {r}] ELSE queued
    BY <1>3 DEF Deliver
  <2>2. /\ r \in Restores /\ Op(p) \in Operators /\ cache[p].seen \in Nat
        /\ versions[r] \in Seq(VersionPhase) /\ cache[p].seen < Len(versions[r])
    BY <1>3, RunParts DEF Deliver, TypeOK, VersionPhase
  <2>3. v \in 1 .. Len(versions[r]) /\ v \in Nat
    BY <2>1, <2>2
  <2>4. versions[r][v] \in VersionPhase
    BY <2>2, <2>3
  <2>5. [known |-> TRUE, seen |-> v, phase |-> versions[r][v]]
           \in [known : BOOLEAN, seen : Nat, phase : VersionPhase]
    BY <2>3, <2>4
  <2>6. cache' \in [Runs -> [known : BOOLEAN, seen : Nat, phase : VersionPhase]]
    BY <2>1, <2>5 DEF TypeOK, VersionPhase
  <2>7. queued' \in [Operators -> SUBSET Restores]
    BY <2>1, <2>2 DEF TypeOK
  <2>8. QED
    BY <1>3, <2>6, <2>7 DEF Deliver, worldVars, runVars, TypeOK, VersionPhase
<1>4. ASSUME NEW p \in Runs, Skip(p) \/ Start(p) \/ StartFails(p) PROVE TypeOK'
  <2>1. Rs(p) \in Restores /\ Op(p) \in Operators
    BY RunParts
  <2>2. versions' \in [Restores -> Seq(VersionPhase)]
    <3>1. UNCHANGED versions \/ Write(Rs(p), "InProgress")
      BY <1>4 DEF Skip, Start, StartFails
    <3>2. versions \in [Restores -> Seq(VersionPhase)]
      BY DEF TypeOK, VersionPhase
    <3>3. QED
      BY <1>k, <2>1, <3>1, <3>2, WriteEffect
  <2>3. used' \in [Kinds -> Nat]
    <3>1. UNCHANGED used \/ \E k \in Kinds : Spend(k)
      BY <1>k, <1>4 DEF Skip, Start, StartFails
    <3>2. used \in [Kinds -> Nat]
      BY DEF TypeOK
    <3>3. QED
      BY <3>1, <3>2, SpendType
  <2>4. queued' \in [Operators -> SUBSET Restores]
    BY <1>4 DEF Skip, Start, StartFails, Dequeue, TypeOK
  <2>5. run' \in [Runs -> RunRec]
    <3>1. CASE Start(p)
      <4>1. [pc |-> "get", stage |-> "get", rv |-> Len(versions[Rs(p)]) + 1, expired |-> FALSE]
              \in RunRec
        BY <2>1, PhaseType DEF RunRec, Stage
      <4>2. QED
        BY <3>1, <4>1 DEF Start, TypeOK
    <3>2. CASE UNCHANGED run
      BY <3>2 DEF TypeOK
    <3>3. QED
      BY <1>4, <3>1, <3>2 DEF Skip, StartFails, runVars
  <2>6. cache' \in [Runs -> [known : BOOLEAN, seen : Nat, phase : VersionPhase]]
    <3>1. UNCHANGED cache \/ cache' = [cache EXCEPT ![p].phase = "InProgress"]
      BY <1>4 DEF Skip, Start, StartFails, TakeUp
    <3>2. cache \in [Runs -> [known : BOOLEAN, seen : Nat, phase : VersionPhase]]
      BY DEF TypeOK, VersionPhase
    <3>3. QED
      BY <1>k, <3>1, <3>2
  <2>7. UNCHANGED <<snaps, sound, now, tasks, stopping, todo, waiting, watched, events>>
    BY <1>4 DEF Skip, Start, StartFails, worldVars, runVars
  <2>8. QED
    BY <2>2, <2>3, <2>4, <2>5, <2>6, <2>7 DEF TypeOK, VersionPhase
<1>5. ASSUME NEW p \in Runs,
             GetBackup(p) \/ GetBackupFails(p) \/ InitStageFails(p) \/ WaitFails(p)
      PROVE  TypeOK'
  <2>1. used' \in [Kinds -> Nat]
    <3>1. UNCHANGED used \/ Spend("api")
      BY <1>5 DEF GetBackup, GetBackupFails, InitStageFails, WaitFails
    <3>2. used \in [Kinds -> Nat]
      BY DEF TypeOK
    <3>3. QED
      BY <1>k, <3>1, <3>2, SpendType
  <2>2. RunOK'
    <3>1. CASE GetBackup(p)
      <4>1. [run[p] EXCEPT !.pc = "init", !.stage = "db"] \in RunRec
        BY <1>t DEF RunOK, RunRec, Stage
      <4>2. QED
        BY <1>t, <3>1, <4>1 DEF GetBackup, RunOK
    <3>2. CASE Goto(p, "fail")
      BY <1>t, <3>2, GotoEffect DEF Pc
    <3>3. QED
      BY <1>5, <3>1, <3>2 DEF GetBackupFails, InitStageFails, WaitFails
  <2>3. UNCHANGED <<versions, snaps, sound, now, tasks, cache, queued, stopping,
                    todo, waiting, watched, events>>
    BY <1>5 DEF GetBackup, GetBackupFails, InitStageFails, WaitFails, worldVars
  <2>4. QED
    BY <2>1, <2>2, <2>3 DEF TypeOK, RunOK
<1>6. ASSUME NEW p \in Runs, InitStage(p) PROVE TypeOK'
  <2> DEFINE b == Source[Rs(p)]
             st == run[p].stage
  <2>1. snaps' \in [Snapshots -> SnapPhase]
    BY <1>6 DEF InitStage, Later
  <2>2. PICK view \in Views(snaps') :
          /\ IF view = snaps' THEN UNCHANGED used ELSE Spend("lag")
          /\ \E K \in Kept(Listed(b, st, view), st) :
               /\ todo' = [todo EXCEPT ![p] = K]
               /\ IF K = {} THEN NextStage(p) ELSE Goto(p, "add")
    BY <1>6 DEF InitStage
  <2>3. PICK K \in SUBSET Jobs :
          /\ todo' = [todo EXCEPT ![p] = K]
          /\ NextStage(p) \/ Goto(p, "add")
    <3>1. Listed(b, st, view) \subseteq Jobs
      <4>1. \A s \in Snapshots : (view[s] = "Completed") \in BOOLEAN
        BY Zenon
      <4>2. \A s \in Snapshots, x \in BOOLEAN : <<s, x>> \in Jobs
        BY DEF Jobs
      <4>3. \A s \in Snapshots : <<s, view[s] = "Completed">> \in Jobs
        BY <4>1, <4>2, Zenon
      <4>4. QED
        BY <4>3 DEF Listed
    <3>2. Kept(Listed(b, st, view), st) \subseteq SUBSET Jobs
      BY <3>1 DEF Kept
    <3>3. QED
      BY <2>2, <3>2
  <2>4. used' \in [Kinds -> Nat]
    BY <1>k, <2>2, SpendType DEF TypeOK
  <2>5. RunOK'
    BY <1>t, <2>3, NextStageEffect, GotoEffect DEF Pc
  <2>6. WorkOK'
    BY <1>t, <1>6, <2>3 DEF InitStage, WorkOK
  <2>7. QED
    BY <1>6, <2>1, <2>4, <2>5, <2>6 DEF InitStage, TypeOK, RunOK, WorkOK, SnapPhase
<1>7. ASSUME NEW p \in Runs, AddTask(p) PROVE TypeOK'
  <2>1. PICK j \in todo[p], n \in Names :
          /\ j \in Jobs /\ now' \in 0 .. MaxTime
          /\ CreateTask(p, j, n) \/ CreateTaskFails(n)
          /\ Track(p, j, n)
    BY <1>7, AddTaskEffect
  <2>2. used' \in [Kinds -> Nat]
    BY <1>k, <2>1, SpendType DEF CreateTask, CreateTaskFails, TypeOK
  <2>3. tasks' \in [Names -> TaskRec]
    <3>1. [src |-> j, phase |-> "Pending"] \in TaskRec
      BY <2>1 DEF TaskRec
    <3>2. QED
      BY <2>1, <3>1 DEF CreateTask, CreateTaskFails, TypeOK
  <2>4. RunOK'
    BY <1>t, <2>1, GotoEffect DEF Track, Pc
  <2>5. WorkOK'
    <3>1. watched' \in [Runs -> SUBSET Names]
      BY <1>t, <2>1 DEF CreateTask, CreateTaskFails, WorkOK
    <3>2. QED
      BY <1>t, <1>7, <2>1, <3>1 DEF Track, AddTask, WorkOK
  <2>6. QED
    BY <1>7, <2>1, <2>2, <2>3, <2>4, <2>5 DEF AddTask, TypeOK, RunOK, WorkOK
<1>8. ASSUME NEW p \in Runs, Receive(p) PROVE TypeOK'
  <2>1. RunOK'
    <3>1. Goto(p, "fail") \/ NextStage(p) \/ UNCHANGED run
      BY <1>8 DEF Receive
    <3>2. CASE UNCHANGED run
      BY <1>t, <3>2 DEF RunOK
    <3>3. QED
      BY <1>t, <3>1, <3>2, GotoEffect, NextStageEffect DEF Pc
  <2>2. WorkOK'
    <3>1. Tail(events[p]) \in Seq(Names)
      BY <1>t, <1>8 DEF Receive, WorkOK
    <3>2. waiting' \in [Runs -> SUBSET Names]
      BY <1>t, <1>8 DEF Receive, WorkOK
    <3>3. QED
      BY <1>t, <1>8, <3>1, <3>2 DEF Receive, WorkOK
  <2>3. QED
    BY <1>8, <2>1, <2>2 DEF Receive, worldVars, TypeOK, RunOK, WorkOK
<1>9. ASSUME NEW p \in Runs, Expire(p) PROVE TypeOK'
  <2>1. [run[p] EXCEPT !.expired = TRUE] \in RunRec
    BY <1>t DEF RunOK, RunRec
  <2>2. RunOK' /\ WorkOK'
    BY <1>t, <1>9, <2>1 DEF Expire, RunOK, WorkOK
  <2>3. QED
    BY <1>9, <2>2 DEF Expire, worldVars, TypeOK, RunOK, WorkOK
<1>10. ASSUME NEW p \in Runs, Complete(p) \/ Fail(p) PROVE TypeOK'
  <2>1. PICK a \in BOOLEAN, v \in {"Completed", "Failed"} : Report(p, a, v)
    BY <1>10 DEF Complete, Fail, Holds, CanReport, Exists
  <2>2. Rs(p) \in Restores /\ Op(p) \in Operators
    BY RunParts
  <2>3. versions' \in [Restores -> Seq(VersionPhase)]
    <3>1. UNCHANGED versions \/ Write(Rs(p), v)
      BY <2>1 DEF Report
    <3>2. versions \in [Restores -> Seq(VersionPhase)]
      BY DEF TypeOK, VersionPhase
    <3>3. QED
      BY <1>k, <2>2, <3>1, <3>2, WriteEffect
  <2>4. used' \in [Kinds -> Nat]
    <3>1. UNCHANGED used \/ \E k \in Kinds : Spend(k)
      BY <1>k, <2>1 DEF Report
    <3>2. used \in [Kinds -> Nat]
      BY DEF TypeOK
    <3>3. QED
      BY <3>1, <3>2, SpendType
  <2>5. queued' \in [Operators -> SUBSET Restores]
    BY <2>1, <2>2 DEF Report, Requeue, TypeOK
  <2>6. RunOK' /\ WorkOK'
    BY <1>t, <2>1, EndRunEffect DEF Report
  <2>7. QED
    BY <2>1, <2>3, <2>4, <2>5, <2>6 DEF Report, worldVars, TypeOK, RunOK, WorkOK, VersionPhase
<1>11. ASSUME NEW n \in Names, TaskEnds(n) PROVE TypeOK'
  <2>1. tasks' \in [Names -> TaskRec]
    <3>1. PICK e \in Ended : tasks' = [tasks EXCEPT ![n].phase = e]
      BY <1>11 DEF TaskEnds
    <3>2. [tasks[n] EXCEPT !.phase = e] \in TaskRec
      <4>1. tasks[n] \in TaskRec
        BY DEF TypeOK
      <4>2. QED
        BY <3>1, <4>1 DEF TaskRec
    <3>3. QED
      BY <3>1, <3>2 DEF TypeOK
  <2>2. WorkOK'
    BY <1>t, <1>11 DEF TaskEnds, WorkOK
  <2>3. QED
    BY <1>11, <2>1, <2>2 DEF TaskEnds, worldVars, TypeOK, WorkOK
<1>12. ASSUME NEW p \in Runs, NEW n \in Names, WatchGap(p, n) PROVE TypeOK'
  <2>1. used' \in [Kinds -> Nat] /\ watched' \in [Runs -> SUBSET Names]
    BY <1>k, <1>12, SpendType DEF WatchGap, TypeOK
  <2>2. QED
    BY <1>12, <2>1 DEF WatchGap, worldVars, TypeOK
<1>13. ASSUME NEW o \in Operators, Stop(o) PROVE TypeOK'
  BY <1>13 DEF Stop, worldVars, runVars, TypeOK
<1>14. ASSUME NEW o \in Operators, Restart(o) PROVE TypeOK'
  <2>1. used' \in [Kinds -> Nat]
    BY <1>k, <1>14, SpendType DEF Restart
  <2>2. queued' \in [Operators -> SUBSET Restores] /\ stopping' \in [Operators -> BOOLEAN]
    BY <1>14 DEF Restart, TypeOK
  <2>3. cache' \in [Runs -> [known : BOOLEAN, seen : Nat, phase : VersionPhase]]
    <3>1. \A p \in Runs : cache'[p] = cache[p] \/ \E v \in Nat :
                cache'[p] = [known |-> FALSE, seen |-> v, phase |-> "Gone"]
      <4>1. ASSUME NEW p \in Runs
            PROVE  Len(versions[Rs(p)]) \in Nat
                     /\ (Exists(Rs(p)) => Len(versions[Rs(p)]) - 1 \in Nat)
        <5>1. versions[Rs(p)] \in Seq(VersionPhase)
          BY RunParts DEF TypeOK, VersionPhase
        <5>2. Exists(Rs(p)) => versions[Rs(p)] # <<>>
          BY DEF Exists, Phase
        <5>3. QED
          BY <5>1, <5>2
      <4>2. QED
        BY <1>14, <4>1 DEF Restart
    <3>2. cache \in [Runs -> [known : BOOLEAN, seen : Nat, phase : VersionPhase]]
      BY DEF TypeOK, VersionPhase
    <3>3. ASSUME NEW p \in Runs
          PROVE  cache'[p] \in [known : BOOLEAN, seen : Nat, phase : VersionPhase]
      <4>1. CASE cache'[p] = cache[p]
        BY <3>2, <4>1
      <4>2. ASSUME NEW v \in Nat, cache'[p] = [known |-> FALSE, seen |-> v, phase |-> "Gone"]
            PROVE  cache'[p] \in [known : BOOLEAN, seen : Nat, phase : VersionPhase]
        BY <1>k, <4>2
      <4>3. QED
        BY <3>1, <4>1, <4>2
    <3>4. cache' = [p \in Runs |-> cache'[p]]
      BY <1>14 DEF Restart
    <3>5. QED
      BY <3>3, <3>4
  <2>4. RunOK' /\ WorkOK'
    BY <1>t, <1>14, IdleType DEF Restart, RunOK, WorkOK
  <2>5. QED
    BY <1>14, <2>1, <2>2, <2>3, <2>4 DEF Restart, worldVars, TypeOK, RunOK, WorkOK, VersionPhase
<1>15. CASE UNCHANGED vars
  BY <1>15 DEF vars, TypeOK
<1>16. QED
  BY <1>1, <1>2, <1>3, <1>4, <1>5, <1>6, <1>7, <1>8, <1>9, <1>10, <1>11, <1>12, <1>13, <1>14,
     <1>15 DEF Next, Handler

(* Every variable keeps its type.                                          *)
THEOREM TypeCorrect == Spec => []TypeOK
BY InitType, TypeStep, PTL DEF Spec

-----------------------------------------------------------------------------
(* What a step does to versions, runs and tasks.                           *)

(* The start needs the version on the server, so the phase there is "New". *)
LEMMA StartIsFirst ==
  ASSUME TypeOK, CacheHonest, NEW p \in Runs, IsNew(p), Current(p)
  PROVE  Phase(Rs(p)) = "New"
<1> DEFINE r == Rs(p)
<1>1. /\ cache[p].phase = "New" /\ cache[p].seen = Len(versions[r])
      /\ r \in Restores /\ versions[r] \in Seq(VersionPhase)
  BY RunParts DEF IsNew, Current, TypeOK, VersionPhase
<1>2. cache[p].seen \in 1 .. Len(versions[r]) /\ versions[r][cache[p].seen] = "New"
  BY <1>1 DEF CacheHonest
<1>3. versions[r] # <<>> /\ Phase(r) = versions[r][Len(versions[r])]
  BY <1>1, <1>2 DEF Phase
<1>4. QED
  BY <1>1, <1>2, <1>3

(* A phase is written over the one that comes before it, and the outcome   *)
(* by the run of the Restore, which ends with it.                          *)
Outcome(r, v) ==
  /\ v \in Ended /\ Phase(r) = "InProgress"
  /\ \E p \in Runs : /\ Rs(p) = r /\ Active(p) /\ EndRun(p)
                     /\ v = "Completed" => Complete(p)

Follows(r, v) ==
  \/ v = "New" /\ Phase(r) = "Absent"
  \/ v = Phase(r)
  \/ v = "Gone" /\ Exists(r)
  \/ v = "InProgress" /\ Phase(r) = "New"
  \/ Outcome(r, v)

LEMMA WhoWrites ==
  ASSUME TypeOK, CacheHonest, RunsHold, [Next]_vars
  PROVE  \/ UNCHANGED versions
         \/ \E r \in Restores, v \in VersionPhase : Write(r, v) /\ Follows(r, v)
<1>k. /\ {"api", "lost", "restart", "edit", "delete", "gap", "lag"} \subseteq Kinds
      /\ VersionPhase = {"New", "InProgress", "Completed", "Failed", "Gone"}
  BY KindsAssumption DEF VersionPhase, Pending, Ended
<1>1. ASSUME NEW r \in Restores, CreateRestore(r) PROVE Write(r, "New") /\ Follows(r, "New")
  BY <1>1, PhaseType DEF CreateRestore, Follows
<1>2. ASSUME NEW r \in Restores, EditRestore(r) \/ DeleteRestore(r)
      PROVE  \E v \in VersionPhase : Write(r, v) /\ Follows(r, v)
  BY <1>k, <1>2, PhaseType DEF EditRestore, DeleteRestore, Follows, Pending, Ended
<1>3. ASSUME NEW p \in Runs, Start(p) \/ StartFails(p)
      PROVE  UNCHANGED versions
               \/ (Write(Rs(p), "InProgress") /\ Follows(Rs(p), "InProgress"))
  BY <1>3, StartIsFirst DEF Start, StartFails, TakeUp, Follows
<1>4. ASSUME NEW p \in Runs, Complete(p) \/ Fail(p)
      PROVE  \/ UNCHANGED versions
             \/ \E v \in Ended : Write(Rs(p), v) /\ Follows(Rs(p), v)
  <2>1. Active(p) /\ EndRun(p)
    BY <1>4 DEF Complete, Fail, Report, Active
  <2>2. Exists(Rs(p)) => Phase(Rs(p)) = "InProgress"
    BY <2>1 DEF RunsHold, Exists
  <2>3. CASE Complete(p)
    BY <2>1, <2>2, <2>3 DEF Complete, Report, Holds, Follows, Outcome, Ended
  <2>4. CASE Fail(p)
    BY <2>1, <2>2, <2>4 DEF Fail, Report, CanReport, Follows, Outcome, Ended
  <2>5. QED
    BY <1>4, <2>3, <2>4
<1>5. ASSUME NEW p \in Runs, Handler(p),
             ~Start(p), ~StartFails(p), ~Complete(p), ~Fail(p)
      PROVE  UNCHANGED versions
  BY <1>5 DEF Handler, Skip, GetBackup, GetBackupFails, InitStage, InitStageFails, AddTask,
     Receive, WaitFails
<1>6. \A p \in Runs : Rs(p) \in Restores
  BY RunParts
<1>7. Ended \subseteq VersionPhase
  BY DEF VersionPhase
<1>8. QED
  BY <1>k, <1>1, <1>2, <1>3, <1>4, <1>5, <1>6, <1>7 DEF Next, vars, Deliver, Expire, TaskEnds,
     WatchGap, Stop, Restart

(* How the control of a run moves.                                         *)
SameStage(p) == run'[p].stage = run[p].stage
Moves(p) ==
  \/ run'[p].pc = "idle"
  \/ Active(p) /\ run'[p].pc \in {run[p].pc, "fail"} /\ SameStage(p)
  \/ ~Active(p) /\ Start(p) /\ run'[p].pc = "get" /\ run'[p].stage = "get"
  \/ run[p].pc = "get" /\ run'[p].pc = "init" /\ run'[p].stage = "db"
  \/ run[p].pc = "init" /\ InitStage(p) /\ run'[p].pc = "add" /\ SameStage(p)
  \/ run[p].pc = "add" /\ run'[p].pc = "wait" /\ SameStage(p)
  \/ /\ run[p].pc \in {"init", "wait"} /\ run[p].stage = "db"
     /\ run'[p].pc = "init" /\ run'[p].stage = "volume"
  \/ /\ run[p].pc \in {"init", "wait"} /\ run[p].stage # "db"
     /\ run'[p].pc = "complete" /\ SameStage(p)

LEMMA RunsMove ==
  ASSUME TypeOK, [Next]_vars
  PROVE  \A p \in Runs : Moves(p)
<1>t. RunOK /\ WorkOK /\ IdleRun.pc = "idle"
  BY IdleType DEF TypeOK, RunOK, WorkOK
<1>1. ASSUME NEW p \in Runs, run'[p] = run[p] PROVE Moves(p)
  BY <1>1 DEF Moves, Active, SameStage
<1>2. ASSUME UNCHANGED run PROVE \A p \in Runs : Moves(p)
  BY <1>1, <1>2
<1>3. ASSUME NEW q \in Runs, Start(q) PROVE \A p \in Runs : Moves(p)
  <2>1. \A p \in Runs \ {q} : run'[p] = run[p]
    BY <1>t, <1>3 DEF Start, RunOK
  <2>2. run'[q].pc = "get" /\ run'[q].stage = "get" /\ ~Active(q)
    BY <1>t, <1>3 DEF Start, TakeUp, Take, RunOK, Active
  <2>3. QED
    BY <1>1, <1>3, <2>1, <2>2 DEF Moves
<1>4. ASSUME NEW q \in Runs, GetBackup(q) PROVE \A p \in Runs : Moves(p)
  <2>1. \A p \in Runs \ {q} : run'[p] = run[p]
    BY <1>t, <1>4 DEF GetBackup, RunOK
  <2>2. run'[q].pc = "init" /\ run'[q].stage = "db" /\ run[q].pc = "get"
    BY <1>t, <1>4 DEF GetBackup, RunOK, RunRec
  <2>3. QED
    BY <1>1, <2>1, <2>2 DEF Moves
<1>5. ASSUME NEW q \in Runs, Active(q), Goto(q, "fail") PROVE \A p \in Runs : Moves(p)
  BY <1>t, <1>1, <1>5, GotoEffect DEF Moves, SameStage, Pc
<1>6. ASSUME NEW q \in Runs, InitStage(q) PROVE \A p \in Runs : Moves(p)
  <2>1. run[q].pc = "init" /\ (Goto(q, "add") \/ NextStage(q))
    <3>1. \E K : IF K = {} THEN NextStage(q) ELSE Goto(q, "add")
      BY <1>6 DEF InitStage
    <3>2. QED
      BY <1>6, <3>1 DEF InitStage
  <2>2. CASE Goto(q, "add")
    BY <1>t, <1>1, <1>6, <2>1, <2>2, GotoEffect DEF Moves, SameStage, Pc
  <2>3. CASE NextStage(q)
    BY <1>t, <1>1, <2>1, <2>3, NextStageEffect DEF Moves, SameStage
  <2>4. QED
    BY <2>1, <2>2, <2>3
<1>7. ASSUME NEW q \in Runs, AddTask(q) PROVE \A p \in Runs : Moves(p)
  <2>1. run[q].pc = "add" /\ \E c \in {"add", "wait"} : Goto(q, c)
    BY <1>7 DEF AddTask, Track
  <2>2. QED
    BY <1>t, <1>1, <2>1, GotoEffect DEF Moves, SameStage, Pc, Active
<1>8. ASSUME NEW q \in Runs, Receive(q) PROVE \A p \in Runs : Moves(p)
  <2>1. run[q].pc = "wait" /\ (Goto(q, "fail") \/ NextStage(q) \/ UNCHANGED run)
    BY <1>8 DEF Receive
  <2>2. CASE NextStage(q)
    BY <1>t, <1>1, <2>1, <2>2, NextStageEffect DEF Moves, SameStage
  <2>3. QED
    BY <1>2, <1>5, <2>1, <2>2 DEF Active
<1>9. ASSUME NEW q \in Runs, Expire(q) PROVE \A p \in Runs : Moves(p)
  <2>1. /\ \A p \in Runs \ {q} : run'[p] = run[p]
        /\ run'[q].pc = run[q].pc /\ run'[q].stage = run[q].stage /\ run[q].pc # "idle"
    BY <1>t, <1>9 DEF Expire, RunOK, RunRec
  <2>2. QED
    BY <1>1, <2>1 DEF Moves, SameStage, Active
<1>10. ASSUME NEW q \in Runs, Complete(q) \/ Fail(q) PROVE \A p \in Runs : Moves(p)
  <2>1. run'[q].pc = "idle" /\ \A p \in Runs \ {q} : run'[p] = run[p]
    BY <1>t, <1>10, EndRunEffect DEF Complete, Fail, Report
  <2>2. QED
    BY <1>1, <2>1 DEF Moves
<1>11. ASSUME NEW o \in Operators, Restart(o) PROVE \A p \in Runs : Moves(p)
  BY <1>t, <1>1, <1>11 DEF Restart, Moves
<1>12. ASSUME NEW q \in Runs, GetBackupFails(q) \/ InitStageFails(q) \/ WaitFails(q)
       PROVE  \A p \in Runs : Moves(p)
  BY <1>5, <1>12 DEF GetBackupFails, InitStageFails, WaitFails, Active
<1>13. QED
  BY <1>2, <1>3, <1>4, <1>6, <1>7, <1>8, <1>9, <1>10, <1>11, <1>12
     DEF Next, Handler, vars, runVars, CreateRestore, EditRestore, DeleteRestore, Deliver, Skip,
     StartFails, TaskEnds, WatchGap, Stop

-----------------------------------------------------------------------------
(* A run holds its Restore alone, in a phase nobody starts from.           *)
Held == CacheHonest /\ RunsHold /\ RunsApart /\ StagesKnown

LEMMA VersionsGrow ==
  ASSUME TypeOK, Held, [Next]_vars, NEW r \in Restores
  PROVE  /\ Len(versions[r]) \in Nat /\ Len(versions'[r]) \in Nat
         /\ Len(versions[r]) <= Len(versions'[r])
         /\ \A i \in 1 .. Len(versions[r]) : versions'[r][i] = versions[r][i]
<1>1. Len(versions[r]) \in Nat
  BY PhaseType
<1>2. CASE UNCHANGED versions
  BY <1>1, <1>2
<1>3. ASSUME NEW q \in Restores, NEW v \in VersionPhase, Write(q, v)
      PROVE  /\ Len(versions'[r]) \in Nat /\ Len(versions[r]) <= Len(versions'[r])
             /\ \A i \in 1 .. Len(versions[r]) : versions'[r][i] = versions[r][i]
  <2>1. CASE q = r
    BY <1>1, <1>3, <2>1, WriteEffect
  <2>2. CASE q # r
    <3>1. versions'[r] = versions[r]
      BY <1>3, <2>2, WriteEffect
    <3>2. QED
      BY <1>1, <3>1
  <2>3. QED
    BY <2>1, <2>2
<1>4. QED
  BY <1>1, <1>2, <1>3, WhoWrites DEF Held

LEMMA CacheStep ==
  ASSUME TypeOK, Held, [Next]_vars
  PROVE  CacheHonest'
<1>t. /\ cache \in [Runs -> [known : BOOLEAN, seen : Nat, phase : VersionPhase]]
      /\ \A p \in Runs : Rs(p) \in Restores
  BY RunParts DEF TypeOK, VersionPhase
<1>1. ASSUME NEW p \in Runs, cache'[p] = cache[p] \/ cache'[p].phase # "New",
             cache'[p].phase = "New"
      PROVE  /\ cache'[p].seen \in 1 .. Len(versions'[Rs(p)])
             /\ versions'[Rs(p)][cache'[p].seen] = "New"
  <2>1. cache'[p] = cache[p]
    BY <1>1
  <2>2. cache[p].seen \in 1 .. Len(versions[Rs(p)]) /\ versions[Rs(p)][cache[p].seen] = "New"
    BY <1>1, <2>1 DEF Held, CacheHonest
  <2>3. QED
    BY <1>t, <2>1, <2>2, VersionsGrow
<1>2. ASSUME NEW q \in Runs, Deliver(q) PROVE CacheHonest'
  <2> DEFINE r == Rs(q)
  <2>1. PICK v \in {cache[q].seen + 1, Len(versions[r])} :
          cache' = [cache EXCEPT ![q] = [known |-> TRUE, seen |-> v, phase |-> versions[r][v]]]
    BY <1>2 DEF Deliver
  <2>2. v \in 1 .. Len(versions[r]) /\ versions' = versions
    BY <1>t, <1>2, <2>1, PhaseType DEF Deliver
  <2>3. cache'[q].seen = v /\ cache'[q].phase = versions[r][v]
    BY <1>t, <2>1
  <2>4. \A p \in Runs \ {q} : cache'[p] = cache[p]
    BY <1>t, <2>1
  <2>5. QED
    BY <1>1, <2>2, <2>3, <2>4 DEF CacheHonest
<1>3. CASE \A p \in Runs : cache'[p] = cache[p] \/ cache'[p].phase # "New"
  BY <1>1, <1>3 DEF CacheHonest
<1>4. ASSUME NEW q \in Runs, Start(q) \/ StartFails(q) PROVE CacheHonest'
  <2>1. cache' = [cache EXCEPT ![q].phase = "InProgress"]
    BY <1>4 DEF Start, StartFails, TakeUp
  <2>2. QED
    BY <1>t, <1>3, <2>1
<1>5. ASSUME NEW o \in Operators, Restart(o) PROVE CacheHonest'
  BY <1>t, <1>3, <1>5 DEF Restart
<1>6. QED
  BY <1>2, <1>3, <1>4, <1>5 DEF Next, Handler, vars, CreateRestore, EditRestore, DeleteRestore,
     Skip, GetBackup, GetBackupFails, InitStage, InitStageFails, AddTask, Receive, WaitFails,
     Expire, Complete, Fail, Report, TaskEnds, WatchGap, Stop

(* A run that is active afterwards was so before, or starts in this step.  *)
LEMMA ActiveMoves ==
  ASSUME NEW p \in Runs, Moves(p), Active(p)'
  PROVE  Active(p) \/ Start(p)
BY DEF Moves, Active

LEMMA HeldStep ==
  ASSUME TypeOK, Held, [Next]_vars
  PROVE  Held'
<1>t. RunOK /\ \A p \in Runs : Moves(p) /\ Rs(p) \in Restores
  BY RunsMove, RunParts DEF TypeOK, RunOK
<1>1. CacheHonest'
  BY CacheStep
<1>2. ASSUME NEW p \in Runs, Start(p)
      PROVE  /\ Phase(Rs(p)) = "New" /\ Phase(Rs(p))' = "InProgress"
             /\ \A q \in Runs : Active(q) => Rs(q) # Rs(p)
             /\ \A q \in Runs \ {p} : run'[q] = run[q]
  <2>1. Phase(Rs(p)) = "New"
    BY <1>2, StartIsFirst DEF Held, Start, TakeUp
  <2>2. Phase(Rs(p))' = "InProgress"
    BY <1>t, <1>2, WriteEffect DEF Start, VersionPhase, Pending
  <2>3. QED
    BY <1>t, <1>2, <2>1, <2>2 DEF Held, RunsHold, Start, RunOK
<1>3. RunsApart'
  <2> SUFFICES ASSUME NEW p \in Runs, NEW q \in Runs, Active(p)', Active(q)', Rs(p) = Rs(q)
               PROVE  p = q
    BY DEF RunsApart
  <2>1. CASE Active(p) /\ Active(q)
    BY <2>1 DEF Held, RunsApart
  <2>2. CASE Start(p)
    BY <1>t, <1>2, <2>2, ActiveMoves DEF Active
  <2>3. CASE Start(q)
    BY <1>t, <1>2, <2>3, ActiveMoves DEF Active
  <2>4. QED
    BY <1>t, <2>1, <2>2, <2>3, ActiveMoves
<1>4. RunsHold'
  <2> SUFFICES ASSUME NEW p \in Runs, Active(p)'
               PROVE  Phase(Rs(p))' \in {"InProgress", "Gone"}
    BY DEF RunsHold
  <2>1. CASE Start(p)
    BY <1>2, <2>1
  <2>2. CASE Active(p)
    <3>1. Phase(Rs(p)) \in {"InProgress", "Gone"}
      BY <2>2 DEF Held, RunsHold
    <3>2. CASE UNCHANGED versions
      BY <3>1, <3>2 DEF Phase
    <3>3. ASSUME NEW r \in Restores, NEW v \in VersionPhase, Write(r, v), Follows(r, v)
          PROVE  Phase(Rs(p))' \in {"InProgress", "Gone"}
      <4>1. CASE r # Rs(p)
        BY <1>t, <3>1, <3>3, <4>1, WriteEffect
      <4>2. CASE r = Rs(p)
        <5>1. Phase(r)' = v
          BY <3>3, WriteEffect
        <5>2. ~Outcome(r, v)
          <6> SUFFICES ASSUME NEW q \in Runs, Rs(q) = r, Active(q), EndRun(q) PROVE FALSE
            BY DEF Outcome
          <6>1. q = p
            BY <2>2, <4>2 DEF Held, RunsApart
          <6>2. run'[p].pc = "idle"
            BY <1>t, <6>1, IdleType DEF EndRun, RunOK
          <6>3. QED
            BY <6>2 DEF Active
        <5>3. QED
          BY <3>1, <3>3, <4>2, <5>1, <5>2 DEF Follows
      <4>3. QED
        BY <4>1, <4>2
    <3>4. QED
      BY <3>2, <3>3, WhoWrites DEF Held
  <2>3. QED
    BY <1>t, <2>1, <2>2, ActiveMoves
<1>5. StagesKnown'
  BY <1>t DEF Held, StagesKnown, Moves, SameStage, Active
<1>6. QED
  BY <1>1, <1>3, <1>4, <1>5 DEF Held

-----------------------------------------------------------------------------
(* Tasks: each has the name its snapshot calls for, and a snapshot has one *)
(* task at most, because a stage comes once and lists a snapshot once.     *)
TasksInv == TasksHonest /\ Untouched /\ TodoFresh /\ PlayedOnce

(* Steps that change a task.                                               *)
Created(p, j, n) ==
  /\ AddTask(p) /\ j \in todo[p] /\ todo'[p] = todo[p] \ {j}
  /\ n[1] = Rs(p) /\ n[2] = Key(j) /\ tasks[n] = NoTask
  /\ tasks' = [tasks EXCEPT ![n] = [src |-> j, phase |-> "Pending"]]
EndsAs(n, e) ==
  /\ TaskEnds(n) /\ tasks[n].phase = "Pending"
  /\ tasks' = [tasks EXCEPT ![n] = [src |-> tasks[n].src, phase |-> e]]
  /\ e = "Completed" => tasks[n].src[2]

LEMMA TasksMove ==
  ASSUME TypeOK, [Next]_vars
  PROVE  \/ UNCHANGED tasks
         \/ \E p \in Runs, j \in Jobs, n \in Names : Created(p, j, n)
         \/ \E n \in Names, e \in Ended : EndsAs(n, e)
<1>1. ASSUME NEW p \in Runs, AddTask(p)
      PROVE  UNCHANGED tasks \/ \E j \in Jobs, n \in Names : Created(p, j, n)
  <2>1. PICK j \in todo[p], n \in Names :
          /\ j \in Jobs /\ n[1] = Rs(p) /\ n[2] = Key(j)
          /\ CreateTask(p, j, n) \/ CreateTaskFails(n)
          /\ Track(p, j, n)
    BY <1>1, AddTaskEffect
  <2>2. todo'[p] = todo[p] \ {j}
    BY <2>1 DEF Track, TypeOK
  <2>3. QED
    BY <1>1, <2>1, <2>2 DEF CreateTask, CreateTaskFails, Created
<1>2. ASSUME NEW n \in Names, TaskEnds(n) PROVE \E e \in Ended : EndsAs(n, e)
  <2>1. PICK e \in Ended : /\ e = "Completed" => tasks[n].src[2]
                           /\ tasks' = [tasks EXCEPT ![n].phase = e]
    BY <1>2 DEF TaskEnds
  <2>2. [tasks[n] EXCEPT !.phase = e] = [src |-> tasks[n].src, phase |-> e]
    BY DEF TypeOK, TaskRec
  <2>3. QED
    BY <1>2, <2>1, <2>2 DEF EndsAs, TaskEnds
<1>3. ASSUME NEW p \in Runs, Handler(p), ~AddTask(p) PROVE UNCHANGED tasks
  BY <1>3 DEF Handler, Skip, Start, StartFails, GetBackup, GetBackupFails, InitStage,
     InitStageFails, Receive, WaitFails, Complete, Fail, Report
<1>4. QED
  BY <1>1, <1>2, <1>3 DEF Next, vars, CreateRestore, EditRestore, DeleteRestore, Deliver,
     Expire, WatchGap, Stop, Restart

LEMMA CreatedEffect ==
  ASSUME TypeOK, NEW p \in Runs, NEW j \in Jobs, NEW n \in Names, Created(p, j, n)
  PROVE  /\ tasks'[n] = [src |-> j, phase |-> "Pending"]
         /\ \A m \in Names \ {n} : tasks'[m] = tasks[m]
         /\ tasks'[n] # NoTask /\ tasks[n].phase = "Absent"
         /\ run[p].pc = "add"
BY DEF Created, TypeOK, NoTask, AddTask

LEMMA EndsEffect ==
  ASSUME TypeOK, NEW n \in Names, NEW e \in Ended, EndsAs(n, e)
  PROVE  /\ tasks'[n] = [src |-> tasks[n].src, phase |-> e]
         /\ \A m \in Names \ {n} : tasks'[m] = tasks[m]
         /\ tasks'[n] # NoTask /\ tasks[n] # NoTask /\ tasks'[n].src = tasks[n].src
BY DEF EndsAs, TypeOK, NoTask, Ended

LEMMA HasTaskMoves ==
  ASSUME TypeOK, [Next]_vars, NEW r \in Restores, NEW s \in Snapshots, HasTask(r, s)'
  PROVE  \/ HasTask(r, s)
         \/ \E p \in Runs, j \in Jobs, n \in Names : Created(p, j, n) /\ Rs(p) = r /\ j[1] = s
<1>1. PICK m \in Names : m[1] = r /\ tasks'[m] # NoTask /\ tasks'[m].src[1] = s
  BY DEF HasTask
<1>2. CASE UNCHANGED tasks
  BY <1>1, <1>2 DEF HasTask
<1>3. ASSUME NEW p \in Runs, NEW j \in Jobs, NEW n \in Names, Created(p, j, n)
      PROVE  HasTask(r, s) \/ (Rs(p) = r /\ j[1] = s)
  <2>1. CASE m = n
    BY <1>1, <1>3, <2>1, CreatedEffect DEF Created
  <2>2. CASE m # n
    <3>1. tasks[m] = tasks'[m]
      BY <1>3, <2>2, CreatedEffect
    <3>2. QED
      BY <1>1, <3>1 DEF HasTask
  <2>3. QED
    BY <2>1, <2>2
<1>4. ASSUME NEW n \in Names, NEW e \in Ended, EndsAs(n, e) PROVE HasTask(r, s)
  <2>1. tasks[m] # NoTask /\ tasks[m].src = tasks'[m].src
    BY <1>1, <1>4, EndsEffect
  <2>2. QED
    BY <1>1, <2>1 DEF HasTask
<1>5. QED
  BY <1>2, <1>3, <1>4, TasksMove

(* What a stage begins with.                                               *)
LEMMA InitStageEffect ==
  ASSUME TypeOK, NEW p \in Runs, InitStage(p)
  PROVE  /\ todo'[p] \subseteq Jobs
         /\ \A j \in todo'[p] :
              /\ From[j[1]] = Source[Rs(p)] /\ StageOf(Target(j)) = run[p].stage
              /\ \A k \in todo'[p] : k[1] = j[1] => k = j
         /\ used'["lag"] = 0 =>
              \A s \in Snapshots :
                From[s] = Source[Rs(p)] /\ StageOf(Of[s]) = run[p].stage /\ snaps'[s] = "Completed"
                  => \E k \in todo'[p] : Target(k) = Of[s]
         /\ IF todo'[p] = {} THEN NextStage(p) ELSE Goto(p, "add")
<1> DEFINE b == Source[Rs(p)]
           st == run[p].stage
<1>1. PICK view \in Views(snaps') :
        /\ IF view = snaps' THEN UNCHANGED used ELSE Spend("lag")
        /\ \E K \in Kept(Listed(b, st, view), st) :
             /\ todo' = [todo EXCEPT ![p] = K]
             /\ IF K = {} THEN NextStage(p) ELSE Goto(p, "add")
  BY DEF InitStage
<1>2. PICK K \in Kept(Listed(b, st, view), st) :
        /\ todo' = [todo EXCEPT ![p] = K]
        /\ IF K = {} THEN NextStage(p) ELSE Goto(p, "add")
  BY <1>1
<1>3. todo'[p] = K
  BY <1>2 DEF TypeOK
<1>4. /\ K \subseteq Listed(b, st, view)
      /\ \A j \in Listed(b, st, view) : \E k \in K : Target(k) = Target(j)
  BY DEF Kept
<1>5. \A s \in Snapshots : <<s, view[s] = "Completed">> \in Jobs
  <2>1. \A s \in Snapshots : (view[s] = "Completed") \in BOOLEAN
    BY Zenon
  <2>2. \A s \in Snapshots, x \in BOOLEAN : <<s, x>> \in Jobs
    BY DEF Jobs
  <2>3. QED
    BY <2>1, <2>2, Zenon
<1>6. ASSUME NEW j \in K
      PROVE  \E s \in Snapshots : /\ j = <<s, view[s] = "Completed">>
                                  /\ From[s] = b /\ StageOf(Of[s]) = st
  BY <1>4 DEF Listed
<1>7. K \subseteq Jobs
  BY <1>5, <1>6
<1>8. ASSUME NEW j \in K PROVE From[j[1]] = b /\ StageOf(Target(j)) = st
  BY <1>6 DEF Target
<1>9. ASSUME NEW j \in K, NEW k \in K, k[1] = j[1] PROVE k = j
  <2>1. PICK s \in Snapshots : j = <<s, view[s] = "Completed">>
    BY <1>6
  <2>2. PICK x \in Snapshots : k = <<x, view[x] = "Completed">>
    BY <1>6
  <2>3. x = s
    <3>1. k[1] = x /\ j[1] = s
      BY <2>1, <2>2, Zenon
    <3>2. QED
      BY <1>9, <3>1
  <2>4. QED
    BY <2>1, <2>2, <2>3, Zenon
<1>10. ASSUME used'["lag"] = 0, NEW s \in Snapshots, From[s] = b, StageOf(Of[s]) = st,
              snaps'[s] = "Completed"
       PROVE  \E k \in K : Target(k) = Of[s]
  <2>1. view = snaps'
    <3>1. ~Spend("lag")
      BY <1>10, KindsAssumption DEF Spend, OneMore, TypeOK
    <3>2. QED
      BY <1>1, <3>1
  <2>2. <<s, view[s] = "Completed">> \in Listed(b, st, view)
    <3>1. view[s] # "Absent"
      BY <1>10, <2>1
    <3>2. QED
      BY <1>10, <3>1, Zenon DEF Listed
  <2>3. Target(<<s, view[s] = "Completed">>) = Of[s]
    BY Zenon DEF Target
  <2>4. QED
    BY <1>4, <2>2, <2>3
<1>11. QED
  BY <1>2, <1>3, <1>7, <1>8, <1>9, <1>10


LEMMA TodoShrinks ==
  ASSUME TypeOK, [Next]_vars, NEW p \in Runs
  PROVE  InitStage(p) \/ todo'[p] \subseteq todo[p]
<1>t. RunOK /\ WorkOK
  BY DEF TypeOK, RunOK, WorkOK
<1>1. ASSUME NEW q \in Runs, InitStage(q), q # p PROVE todo'[p] = todo[p]
  <2>1. \E K : todo' = [todo EXCEPT ![q] = K]
    BY <1>1 DEF InitStage
  <2>2. QED
    BY <1>t, <1>1, <2>1 DEF WorkOK
<1>2. ASSUME NEW q \in Runs, AddTask(q) PROVE todo'[p] \subseteq todo[p]
  <2>1. \E j : todo' = [todo EXCEPT ![q] = @ \ {j}]
    BY <1>2 DEF AddTask, Track
  <2>2. QED
    BY <1>t, <2>1 DEF WorkOK
<1>3. ASSUME NEW q \in Runs, Complete(q) \/ Fail(q) PROVE todo'[p] \subseteq todo[p]
  BY <1>t, <1>3, EndRunEffect DEF Complete, Fail, Report
<1>4. ASSUME NEW o \in Operators, Restart(o) PROVE todo'[p] \subseteq todo[p]
  BY <1>t, <1>4 DEF Restart, WorkOK
<1>5. ASSUME NEW q \in Runs, Handler(q), ~InitStage(q), ~AddTask(q), ~Complete(q), ~Fail(q)
      PROVE  UNCHANGED todo
  BY <1>5 DEF Handler, Skip, Start, StartFails, GetBackup, GetBackupFails, InitStageFails,
     Receive, WaitFails, runVars
<1>6. QED
  BY <1>1, <1>2, <1>3, <1>4, <1>5 DEF Next, vars, runVars, CreateRestore, EditRestore,
     DeleteRestore, Deliver, Expire, TaskEnds, WatchGap, Stop

LEMMA TasksInvStep ==
  ASSUME TypeOK, Held, TasksInv, [Next]_vars
  PROVE  TasksInv'
<1>t. /\ Held' /\ \A p \in Runs : Moves(p) /\ Rs(p) \in Restores
      /\ \A s \in Snapshots : Of[s] \in Targets
  BY HeldStep, RunsMove, RunParts, SnapshotAssumption
<1>c. ASSUME NEW p \in Runs, NEW j \in Jobs, NEW n \in Names, Created(p, j, n)
      PROVE  /\ run[p].pc = "add" /\ Active(p) /\ j[1] \in Snapshots
             /\ From[j[1]] = Source[Rs(p)] /\ StageOf(Target(j)) = run[p].stage
             /\ ~HasTask(Rs(p), j[1])
             /\ \A k \in todo[p] : k[1] = j[1] => k = j
  <2>1. run[p].pc = "add" /\ j \in todo[p] /\ j[1] \in Snapshots
    BY <1>c, CreatedEffect, KeyType DEF Created
  <2>2. QED
    BY <2>1 DEF TasksInv, TodoFresh, Active
<1>1. TasksHonest'
  <2> SUFFICES ASSUME NEW n \in Names, tasks'[n] # NoTask
               PROVE  LET j == tasks'[n].src IN
                      /\ j \in Jobs /\ From[j[1]] = Source[n[1]] /\ Key(j) = n[2]
                      /\ tasks'[n].phase = "Completed" => j[2]
    BY DEF TasksHonest, Key
  <2>1. CASE tasks'[n] = tasks[n]
    BY <2>1 DEF TasksInv, TasksHonest
  <2>2. ASSUME NEW p \in Runs, NEW j \in Jobs, Created(p, j, n)
        PROVE  /\ tasks'[n].src = j /\ tasks'[n].phase = "Pending"
               /\ From[j[1]] = Source[n[1]] /\ Key(j) = n[2]
    <3>1. tasks'[n] = [src |-> j, phase |-> "Pending"]
      BY <2>2, CreatedEffect
    <3>2. n[1] = Rs(p) /\ n[2] = Key(j)
      BY <2>2 DEF Created
    <3>3. From[j[1]] = Source[Rs(p)]
      BY <1>c, <2>2
    <3>4. QED
      BY <3>1, <3>2, <3>3
  <2>3. ASSUME NEW e \in Ended, EndsAs(n, e)
        PROVE  /\ tasks[n] # NoTask /\ tasks'[n].src = tasks[n].src
               /\ tasks'[n].phase = "Completed" => tasks[n].src[2]
    <3>1. tasks'[n] = [src |-> tasks[n].src, phase |-> e] /\ tasks[n] # NoTask
      BY <2>3, EndsEffect
    <3>2. e = "Completed" => tasks[n].src[2]
      BY <2>3 DEF EndsAs
    <3>3. QED
      BY <3>1, <3>2
  <2>4. \/ tasks'[n] = tasks[n]
        \/ \E p \in Runs, j \in Jobs : Created(p, j, n)
        \/ \E e \in Ended : EndsAs(n, e)
    BY TasksMove, CreatedEffect, EndsEffect
  <2>5. QED
    BY <2>1, <2>2, <2>3, <2>4 DEF TasksInv, TasksHonest
<1>2. Untouched'
  <2>1. ASSUME NEW r \in Restores, NEW s \in Snapshots, Phase(r)' \in {"Absent", "New"},
               HasTask(r, s)'
        PROVE  FALSE
    <3>1. Phase(r) \in {"Absent", "New"}
      <4>1. CASE UNCHANGED versions
        BY <2>1, <4>1 DEF Phase
      <4>2. ASSUME NEW q \in Restores, NEW v \in VersionPhase, Write(q, v), Follows(q, v)
            PROVE  Phase(r) \in {"Absent", "New"}
        <5>1. CASE q = r
          <6>1. v \in {"Absent", "New"}
            BY <2>1, <4>2, <5>1, WriteEffect
          <6>2. QED
            BY <4>2, <5>1, <6>1 DEF Follows, Outcome, Ended
        <5>2. CASE q # r
          BY <2>1, <4>2, <5>2, WriteEffect
        <5>3. QED
          BY <5>1, <5>2
      <4>3. QED
        BY <4>1, <4>2, WhoWrites DEF Held
    <3>2. ~HasTask(r, s)
      BY <3>1 DEF TasksInv, Untouched
    <3>3. PICK p \in Runs, j \in Jobs, n \in Names : Created(p, j, n) /\ Rs(p) = r
      BY <2>1, <3>2, HasTaskMoves
    <3>4. QED
      BY <1>c, <3>1, <3>3 DEF Held, RunsHold
  <2>2. ASSUME NEW p \in Runs, NEW s \in Snapshots, Active(p)', HasTask(Rs(p), s)'
        PROVE  run'[p].stage = "volume" \/ (run'[p].stage = "db" /\ StageOf(Of[s]) = "db")
    <3>1. CASE HasTask(Rs(p), s)
      <4>1. CASE Active(p)
        <5>1. run[p].stage = "volume" \/ (run[p].stage = "db" /\ StageOf(Of[s]) = "db")
          BY <1>t, <3>1, <4>1 DEF TasksInv, Untouched
        <5>2. run'[p].stage = run[p].stage \/ run'[p].stage = "volume" \/ run'[p].stage = "db"
          BY <1>t, <2>2, <4>1 DEF Moves, SameStage, Active
        <5>3. run[p].pc # "get"
          BY <5>1 DEF Held, StagesKnown
        <5>4. run'[p].stage = "db" => run[p].stage = "db"
          BY <1>t, <2>2, <4>1, <5>1, <5>3 DEF Moves, SameStage, Active
        <5>5. QED
          BY <5>1, <5>2, <5>4
      <4>2. CASE Start(p)
        <5>1. Phase(Rs(p)) = "New"
          BY <4>2, StartIsFirst DEF Held, Start, TakeUp
        <5>2. QED
          BY <1>t, <3>1, <5>1 DEF TasksInv, Untouched
      <4>3. QED
        BY <1>t, <2>2, <4>1, <4>2, ActiveMoves
    <3>2. ASSUME NEW q \in Runs, NEW j \in Jobs, NEW n \in Names,
                 Created(q, j, n), Rs(q) = Rs(p), j[1] = s
          PROVE  run'[p].stage = "volume" \/ (run'[p].stage = "db" /\ StageOf(Of[s]) = "db")
      <4>1. Active(p)
        BY <1>c, <1>t, <2>2, <3>2, ActiveMoves, StartIsFirst DEF Held, RunsHold, Start, TakeUp
      <4>2. p = q
        BY <1>c, <3>2, <4>1 DEF Held, RunsApart
      <4>3. run[p].pc = "add" /\ run[p].stage = StageOf(Of[s])
        BY <1>c, <3>2, <4>2 DEF Target
      <4>4. SameStage(p)
        BY <1>t, <2>2, <4>3 DEF Moves, Active
      <4>5. QED
        BY <4>3, <4>4 DEF SameStage, StageOf
    <3>3. QED
      BY <1>t, <2>2, <3>1, <3>2, HasTaskMoves
  <2>3. ASSUME NEW p \in Runs, NEW s \in Snapshots, run'[p].pc = "init", HasTask(Rs(p), s)'
        PROVE  run'[p].stage = "volume" /\ StageOf(Of[s]) = "db"
    <3>1. HasTask(Rs(p), s)
      <4> SUFFICES ASSUME NEW q \in Runs, NEW j \in Jobs, NEW n \in Names,
                          Created(q, j, n), Rs(q) = Rs(p)
                   PROVE  FALSE
        BY <1>t, <2>3, HasTaskMoves
      <4>1. Active(p)
        BY <1>t, <2>3 DEF Moves, Active
      <4>2. p = q /\ run[p].pc = "add"
        BY <1>c, <4>1 DEF Held, RunsApart
      <4>3. QED
        BY <1>t, <2>3, <4>2 DEF Moves
    <3>2. Active(p)
      BY <1>t, <2>3 DEF Moves, Active
    <3>3. run[p].stage = "volume" \/ (run[p].stage = "db" /\ StageOf(Of[s]) = "db")
      BY <1>t, <3>1, <3>2 DEF TasksInv, Untouched
    <3>4. run[p].pc = "init" => run[p].stage = "volume" /\ StageOf(Of[s]) = "db"
      BY <1>t, <3>1 DEF TasksInv, Untouched
    <3>5. QED
      BY <1>t, <2>3, <3>3, <3>4 DEF Moves, SameStage, Held, StagesKnown
  <2>4. QED
    BY <2>1, <2>2, <2>3 DEF Untouched
<1>3. TodoFresh'
  <2> SUFFICES ASSUME NEW p \in Runs, run'[p].pc = "add", NEW j \in todo'[p]
               PROVE  /\ From[j[1]] = Source[Rs(p)] /\ StageOf(Target(j)) = run'[p].stage
                      /\ ~HasTask(Rs(p), j[1])'
                      /\ \A k \in todo'[p] : k[1] = j[1] => k = j
    BY DEF TodoFresh, Target, StageOf
  <2>1. CASE InitStage(p)
    <3>1. run[p].pc = "init" /\ SameStage(p) /\ UNCHANGED tasks
      BY <1>t, <2>1 DEF InitStage, Moves, Active
    <3>2. /\ j \in Jobs /\ From[j[1]] = Source[Rs(p)] /\ StageOf(Target(j)) = run[p].stage
          /\ \A k \in todo'[p] : k[1] = j[1] => k = j
      BY <2>1, InitStageEffect
    <3>3. ~HasTask(Rs(p), j[1])
      <4>1. j[1] \in Snapshots /\ Target(j) = Of[j[1]]
        BY <3>2, KeyType DEF Target
      <4>2. QED
        BY <3>1, <3>2, <4>1 DEF TasksInv, Untouched
    <3>4. QED
      BY <3>1, <3>2, <3>3 DEF HasTask, SameStage
  <2>2. CASE ~InitStage(p)
    <3>1. run[p].pc = "add" /\ SameStage(p) /\ todo'[p] \subseteq todo[p]
      BY <1>t, <2>2, TodoShrinks DEF Moves, Active
    <3>2. /\ j \in Jobs /\ From[j[1]] = Source[Rs(p)] /\ StageOf(Target(j)) = run[p].stage
          /\ ~HasTask(Rs(p), j[1])
          /\ \A k \in todo[p] : k[1] = j[1] => k = j
      BY <3>1 DEF TasksInv, TodoFresh, TypeOK
    <3>3. ASSUME NEW q \in Runs, NEW i \in Jobs, NEW n \in Names,
                 Created(q, i, n), Rs(q) = Rs(p), i[1] = j[1]
          PROVE  FALSE
      <4>1. p = q
        BY <1>c, <3>1, <3>3 DEF Held, RunsApart, Active
      <4>2. i \in todo[p] /\ i \notin todo'[p]
        BY <3>3, <4>1 DEF Created
      <4>3. QED
        BY <3>2, <3>3, <4>2
    <3>4. ~HasTask(Rs(p), j[1])'
      BY <1>t, <3>2, <3>3, KeyType, HasTaskMoves
    <3>5. QED
      BY <3>1, <3>2, <3>4 DEF SameStage
  <2>3. QED
    BY <2>1, <2>2
<1>4. PlayedOnce'
  <2>1. CASE UNCHANGED tasks
    BY <2>1 DEF TasksInv, PlayedOnce
  <2>2. ASSUME NEW p \in Runs, NEW j \in Jobs, NEW n \in Names, Created(p, j, n)
        PROVE  PlayedOnce'
    <3>1. \A m \in Names : m[1] = Rs(p) /\ tasks[m] # NoTask => tasks[m].src[1] # j[1]
      BY <1>c, <2>2 DEF HasTask
    <3>2. n[1] = Rs(p) /\ tasks'[n].src = j /\ \A m \in Names \ {n} : tasks'[m] = tasks[m]
      <4>1. n[1] = Rs(p)
        BY <2>2 DEF Created
      <4>2. tasks'[n] = [src |-> j, phase |-> "Pending"]
        BY <2>2, CreatedEffect
      <4>3. \A m \in Names \ {n} : tasks'[m] = tasks[m]
        BY <2>2, CreatedEffect
      <4>4. QED
        BY <4>1, <4>2, <4>3
    <3>3. QED
      BY <3>1, <3>2 DEF TasksInv, PlayedOnce
  <2>3. ASSUME NEW n \in Names, NEW e \in Ended, EndsAs(n, e) PROVE PlayedOnce'
    <3>1. \A m \in Names : tasks'[m].src = tasks[m].src /\ (tasks'[m] # NoTask => tasks[m] # NoTask)
      BY <2>3, EndsEffect
    <3>2. QED
      BY <3>1 DEF TasksInv, PlayedOnce
  <2>4. QED
    BY <2>1, <2>2, <2>3, TasksMove
<1>5. QED
  BY <1>1, <1>2, <1>3, <1>4 DEF TasksInv

-----------------------------------------------------------------------------
(* Reports: an informer reports tasks of its Restore, when they have ended.*)
ReportsInv == WatchSound /\ EventsSound

(* Steps that leave tasks alone and do not add to what informers hold.     *)
LEMMA ReportsQuiet ==
  ASSUME TypeOK, ReportsInv, UNCHANGED tasks,
         \A p \in Runs : watched'[p] \subseteq watched[p],
         \A p \in Runs : events'[p] \in {events[p], <<>>}
                            \/ (events[p] # <<>> /\ events'[p] = Tail(events[p]))
  PROVE  ReportsInv'
<1>1. WatchSound'
  BY DEF ReportsInv, WatchSound
<1>2. ASSUME NEW p \in Runs, NEW i \in 1 .. Len(events'[p])
      PROVE  events'[p][i][1] = Rs(p) /\ tasks'[events'[p][i]].phase \in Ended
  <2>1. events[p] \in Seq(Names)
    BY DEF TypeOK
  <2>2. CASE events'[p] = events[p]
    BY <1>2, <2>2 DEF ReportsInv, EventsSound
  <2>3. CASE events'[p] = <<>>
    BY <1>2, <2>3
  <2>4. CASE events[p] # <<>> /\ events'[p] = Tail(events[p])
    <3>1. i + 1 \in 1 .. Len(events[p]) /\ events'[p][i] = events[p][i + 1]
      BY <1>2, <2>1, <2>4
    <3>2. QED
      BY <3>1 DEF ReportsInv, EventsSound
  <2>5. QED
    BY <2>2, <2>3, <2>4
<1>3. QED
  BY <1>1, <1>2 DEF ReportsInv, EventsSound

LEMMA ReportsAddTask ==
  ASSUME TypeOK, ReportsInv, NEW p \in Runs, AddTask(p)
  PROVE  ReportsInv'
<1>1. PICK j \in todo[p], n \in Names :
        /\ n[1] = Rs(p)
        /\ CreateTask(p, j, n) \/ CreateTaskFails(n)
  BY AddTaskEffect
<1>2. UNCHANGED events
  BY DEF AddTask
<1>3. CASE CreateTaskFails(n)
  BY <1>2, <1>3, ReportsQuiet DEF CreateTaskFails
<1>4. CASE CreateTask(p, j, n)
  <2>1. /\ tasks[n].phase = "Absent" /\ tasks'[n] = [src |-> j, phase |-> "Pending"]
        /\ \A m \in Names \ {n} : tasks'[m] = tasks[m]
    BY <1>4 DEF CreateTask, TypeOK, NoTask
  <2>2. \A q \in Runs : watched'[q] = watched[q] \/ (q = p /\ watched'[q] = watched[q] \cup {n})
    BY <1>4 DEF CreateTask, TypeOK
  <2>3. ASSUME NEW q \in Runs, NEW m \in watched'[q]
        PROVE  m[1] = Rs(q) /\ tasks'[m].phase = "Pending"
    <3>1. CASE m \in watched[q]
      <4>1. m \in Names /\ m[1] = Rs(q) /\ tasks[m].phase = "Pending"
        BY <3>1 DEF TypeOK, ReportsInv, WatchSound
      <4>2. m # n
        BY <2>1, <4>1
      <4>3. QED
        BY <2>1, <4>1, <4>2
    <3>2. CASE m \notin watched[q]
      <4>1. m = n /\ q = p
        BY <2>2, <2>3, <3>2
      <4>2. QED
        BY <1>1, <2>1, <4>1
    <3>3. QED
      BY <3>1, <3>2
  <2>4. ASSUME NEW q \in Runs, NEW i \in 1 .. Len(events[q])
        PROVE  events[q][i][1] = Rs(q) /\ tasks'[events[q][i]].phase \in Ended
    <3>1. /\ events[q][i] \in Names
          /\ events[q][i][1] = Rs(q) /\ tasks[events[q][i]].phase \in Ended
      BY DEF TypeOK, ReportsInv, EventsSound
    <3>2. events[q][i] # n
      BY <2>1, <3>1 DEF Ended
    <3>3. QED
      BY <2>1, <3>1, <3>2
  <2>5. QED
    BY <1>2, <2>3, <2>4 DEF ReportsInv, WatchSound, EventsSound
<1>5. QED
  BY <1>1, <1>3, <1>4

LEMMA ReportsTaskEnds ==
  ASSUME TypeOK, ReportsInv, NEW n \in Names, NEW e \in Ended, EndsAs(n, e)
  PROVE  ReportsInv'
<1>1. /\ tasks'[n] = [src |-> tasks[n].src, phase |-> e] /\ tasks[n].phase = "Pending"
      /\ \A m \in Names \ {n} : tasks'[m] = tasks[m]
  <2>1. tasks[n].phase = "Pending"
    BY DEF EndsAs
  <2>2. QED
    BY <2>1, EndsEffect
<1>2. \A q \in Runs : /\ watched'[q] = watched[q] \ {n}
                       /\ events'[q] = IF n \in watched[q] THEN Append(events[q], n) ELSE events[q]
  BY DEF EndsAs, TaskEnds
<1>3. WatchSound'
  <2>1. ASSUME NEW q \in Runs, NEW m \in watched'[q]
        PROVE  m[1] = Rs(q) /\ tasks'[m].phase = "Pending"
    BY <1>1, <1>2, <2>1 DEF TypeOK, ReportsInv, WatchSound
  <2>2. QED
    BY <2>1 DEF WatchSound
<1>4. ASSUME NEW q \in Runs, NEW i \in 1 .. Len(events'[q])
      PROVE  events'[q][i][1] = Rs(q) /\ tasks'[events'[q][i]].phase \in Ended
  <2>1. events[q] \in Seq(Names)
    BY DEF TypeOK
  <2>2. CASE i \in 1 .. Len(events[q]) /\ events'[q][i] = events[q][i]
    <3>1. /\ events[q][i] \in Names
          /\ events[q][i][1] = Rs(q) /\ tasks[events[q][i]].phase \in Ended
      BY <2>1, <2>2 DEF ReportsInv, EventsSound
    <3>2. QED
      BY <1>1, <2>2, <3>1
  <2>3. CASE n \in watched[q] /\ events'[q][i] = n
    <3>1. n[1] = Rs(q)
      BY <2>3 DEF ReportsInv, WatchSound
    <3>2. QED
      BY <1>1, <2>3, <3>1
  <2>4. CASE n \in watched[q]
    <3>1. events'[q] = Append(events[q], n)
      BY <1>2, <2>4
    <3>2. i \in 1 .. Len(events[q]) \/ i = Len(events[q]) + 1
      BY <1>4, <2>1, <3>1
    <3>3. QED
      BY <2>1, <2>2, <2>3, <2>4, <3>1, <3>2
  <2>5. CASE n \notin watched[q]
    BY <1>2, <1>4, <2>2, <2>5
  <2>6. QED
    BY <2>4, <2>5
<1>5. QED
  BY <1>3, <1>4 DEF ReportsInv, EventsSound

LEMMA ReportsStep ==
  ASSUME TypeOK, ReportsInv, [Next]_vars
  PROVE  ReportsInv'
<1>t. RunOK /\ WorkOK
  BY DEF TypeOK, RunOK, WorkOK
<1>1. CASE UNCHANGED <<tasks, watched, events>>
  BY <1>1, ReportsQuiet
<1>2. ASSUME NEW p \in Runs, AddTask(p) PROVE ReportsInv'
  BY <1>2, ReportsAddTask
<1>3. ASSUME NEW n \in Names, TaskEnds(n) PROVE ReportsInv'
  <2>1. ~UNCHANGED tasks
    <3>1. PICK e \in Ended : tasks' = [tasks EXCEPT ![n].phase = e]
      BY <1>3 DEF TaskEnds
    <3>2. tasks'[n].phase = e /\ tasks[n].phase = "Pending" /\ e # "Pending"
      BY <1>3, <3>1 DEF TaskEnds, TypeOK, TaskRec, Ended
    <3>3. QED
      BY <3>2
  <2>2. \A p \in Runs, j \in Jobs, m \in Names : ~Created(p, j, m)
    <3> SUFFICES ASSUME NEW p \in Runs, NEW j \in Jobs, NEW m \in Names, Created(p, j, m)
                 PROVE  FALSE
      OBVIOUS
    <3>1. UNCHANGED todo
      BY <1>3 DEF TaskEnds
    <3>2. QED
      BY <3>1 DEF Created
  <2>3. \E m \in Names, e \in Ended : EndsAs(m, e)
    BY <2>1, <2>2, TasksMove
  <2>4. QED
    BY <2>3, ReportsTaskEnds
<1>4. ASSUME NEW p \in Runs, InitStage(p) \/ Receive(p) PROVE ReportsInv'
  BY <1>t, <1>4, ReportsQuiet DEF InitStage, Receive, WorkOK
<1>5. ASSUME NEW p \in Runs, Complete(p) \/ Fail(p) PROVE ReportsInv'
  <2>1. UNCHANGED tasks /\ EndRun(p)
    BY <1>5 DEF Complete, Fail, Report
  <2>2. QED
    BY <1>t, <2>1, ReportsQuiet, EndRunEffect
<1>6. ASSUME NEW p \in Runs, Expire(p) PROVE ReportsInv'
  BY <1>t, <1>6, ReportsQuiet DEF Expire, WorkOK
<1>7. ASSUME NEW p \in Runs, NEW n \in Names, WatchGap(p, n) PROVE ReportsInv'
  BY <1>t, <1>7, ReportsQuiet DEF WatchGap, WorkOK
<1>8. ASSUME NEW o \in Operators, Restart(o) PROVE ReportsInv'
  BY <1>t, <1>8, ReportsQuiet DEF Restart, WorkOK
<1>9. QED
  BY <1>1, <1>2, <1>3, <1>4, <1>5, <1>6, <1>7, <1>8 DEF Next, Handler, vars, runVars,
     CreateRestore, EditRestore, DeleteRestore, Deliver, Skip, Start, StartFails, GetBackup,
     GetBackupFails, InitStageFails, WaitFails, Stop

-----------------------------------------------------------------------------
(* Completeness: what a Backup has is followed from "to do" over "waited   *)
(* for" to "played back", one run at a time.                               *)
SoundAt(p) ==
  Owed(p) =>
    /\ run[p].pc \in {"add", "wait"} =>
         Due(p, run[p].stage) \subseteq
           {Target(j) : j \in todo[p]} \cup Awaited(p) \cup PlayedBack(Rs(p))
    /\ run[p].pc = "wait" => todo[p] = {}
    /\ Active(p) /\ run[p].stage = "volume" => Due(p, "db") \subseteq PlayedBack(Rs(p))
    /\ run[p].pc = "complete" => Selected[Source[Rs(p)]] \subseteq PlayedBack(Rs(p))

LEMMA PlayedBackGrows ==
  ASSUME TypeOK, [Next]_vars, NEW r \in Restores
  PROVE  PlayedBack(r) \subseteq PlayedBack(r)'
<1>1. ASSUME NEW m \in Names, tasks[m].phase = "Completed" PROVE tasks'[m] = tasks[m]
  <2>1. ASSUME NEW p \in Runs, NEW j \in Jobs, NEW n \in Names, Created(p, j, n)
        PROVE  tasks'[m] = tasks[m]
    <3>1. m # n
      BY <1>1, <2>1, CreatedEffect
    <3>2. QED
      BY <2>1, <3>1, CreatedEffect
  <2>2. ASSUME NEW n \in Names, NEW e \in Ended, EndsAs(n, e) PROVE tasks'[m] = tasks[m]
    <3>1. m # n
      BY <1>1, <2>2 DEF EndsAs
    <3>2. QED
      BY <2>2, <3>1, EndsEffect
  <2>3. QED
    BY <2>1, <2>2, TasksMove
<1>2. QED
  <2> SUFFICES ASSUME NEW t \in PlayedBack(r) PROVE t \in PlayedBack(r)'
    OBVIOUS
  <2>1. PICK n \in Names, j \in Jobs :
          /\ n[1] = r /\ tasks[n] = [src |-> j, phase |-> "Completed"]
          /\ Target(j) = t /\ From[j[1]] = Source[r] /\ j[2]
    BY DEF PlayedBack
  <2>2. tasks'[n] = [src |-> j, phase |-> "Completed"]
    <3>1. tasks[n].phase = "Completed"
      BY <2>1
    <3>2. QED
      BY <1>1, <2>1, <3>1
  <2>3. t \in Targets
    BY DEF PlayedBack
  <2>4. QED
    BY <2>1, <2>2, <2>3 DEF PlayedBack, Target

LEMMA NoLagBefore ==
  ASSUME TypeOK, [Next]_vars, used'["lag"] = 0
  PROVE  used["lag"] = 0
<1>k. {"api", "lost", "restart", "edit", "delete", "gap", "lag"} \subseteq Kinds
  BY KindsAssumption
<1>1. ASSUME NEW k \in Kinds, Spend(k) PROVE used["lag"] = 0
  BY <1>k, <1>1 DEF Spend, OneMore, TypeOK
<1>2. CASE UNCHANGED used
  BY <1>2
<1>3. ASSUME NEW p \in Runs, Handler(p) PROVE UNCHANGED used \/ \E k \in Kinds : Spend(k)
  <2>1. CASE InitStage(p)
    BY <1>k, <2>1 DEF InitStage
  <2>2. CASE AddTask(p)
    <3>1. \E j, n : CreateTask(p, j, n) \/ CreateTaskFails(n)
      BY <2>2, AddTaskEffect
    <3>2. QED
      BY <1>k, <3>1 DEF CreateTask, CreateTaskFails
  <2>3. CASE ~InitStage(p) /\ ~AddTask(p)
    BY <1>k, <1>3, <2>3 DEF Handler, Skip, Start, StartFails, GetBackup, GetBackupFails,
       InitStageFails, Receive, WaitFails, Complete, Fail, Report
  <2>4. QED
    BY <2>1, <2>2, <2>3
<1>4. QED
  BY <1>k, <1>1, <1>2, <1>3 DEF Next, vars, CreateRestore, EditRestore, DeleteRestore, Deliver,
     Expire, TaskEnds, WatchGap, Stop, Restart

LEMMA SnapsGrow ==
  ASSUME TypeOK, [Next]_vars, NEW s \in Snapshots, snaps[s] = "Completed"
  PROVE  snaps'[s] = "Completed"
<1>1. ASSUME NEW S, snaps' \in Later(S) PROVE snaps'[s] = "Completed"
  <2>1. /\ snaps' \in [Snapshots -> SnapPhase]
        /\ snaps'[s] = snaps[s] \/ snaps[s] \in Earlier(snaps'[s])
    BY <1>1 DEF Later
  <2>2. QED
    BY <2>1 DEF Earlier, SnapPhase
<1>2. \/ UNCHANGED snaps
      \/ \E S : snaps' \in Later(S)
  <2>1. ASSUME NEW p \in Runs, Handler(p), ~InitStage(p) PROVE UNCHANGED snaps
    BY <2>1 DEF Handler, Skip, Start, StartFails, GetBackup, GetBackupFails, InitStageFails,
       AddTask, Receive, WaitFails, Complete, Fail, Report, worldVars
  <2>2. ASSUME NEW p \in Runs, InitStage(p) PROVE \E S : snaps' \in Later(S)
    BY <2>2 DEF InitStage
  <2>3. QED
    BY <2>1, <2>2 DEF Next, vars, CreateRestore, EditRestore, DeleteRestore, Deliver, Expire,
       TaskEnds, WatchGap, Stop, Restart, worldVars
<1>3. QED
  BY <1>1, <1>2

(* A Restore joins the sound ones when it is made.                         *)
LEMMA SoundMoves ==
  ASSUME TypeOK, [Next]_vars, NEW r \in Restores, r \in sound', r \notin sound
  PROVE  /\ CreateRestore(r) /\ Phase(r) = "Absent" /\ Phase(r)' = "New" /\ UNCHANGED run
         /\ Selected[Source[r]] \subseteq HasData(Source[r], snaps')
<1>1. ASSUME NEW p \in Runs, Handler(p) PROVE UNCHANGED sound
  BY <1>1 DEF Handler, Skip, Start, StartFails, GetBackup, GetBackupFails, InitStage,
     InitStageFails, AddTask, Receive, WaitFails, Complete, Fail, Report, worldVars
<1>2. PICK q \in Restores : CreateRestore(q)
  BY <1>1 DEF Next, vars, EditRestore, DeleteRestore, Deliver, Expire, TaskEnds, WatchGap, Stop,
     Restart, worldVars
<1>3. q = r /\ Selected[Source[r]] \subseteq HasData(Source[r], snaps')
  BY <1>2 DEF CreateRestore
<1>4. Write(r, "New") /\ versions[r] = <<>> /\ UNCHANGED run
  BY <1>2, <1>3 DEF CreateRestore, runVars
<1>5. Phase(r)' = "New"
  BY <1>4, WriteEffect DEF VersionPhase, Pending
<1>6. QED
  BY <1>2, <1>3, <1>4, <1>5, PhaseType

LEMMA SoundHasDataStep ==
  ASSUME TypeOK, SoundHasData, [Next]_vars
  PROVE  SoundHasData'
<1>1. \A b \in Backups : HasData(b, snaps) \subseteq HasData(b, snaps')
  BY SnapsGrow DEF HasData
<1>2. \A r \in Restores : Source[r] \in Backups
  BY SourceAssumption
<1>3. TypeOK'
  BY TypeStep
<1>4. ASSUME NEW r \in sound' PROVE Selected[Source[r]] \subseteq HasData(Source[r], snaps')
  <2>1. r \in Restores
    BY <1>3 DEF TypeOK
  <2>2. CASE r \in sound
    BY <1>1, <1>2, <2>1, <2>2 DEF SoundHasData
  <2>3. CASE r \notin sound
    BY <1>4, <2>1, <2>3, SoundMoves
  <2>4. QED
    BY <2>2, <2>3
<1>5. QED
  BY <1>4 DEF SoundHasData, HasData

LEMMA OwedBefore ==
  ASSUME TypeOK, RunsHold, [Next]_vars, NEW p \in Runs, Owed(p)', Active(p) \/ Active(p)'
  PROVE  Owed(p)
<1>1. used["lag"] = 0
  BY NoLagBefore DEF Owed
<1>2. ASSUME Rs(p) \notin sound PROVE FALSE
  <2>1. Phase(Rs(p)) = "Absent" /\ UNCHANGED run
    BY <1>2, RunParts, SoundMoves DEF Owed
  <2>2. QED
    BY <2>1 DEF RunsHold, Active
<1>3. QED
  BY <1>1, <1>2 DEF Owed

(* The steps of a run that matter to what it owes.                         *)
Works(p) ==
  \/ run'[p].pc = "idle"
  \/ run'[p].pc = "get" /\ run'[p].stage = "get"
  \/ run'[p].pc = "init" /\ run'[p].stage = "db"
  \/ /\ Active(p) /\ run'[p].pc \in {run[p].pc, "fail"} /\ SameStage(p)
     /\ todo'[p] = todo[p] /\ waiting'[p] = waiting[p]
  \/ InitStage(p) \/ AddTask(p) \/ Receive(p)

LEMMA RunsWork ==
  ASSUME TypeOK, [Next]_vars
  PROVE  \A p \in Runs : Works(p)
<1>t. RunOK /\ WorkOK /\ IdleRun.pc = "idle"
  BY IdleType DEF TypeOK, RunOK, WorkOK
<1>1. ASSUME NEW p \in Runs, run'[p] = run[p], todo'[p] = todo[p], waiting'[p] = waiting[p]
      PROVE  Works(p)
  BY <1>1 DEF Works, Active, SameStage
<1>2. CASE UNCHANGED <<run, todo, waiting>>
  BY <1>1, <1>2
<1>3. ASSUME NEW q \in Runs, NEW p \in Runs \ {q}, InitStage(q) \/ AddTask(q) \/ Receive(q)
      PROVE  Works(p)
  <2>1. CASE InitStage(q)
    <3>1. run'[p] = run[p]
      BY <1>t, <1>3, <2>1, InitStageEffect, NextStageEffect, GotoEffect DEF Pc
    <3>2. \E K : todo' = [todo EXCEPT ![q] = K]
      BY <2>1 DEF InitStage
    <3>3. QED
      BY <1>t, <1>1, <1>3, <2>1, <3>1, <3>2 DEF InitStage, WorkOK
  <2>2. CASE AddTask(q)
    <3>1. PICK j, n : Track(q, j, n)
      BY <2>2 DEF AddTask
    <3>2. QED
      BY <1>t, <1>1, <1>3, <3>1 DEF Track, Goto, WorkOK, RunOK
  <2>3. CASE Receive(q)
    BY <1>t, <1>1, <1>3, <2>3 DEF Receive, NextStage, Goto, WorkOK, RunOK
  <2>4. QED
    BY <1>3, <2>1, <2>2, <2>3
<1>4. ASSUME NEW q \in Runs, Start(q) \/ GetBackup(q) PROVE \A p \in Runs : Works(p)
  <2>1. \A p \in Runs \ {q} : run'[p] = run[p]
    BY <1>t, <1>4 DEF Start, GetBackup, RunOK
  <2>2. \/ run'[q].pc = "get" /\ run'[q].stage = "get"
        \/ run'[q].pc = "init" /\ run'[q].stage = "db"
    <3>1. CASE Start(q)
      BY <1>t, <3>1 DEF Start, RunOK
    <3>2. CASE GetBackup(q)
      BY <1>t, <3>2 DEF GetBackup, RunOK, RunRec
    <3>3. QED
      BY <1>4, <3>1, <3>2
  <2>3. UNCHANGED <<todo, waiting>>
    BY <1>4 DEF Start, GetBackup
  <2>4. QED
    BY <1>1, <2>1, <2>2, <2>3 DEF Works
<1>5. ASSUME NEW q \in Runs, GetBackupFails(q) \/ InitStageFails(q) \/ WaitFails(q)
      PROVE  \A p \in Runs : Works(p)
  <2>1. Active(q) /\ Goto(q, "fail") /\ UNCHANGED <<todo, waiting>>
    BY <1>5 DEF GetBackupFails, InitStageFails, WaitFails, Active
  <2>2. QED
    BY <1>t, <1>1, <2>1, GotoEffect DEF Works, SameStage, Pc
<1>6. ASSUME NEW q \in Runs, Expire(q) PROVE \A p \in Runs : Works(p)
  <2>1. /\ \A p \in Runs \ {q} : run'[p] = run[p]
        /\ run'[q].pc = run[q].pc /\ run'[q].stage = run[q].stage /\ run[q].pc # "idle"
        /\ UNCHANGED <<todo, waiting>>
    BY <1>t, <1>6 DEF Expire, RunOK, RunRec
  <2>2. QED
    BY <1>1, <2>1 DEF Works, SameStage, Active
<1>7. ASSUME NEW q \in Runs, Complete(q) \/ Fail(q) PROVE \A p \in Runs : Works(p)
  <2>1. /\ run'[q].pc = "idle"
        /\ \A p \in Runs \ {q} : /\ run'[p] = run[p] /\ todo'[p] = todo[p]
                                  /\ waiting'[p] = waiting[p]
    BY <1>t, <1>7, EndRunEffect DEF Complete, Fail, Report
  <2>2. QED
    BY <1>1, <2>1 DEF Works
<1>8. ASSUME NEW o \in Operators, Restart(o) PROVE \A p \in Runs : Works(p)
  BY <1>t, <1>1, <1>8 DEF Restart, Works
<1>9. ASSUME NEW q \in Runs, InitStage(q) \/ AddTask(q) \/ Receive(q)
      PROVE  \A p \in Runs : Works(p)
  BY <1>3, <1>9 DEF Works
<1>10. QED
  BY <1>2, <1>4, <1>5, <1>6, <1>7, <1>8, <1>9 DEF Next, Handler, vars, runVars, CreateRestore,
     EditRestore, DeleteRestore, Deliver, Skip, StartFails, TaskEnds, WatchGap, Stop

LEMMA AllIsDbAndVolume ==
  ASSUME NEW p \in Runs
  PROVE  Selected[Source[Rs(p)]] = Due(p, "db") \cup Due(p, "volume")
BY DEF Due, StageOf

LEMMA InitStageSound ==
  ASSUME TypeOK, Held, SoundHasData', NEW p \in Runs, InitStage(p), SoundAt(p),
         used'["lag"] = 0, Rs(p) \in sound, used["lag"] = 0
  PROVE  SoundAt(p)'
<1> DEFINE b == Source[Rs(p)]
           st == run[p].stage
<1>t. /\ RunOK /\ b \in Backups /\ Rs(p) \in Restores /\ Owed(p)
      /\ run[p].pc = "init" /\ st \in {"db", "volume"}
      /\ UNCHANGED <<tasks, sound>>
  BY RunParts DEF TypeOK, RunOK, RunRec, Stage, InitStage, Held, StagesKnown, Owed
<1>1. /\ IF todo'[p] = {} THEN NextStage(p) ELSE Goto(p, "add")
      /\ \A s \in Snapshots :
           From[s] = b /\ StageOf(Of[s]) = st /\ snaps'[s] = "Completed"
             => \E k \in todo'[p] : Target(k) = Of[s]
  BY InitStageEffect
<1>2. Due(p, st) \subseteq {Target(j) : j \in todo'[p]}
  <2> SUFFICES ASSUME NEW t \in Due(p, st) PROVE \E k \in todo'[p] : Target(k) = t
    OBVIOUS
  <2>1. t \in Selected[b] /\ StageOf(t) = st
    BY DEF Due
  <2>2. t \in HasData(b, snaps')
    BY <1>t, <2>1 DEF SoundHasData, HasData
  <2>3. PICK s \in Snapshots : From[s] = b /\ snaps'[s] = "Completed" /\ Of[s] = t
    BY <2>2 DEF HasData
  <2>4. QED
    BY <1>1, <2>1, <2>3
<1>3. PlayedBack(Rs(p))' = PlayedBack(Rs(p))
  BY <1>t DEF PlayedBack, Target
<1>4. st = "volume" => Due(p, "db") \subseteq PlayedBack(Rs(p))
  BY <1>t DEF SoundAt, Active
<1>5. CASE todo'[p] = {}
  <2>1. \/ st = "db" /\ run'[p].pc = "init" /\ run'[p].stage = "volume"
        \/ st = "volume" /\ run'[p].pc = "complete" /\ run'[p].stage = "volume"
    BY <1>t, <1>1, <1>5, NextStageEffect
  <2>2. Due(p, st) = {}
    BY <1>2, <1>5
  <2>3. Due(p, "db") \subseteq PlayedBack(Rs(p))
    BY <1>4, <2>1, <2>2
  <2>4. st = "volume" => Selected[b] \subseteq PlayedBack(Rs(p))
    BY <2>2, <2>3, AllIsDbAndVolume
  <2>5. QED
    BY <1>3, <2>1, <2>3, <2>4 DEF SoundAt, Due, StageOf
<1>6. CASE todo'[p] # {}
  <2>1. run'[p].pc = "add" /\ run'[p].stage = st
    BY <1>t, <1>1, <1>6, GotoEffect DEF Pc
  <2>2. QED
    BY <1>2, <1>3, <1>4, <2>1 DEF SoundAt, Due, Target, StageOf
<1>7. QED
  BY <1>5, <1>6

LEMMA AddTaskSound ==
  ASSUME TypeOK, NEW p \in Runs, AddTask(p), Owed(p), SoundAt(p),
         PlayedBack(Rs(p)) \subseteq PlayedBack(Rs(p))'
  PROVE  SoundAt(p)'
<1> DEFINE st == run[p].stage
<1>t. RunOK /\ WorkOK /\ run[p].pc = "add"
  BY DEF TypeOK, RunOK, WorkOK, AddTask
<1>1. PICK j \in todo[p], n \in Names :
        /\ j \in Jobs /\ n[2] = Key(j)
        /\ Track(p, j, n)
  BY AddTaskEffect
<1>2. /\ todo'[p] = todo[p] \ {j} /\ waiting'[p] = waiting[p] \cup {n}
      /\ run'[p].pc = IF todo[p] = {j} THEN "wait" ELSE "add"
      /\ run'[p].stage = st
  <2>1. Goto(p, "wait") \/ Goto(p, "add")
    BY <1>1 DEF Track
  <2>2. run'[p].stage = st
    BY <1>t, <2>1, GotoEffect DEF Pc
  <2>3. run'[p].pc = IF todo[p] = {j} THEN "wait" ELSE "add"
    BY <1>t, <1>1, GotoEffect DEF Track, Pc
  <2>4. QED
    BY <1>t, <1>1, <2>2, <2>3 DEF Track, WorkOK
<1>3. Target(j) \in Awaited(p)'
  <2>1. n[2] = Target(j) \/ n[2] = None \/ (n[2] \in Snapshots /\ Of[n[2]] = Target(j))
    BY <1>1, KeyType DEF Key, Target
  <2>2. QED
    BY <1>1, <1>2, <2>1, KeyType DEF Awaited
<1>4. Awaited(p) \subseteq Awaited(p)'
  BY <1>2 DEF Awaited
<1>5. Due(p, st) \subseteq {Target(k) : k \in todo'[p]} \cup Awaited(p)' \cup PlayedBack(Rs(p))'
  <2> SUFFICES ASSUME NEW t \in Due(p, st), t \notin Awaited(p)', t \notin PlayedBack(Rs(p))'
               PROVE  \E k \in todo'[p] : Target(k) = t
    OBVIOUS
  <2>1. PICK k \in todo[p] : Target(k) = t
    BY <1>t, <1>4 DEF SoundAt
  <2>2. k # j
    BY <1>3, <2>1
  <2>3. QED
    BY <1>2, <2>1, <2>2
<1>6. st = "volume" => Due(p, "db") \subseteq PlayedBack(Rs(p))'
  BY <1>t DEF SoundAt, Active
<1>7. run'[p].pc = "wait" => todo'[p] = {}
  BY <1>2
<1>8. QED
  BY <1>2, <1>5, <1>6, <1>7 DEF SoundAt, Due, Target, StageOf

LEMMA ReceiveSound ==
  ASSUME TypeOK, Held, TasksHonest, EventsSound, NEW p \in Runs, Receive(p), Owed(p), SoundAt(p)
  PROVE  SoundAt(p)'
<1> DEFINE st == run[p].stage
           n == Head(events[p])
<1>t. /\ RunOK /\ WorkOK /\ run[p].pc = "wait" /\ todo[p] = {} /\ st \in {"db", "volume"}
      /\ UNCHANGED <<tasks, todo>> /\ Rs(p) \in Restores
  BY RunParts DEF TypeOK, RunOK, RunRec, Stage, WorkOK, Receive, Held, StagesKnown, SoundAt
<1>1. PlayedBack(Rs(p))' = PlayedBack(Rs(p))
  BY <1>t DEF PlayedBack, Target
<1>2. /\ Due(p, st) \subseteq Awaited(p) \cup PlayedBack(Rs(p))
      /\ st = "volume" => Due(p, "db") \subseteq PlayedBack(Rs(p))
  BY <1>t DEF SoundAt, Active
<1>3. n \in Names /\ n[1] = Rs(p) /\ tasks[n].phase \in Ended
  <2>1. events[p] \in Seq(Names) /\ events[p] # <<>>
    BY <1>t DEF WorkOK, Receive
  <2>2. 1 \in 1 .. Len(events[p]) /\ n = events[p][1] /\ n \in Names
    BY <2>1
  <2>3. QED
    BY <2>2 DEF EventsSound
<1>4. CASE IsFailure(n)
  <2>1. run'[p].pc = "fail" /\ run'[p].stage = st
    BY <1>t, <1>4, GotoEffect DEF Receive, Pc
  <2>2. QED
    BY <1>1, <1>2, <2>1 DEF SoundAt, Due, StageOf
<1>5. CASE ~IsFailure(n)
  <2> DEFINE j == tasks[n].src
  <2>1. /\ tasks[n] = [src |-> j, phase |-> "Completed"]
        /\ j \in Jobs /\ From[j[1]] = Source[Rs(p)] /\ Key(j) = n[2] /\ j[2]
    <3>1. tasks[n].phase = "Completed" /\ tasks[n] \in TaskRec
      BY <1>3, <1>5 DEF IsFailure, Ended, TypeOK
    <3>2. tasks[n] # NoTask
      BY <3>1 DEF NoTask
    <3>3. QED
      BY <1>3, <3>1, <3>2 DEF TasksHonest, TaskRec
  <2>2. Target(j) \in PlayedBack(Rs(p))
    BY <1>3, <2>1, KeyType DEF PlayedBack
  <2>3. waiting'[p] = waiting[p] \ {n}
    BY <1>t, <1>5 DEF Receive, WorkOK
  <2>4. \A t \in Targets : n[2] = t \/ n[2] = None \/ (n[2] \in Snapshots /\ Of[n[2]] = t)
          => t = Target(j)
    <3>1. Target(j) \in Targets /\ j[1] \in Snapshots /\ Target(j) = Of[j[1]]
      BY <2>1, KeyType DEF Target
    <3>2. n[2] = IF Target(j) \in Dbs THEN Target(j) ELSE j[1]
      BY <2>1 DEF Key
    <3>3. QED
      BY <3>1, <3>2, NamesAssumption, NoneAssumption
  <2>5. Awaited(p) \subseteq Awaited(p)' \cup {Target(j)}
    BY <2>3, <2>4 DEF Awaited
  <2>6. Due(p, st) \subseteq Awaited(p)' \cup PlayedBack(Rs(p))
    BY <1>2, <2>2, <2>5
  <2>7. CASE ~(waiting[p] \subseteq {n})
    <3>1. run' = run
      BY <1>5, <2>7 DEF Receive
    <3>2. QED
      BY <1>t, <1>1, <1>2, <2>6, <3>1 DEF SoundAt, Due, StageOf, Target
  <2>8. CASE waiting[p] \subseteq {n}
    <3>1. \/ st = "db" /\ run'[p].pc = "init" /\ run'[p].stage = "volume"
          \/ st = "volume" /\ run'[p].pc = "complete" /\ run'[p].stage = "volume"
      BY <1>t, <1>5, <2>8, NextStageEffect DEF Receive
    <3>2. Awaited(p)' = {}
      BY <2>3, <2>8 DEF Awaited
    <3>3. Due(p, "db") \subseteq PlayedBack(Rs(p))
      BY <1>2, <2>6, <3>1, <3>2
    <3>4. st = "volume" => Selected[Source[Rs(p)]] \subseteq PlayedBack(Rs(p))
      BY <2>6, <3>2, <3>3, AllIsDbAndVolume
    <3>5. QED
      BY <1>1, <3>1, <3>3, <3>4 DEF SoundAt, Due, StageOf
  <2>9. QED
    BY <2>7, <2>8
<1>6. QED
  BY <1>4, <1>5

LEMMA SoundStep ==
  ASSUME TypeOK, Held, TasksInv, ReportsInv, SoundHasData, StageSound, [Next]_vars
  PROVE  StageSound'
<1>t. \A p \in Runs : Works(p) /\ Rs(p) \in Restores
  BY RunsWork, RunParts
<1>1. SoundHasData'
  BY SoundHasDataStep
<1>2. ASSUME NEW p \in Runs, Owed(p)' PROVE SoundAt(p)'
  <2>1. PlayedBack(Rs(p)) \subseteq PlayedBack(Rs(p))'
    BY <1>t, PlayedBackGrows
  <2>2. SoundAt(p)
    BY DEF StageSound, SoundAt
  <2>3. Active(p) \/ Active(p)' => Owed(p)
    BY <1>2, OwedBefore DEF Held
  <2>4. CASE run'[p].pc = "idle"
    BY <2>4 DEF SoundAt, Active
  <2>5. CASE \/ run'[p].pc = "get" /\ run'[p].stage = "get"
             \/ run'[p].pc = "init" /\ run'[p].stage = "db"
    BY <2>5 DEF SoundAt, Active
  <2>6. CASE /\ Active(p) /\ run'[p].pc \in {run[p].pc, "fail"} /\ SameStage(p)
             /\ todo'[p] = todo[p] /\ waiting'[p] = waiting[p]
    <3>1. Owed(p) /\ Awaited(p)' = Awaited(p)
      BY <2>3, <2>6 DEF Awaited
    <3>2. QED
      BY <2>1, <2>2, <2>6, <3>1 DEF SoundAt, SameStage, Active, Due, StageOf, Target
  <2>7. CASE InitStage(p)
    <3>1. Owed(p)
      BY <2>3, <2>7 DEF InitStage, Active
    <3>2. QED
      BY <1>1, <1>2, <2>2, <2>7, <3>1, InitStageSound DEF Owed
  <2>8. CASE AddTask(p)
    <3>1. Owed(p)
      BY <2>3, <2>8 DEF AddTask, Active
    <3>2. QED
      BY <2>1, <2>2, <2>8, <3>1, AddTaskSound
  <2>9. CASE Receive(p)
    <3>1. Owed(p)
      BY <2>3, <2>9 DEF Receive, Active
    <3>2. QED
      BY <2>2, <2>9, <3>1, ReceiveSound DEF TasksInv, ReportsInv
  <2>10. QED
    BY <1>t, <2>4, <2>5, <2>6, <2>7, <2>8, <2>9 DEF Works
<1>3. QED
  BY <1>2 DEF StageSound, SoundAt

LEMMA CompletedStep ==
  ASSUME TypeOK, Held, StageSound, CompletedIsRestored, [Next]_vars
  PROVE  CompletedIsRestored'
<1>1. ASSUME NEW r \in sound', Phase(r)' = "Completed", used'["lag"] = 0
      PROVE  Selected[Source[r]] \subseteq PlayedBack(r)'
  <2>1. r \in Restores /\ used["lag"] = 0
    BY <1>1, TypeStep, NoLagBefore DEF TypeOK
  <2>2. r \in sound
    BY <1>1, <2>1, SoundMoves
  <2>3. PlayedBack(r) \subseteq PlayedBack(r)'
    BY <2>1, PlayedBackGrows
  <2>4. CASE Phase(r) = "Completed"
    BY <2>1, <2>2, <2>3, <2>4 DEF CompletedIsRestored
  <2>5. CASE Phase(r) # "Completed"
    <3>1. PICK q \in Restores, v \in VersionPhase : Write(q, v) /\ Follows(q, v)
      BY <1>1, <2>5, WhoWrites DEF Held, Phase
    <3>2. q = r /\ v = "Completed"
      BY <1>1, <2>1, <2>5, <3>1, WriteEffect
    <3>3. PICK p \in Runs : Rs(p) = r /\ Complete(p)
      BY <2>5, <3>1, <3>2 DEF Follows, Outcome
    <3>4. Selected[Source[r]] \subseteq PlayedBack(r)
      BY <2>1, <2>2, <3>3 DEF Complete, StageSound, Owed
    <3>5. QED
      BY <2>3, <3>4
  <2>6. QED
    BY <2>4, <2>5
<1>2. QED
  BY <1>1 DEF CompletedIsRestored

-----------------------------------------------------------------------------
LEMMA InitInv == Init => IInv
<1> SUFFICES ASSUME Init PROVE IInv
  OBVIOUS
<1>t. /\ TypeOK /\ \A p \in Runs : run[p].pc = "idle" /\ watched[p] = {} /\ events[p] = <<>>
      /\ sound = {} /\ \A n \in Names : tasks[n] = NoTask
      /\ \A p \in Runs : cache[p].phase = "Gone"
  BY InitType, IdleType DEF Init
<1>1. CacheHonest /\ RunsHold /\ RunsApart /\ StagesKnown
  BY <1>t DEF CacheHonest, RunsHold, RunsApart, StagesKnown, Active
<1>2. TasksHonest /\ Untouched /\ TodoFresh /\ PlayedOnce
  BY <1>t DEF TasksHonest, Untouched, TodoFresh, PlayedOnce, HasTask
<1>3. WatchSound /\ EventsSound
  BY <1>t DEF WatchSound, EventsSound
<1>4. SoundHasData /\ StageSound /\ CompletedIsRestored
  BY <1>t DEF SoundHasData, StageSound, CompletedIsRestored, Owed
<1>5. QED
  BY <1>t, <1>1, <1>2, <1>3, <1>4 DEF IInv

LEMMA InvStep == IInv /\ [Next]_vars => IInv'
<1> SUFFICES ASSUME IInv, [Next]_vars PROVE IInv'
  OBVIOUS
<1>1. TypeOK /\ Held /\ TasksInv /\ ReportsInv /\ SoundHasData /\ StageSound /\ CompletedIsRestored
  BY DEF IInv, Held, TasksInv, ReportsInv
<1>2. TypeOK' /\ Held' /\ TasksInv' /\ ReportsInv'
  BY <1>1, TypeStep, HeldStep, TasksInvStep, ReportsStep
<1>3. SoundHasData' /\ StageSound' /\ CompletedIsRestored'
  BY <1>1, SoundHasDataStep, SoundStep, CompletedStep
<1>4. QED
  BY <1>2, <1>3 DEF IInv, Held, TasksInv, ReportsInv

(* IInv is inductive: whatever processes restart, lose answers or race.    *)
THEOREM Invariance == Spec => []IInv
BY InitInv, InvStep, PTL DEF Spec

(* A Restore of a Completed Backup is Completed only when everything the   *)
(* Backup selects has been played back, unless a list was read too early.  *)
THEOREM CompletedRestored == Spec => []CompletedIsRestored
<1>1. IInv => CompletedIsRestored
  BY DEF IInv
<1>2. QED
  BY <1>1, Invariance, PTL

(* No snapshot is played back twice for a Restore: the version check of the*)
(* first update lets one run through, and a stage comes once in a run.     *)
THEOREM PlayedAtMostOnce == Spec => []PlayedOnce
<1>1. IInv => PlayedOnce
  BY DEF IInv
<1>2. QED
  BY <1>1, Invariance, PTL

-----------------------------------------------------------------------------
(* The controller implements SnapshotTask for the readers of a Restore.    *)
LEMMA TaskWrite ==
  ASSUME TypeOK, NEW r \in Restores, NEW v \in VersionPhase, Write(r, v)
  PROVE  TaskPhase' = [TaskPhase EXCEPT ![r] = IF v \in Pending THEN "Pending" ELSE v]
BY WriteEffect DEF TaskPhase

LEMMA TaskStep ==
  ASSUME IInv, [Next]_vars
  PROVE  [Task!Next]_TaskPhase
<1>t. /\ TypeOK /\ CacheHonest /\ RunsHold
      /\ \A r \in Restores : TaskPhase[r] = IF Phase(r) \in Pending THEN "Pending" ELSE Phase(r)
  BY DEF IInv, TaskPhase
<1>1. CASE UNCHANGED versions
  BY <1>1 DEF TaskPhase, Phase
<1>2. ASSUME NEW r \in Restores, NEW v \in VersionPhase, Write(r, v), Follows(r, v)
      PROVE  [Task!Next]_TaskPhase
  <2>1. TaskPhase' = [TaskPhase EXCEPT ![r] = IF v \in Pending THEN "Pending" ELSE v]
    BY <1>t, <1>2, TaskWrite
  <2>2. CASE v = "New" /\ Phase(r) = "Absent"
    <3>1. Task!Create(r)
      BY <1>t, <2>1, <2>2 DEF Task!Create, Task!Move, Pending
    <3>2. QED
      BY <3>1 DEF Task!Next
  <2>3. CASE v = Phase(r) \/ (v = "InProgress" /\ Phase(r) = "New")
    <3>1. TaskPhase' = [TaskPhase EXCEPT ![r] = TaskPhase[r]]
      BY <1>t, <2>1, <2>3 DEF Pending
    <3>2. QED
      BY <3>1 DEF TaskPhase
  <2>4. CASE v = "Gone" /\ Exists(r)
    <3>1. Phase(r) \in Pending \cup Ended
      BY <1>t, <2>4, PhaseType
    <3>2. TaskPhase' = [TaskPhase EXCEPT ![r] = "Gone"]
      BY <2>1, <2>4 DEF Pending
    <3>3. TaskPhase[r] \in {"Pending", "Completed", "Failed"}
      BY <1>t, <3>1 DEF Pending, Ended
    <3>4. Task!Remove(r)
      BY <3>2, <3>3 DEF Task!Remove, Task!Move
    <3>5. QED
      BY <3>4 DEF Task!Next
  <2>5. CASE Outcome(r, v)
    <3>1. v \in {"Completed", "Failed"} /\ TaskPhase[r] = "Pending"
      BY <1>t, <2>5 DEF Outcome, Ended, Pending
    <3>2. TaskPhase' = [TaskPhase EXCEPT ![r] = v]
      BY <2>1, <3>1 DEF Pending
    <3>3. Task!End(r)
      BY <3>1, <3>2 DEF Task!End, Task!Move
    <3>4. QED
      BY <3>3 DEF Task!Next
  <2>6. QED
    BY <1>2, <2>2, <2>3, <2>4, <2>5 DEF Follows
<1>3. QED
  BY <1>t, <1>1, <1>2, WhoWrites

(* A Restore gets at most one outcome and keeps it until it is removed.    *)
THEOREM KeepsOutcome == Spec => OneOutcome
<1>1. Init => Task!Init
  BY DEF Init, Task!Init, TaskPhase, Phase, Pending
<1>2. IInv /\ [Next]_vars => [Task!Next]_TaskPhase
  BY TaskStep
<1>3. QED
  BY <1>1, <1>2, Invariance, PTL DEF Spec, OneOutcome, Task!Spec
=============================================================================
