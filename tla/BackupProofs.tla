---------------------------- MODULE BackupProofs ----------------------------
(***************************************************************************)
(* Proofs about BackupController, for any number of processes, Backups,    *)
(* targets and disturbances.                                               *)
(***************************************************************************)
EXTENDS BackupController, FiniteSetTheorems, TLAPS

-----------------------------------------------------------------------------
(* Type correctness. Phase(b) is a phase of the API only for Backups that  *)
(* exist, hence the companion KeysExist.                                   *)

TypeInv == TypeOK /\ KeysExist

LEMMA PhaseType ==
  ASSUME ServerType, NEW b \in Backups, Exists(b)
  PROVE  Phase(b) \in ServerPhase /\ Len(versions[b]) \in Nat \ {0}
BY DEF ServerType, Exists, Phase

LEMMA SpendType ==
  ASSUME ClockType, NEW k \in Kinds, Spend(k)
  PROVE  used' \in [Kinds -> Nat]
BY DEF ClockType, Spend

LEMMA AppendType ==
  ASSUME ServerType, UNCHANGED tasks, NEW b \in Backups, NEW p \in ServerPhase,
         versions' = [versions EXCEPT ![b] = Append(@, p)]
  PROVE  ServerType' /\ \A q \in Backups : Exists(q) => Exists(q)'
<1>1. versions[b] \in Seq(ServerPhase)
  BY DEF ServerType
<1>2. Append(versions[b], p) \in Seq(ServerPhase) /\ Append(versions[b], p) # <<>>
  BY <1>1
<1>3. QED
  BY <1>2 DEF ServerType, Exists

LEMMA RunFields ==
  ASSUME NEW x \in RunRec
  PROVE  /\ \A p \in Pc : [x EXCEPT !.pc = p] \in RunRec
         /\ \A p \in Pc, s \in Stage : [x EXCEPT !.pc = p, !.stage = s] \in RunRec
         /\ [x EXCEPT !.linked = FALSE] \in RunRec
         /\ [x EXCEPT !.expired = TRUE] \in RunRec
BY DEF RunRec

LEMMA IdleType == IdleRun \in RunRec
BY DEF IdleRun, RunRec, Pc, Stage, LocalPhase, ServerPhase

LEMMA GotoType ==
  ASSUME RunType, NEW r \in Runs, NEW p \in Pc, Goto(r, p)
  PROVE  RunType'
<1>1. run[r] \in RunRec
  BY DEF RunType
<1>2. [run[r] EXCEPT !.pc = p] \in RunRec
  BY <1>1, RunFields
<1>3. QED
  BY <1>2 DEF Goto, RunType

LEMMA NextStageType ==
  ASSUME RunType, NEW r \in Runs, NextStage(r)
  PROVE  RunType'
<1>1. run[r] \in RunRec /\ {"init", "complete"} \subseteq Pc /\ "volume" \in Stage
  BY DEF RunType, Pc, Stage
<1>2. /\ [run[r] EXCEPT !.pc = "init", !.stage = "volume"] \in RunRec
      /\ [run[r] EXCEPT !.pc = "complete"] \in RunRec
  BY <1>1, RunFields
<1>3. QED
  BY <1>2 DEF NextStage, RunType

LEMMA EndRunType ==
  ASSUME RunType, WorkType, NEW r \in Runs, EndRun(r)
  PROVE  RunType' /\ WorkType'
BY IdleType DEF EndRun, RunType, WorkType

LEMMA WriteLocalType ==
  ASSUME QueueType, NEW r \in Runs, NEW p \in LocalPhase, WriteLocal(r, p)
  PROVE  cache' \in [Runs -> CacheRec]
BY DEF QueueType, WriteLocal, CacheRec

LEMMA RequeueType ==
  ASSUME QueueType, NEW r \in Runs, Requeue(r)
  PROVE  queued' \in [Operators -> SUBSET Backups]
BY DEF QueueType, Requeue, Runs, Op, Bk

LEMMA InitType == Init => TypeInv
BY IdleType, MaxTimeAssumption
   DEF Init, TypeInv, TypeOK, KeysExist, ServerType, ClockType, QueueType, RunType,
       WorkType, NoTask, IdleRun, TaskRec, CacheRec, LocalPhase, ServerPhase, Runs, Op, Bk

LEMMA TypeStep == TypeInv /\ [Next]_vars => TypeInv'
<1> SUFFICES ASSUME TypeInv, [Next]_vars PROVE TypeInv'
  OBVIOUS
<1> USE DEF TypeInv
<1>t. /\ ServerType /\ ClockType /\ QueueType /\ RunType /\ WorkType /\ KeysExist
      /\ {"api", "lost", "restart", "edit", "delete", "gap", "relist"} \subseteq Kinds
  BY KindsAssumption DEF TypeOK
<1>1. ASSUME NEW b \in Backups, CreateBackup(b) PROVE TypeInv'
  <2>1. ServerType'
    BY <1>t, <1>1 DEF CreateBackup, ServerType, ServerPhase
  <2>2. ClockType' /\ QueueType' /\ RunType' /\ WorkType'
    BY <1>t, <1>1 DEF CreateBackup, ClockType, QueueType, RunType, WorkType, envVars, runVars
  <2>3. KeysExist'
    <3>1. \A q \in Runs : Exists(Bk(q)) => Exists(Bk(q))'
      BY <1>t, <1>1 DEF CreateBackup, Exists, ServerType, Runs, Bk
    <3>2. QED
      BY <1>t, <1>1, <3>1 DEF CreateBackup, KeysExist, runVars
  <2>4. QED
    BY <2>1, <2>2, <2>3 DEF TypeOK
<1>2. ASSUME NEW b \in Backups, EditBackup(b) \/ MarkDeleting(b) PROVE TypeInv'
  <2>0. Exists(b) /\ Phase(b) \in ServerPhase
    BY <1>t, <1>2, PhaseType DEF EditBackup, MarkDeleting, Phase
  <2>1. ServerType'
    BY <1>t, <1>2, <2>0, AppendType DEF EditBackup, MarkDeleting, ServerPhase
  <2>2. ClockType'
    BY <1>t, <1>2, SpendType DEF EditBackup, MarkDeleting, ClockType
  <2>3. QueueType' /\ RunType' /\ WorkType'
    BY <1>t, <1>2 DEF EditBackup, MarkDeleting, QueueType, RunType, WorkType, runVars
  <2>4. KeysExist'
    BY <1>t, <1>2, <2>0 DEF EditBackup, MarkDeleting, KeysExist, Exists, ServerType,
       runVars, Runs, Bk
  <2>5. QED
    BY <2>1, <2>2, <2>3, <2>4 DEF TypeOK
<1>3. ASSUME Tick PROVE TypeInv'
  BY <1>t, <1>3, MaxTimeAssumption DEF Tick, TypeOK, ServerType, ClockType, QueueType, RunType,
     WorkType, KeysExist, Exists, runVars
<1>4. ASSUME NEW r \in Runs, Deliver(r) PROVE TypeInv'
  <2> DEFINE o == Op(r)  b == Bk(r)
  <2>0. o \in Operators /\ b \in Backups /\ cache[r] \in CacheRec
    BY <1>t DEF Runs, Op, Bk, QueueType
  <2>1. PICK v \in {cache[r].seen + 1, Len(versions[b])} :
          /\ used' = used \/ Spend("relist")
          /\ cache' = [cache EXCEPT ![r] = [known |-> TRUE, seen |-> v, phase |-> versions[b][v]]]
          /\ queued' = IF Enqueues(cache[r], versions[b][v])
                         THEN [queued EXCEPT ![o] = @ \cup {b}] ELSE queued
    BY <1>4 DEF Deliver
  <2>2. v \in 1 .. Len(versions[b]) /\ Exists(b) /\ versions[b][v] \in ServerPhase
    BY <1>t, <1>4, <2>0 DEF Deliver, ServerType, CacheRec, Exists
  <2>3. ServerType' /\ WorkType'
    BY <1>t, <1>4 DEF Deliver, ServerType, WorkType
  <2>4. ClockType'
    BY <1>t, <1>4, <2>1, SpendType DEF Deliver, ClockType
  <2>5. QueueType'
    <3>1. [known |-> TRUE, seen |-> v, phase |-> versions[b][v]] \in CacheRec
      BY <2>2 DEF CacheRec, LocalPhase
    <3>2. QED
      BY <1>t, <1>4, <2>0, <2>1, <3>1 DEF Deliver, QueueType
  <2>6. RunType'
    <3>1. [run[r] EXCEPT !.linked = FALSE] \in RunRec
      BY <1>t, RunFields DEF RunType
    <3>2. QED
      BY <1>t, <1>4, <3>1 DEF Deliver, RunType
  <2>7. KeysExist'
    <3>1. \A q \in Runs : Exists(Bk(q))' = Exists(Bk(q)) /\ run'[q].pc = run[q].pc
      BY <1>t, <1>4 DEF Deliver, Exists, RunType, RunRec
    <3>2. \A q \in Runs : Bk(q) \in queued'[Op(q)] => Bk(q) = b \/ Bk(q) \in queued[Op(q)]
      BY <1>t, <2>0, <2>1 DEF QueueType, Runs, Op, Bk
    <3>3. QED
      BY <1>t, <2>2, <3>1, <3>2 DEF KeysExist
  <2>8. QED
    BY <2>3, <2>4, <2>5, <2>6, <2>7 DEF TypeOK
<1>5. ASSUME NEW r \in Runs, Skip(r) PROVE TypeInv'
  <2>1. ServerType' /\ ClockType' /\ RunType' /\ WorkType'
    BY <1>t, <1>5 DEF Skip, ServerType, ClockType, RunType, WorkType, envVars, runVars
  <2>2. QueueType'
    BY <1>t, <1>5 DEF Skip, QueueType
  <2>3. KeysExist'
    BY <1>t, <1>5 DEF Skip, QueueType, KeysExist, Exists, runVars
  <2>4. QED
    BY <2>1, <2>2, <2>3 DEF TypeOK
<1>6. ASSUME NEW r \in Runs, Start(r) PROVE TypeInv'
  <2> DEFINE b == Bk(r)
             p == IF Phase(b) = "New" THEN "InProgress" ELSE Phase(b)
  <2>1. b \in Backups /\ Exists(b)
    BY <1>t, <1>6 DEF Start, Take, KeysExist, Runs, Bk
  <2>2. p \in LocalPhase /\ Len(versions[b]) \in Nat
    BY <1>t, <2>1, PhaseType DEF LocalPhase
  <2>3. ServerType' /\ ClockType' /\ WorkType'
    BY <1>t, <1>6 DEF Start, ServerType, ClockType, WorkType, envVars
  <2>4. QueueType'
    BY <1>t, <1>6, <2>2 DEF Start, QueueType, CacheRec
  <2>5. RunType'
    BY <1>t, <1>6, <2>2 DEF Start, RunType, RunRec, Pc, Stage
  <2>6. KeysExist'
    BY <1>t, <1>6, <2>1 DEF Start, QueueType, RunType, KeysExist, Exists
  <2>7. QED
    BY <2>3, <2>4, <2>5, <2>6 DEF TypeOK
<1>7. ASSUME NEW r \in Runs, StartFails(r) PROVE TypeInv'
  <2>1. ServerType' /\ RunType' /\ WorkType'
    BY <1>t, <1>7 DEF StartFails, ServerType, RunType, WorkType, runVars
  <2>2. ClockType'
    BY <1>t, <1>7, SpendType DEF StartFails, ClockType
  <2>3. QueueType'
    BY <1>t, <1>7 DEF StartFails, QueueType, CacheRec, LocalPhase
  <2>4. KeysExist'
    BY <1>t, <1>7 DEF StartFails, KeysExist, Exists, runVars
  <2>5. QED
    BY <2>1, <2>2, <2>3, <2>4 DEF TypeOK
<1>8. ASSUME NEW r \in Runs, InitStage(r) PROVE TypeInv'
  <2>1. ServerType' /\ ClockType' /\ QueueType'
    BY <1>t, <1>8 DEF InitStage, ServerType, ClockType, QueueType, envVars
  <2>2. WorkType'
    <3>1. StageTargets(Bk(r), run[r].stage) \subseteq Targets
      BY SelectedAssumption DEF StageTargets, Runs, Bk
    <3>2. todo' \in [Runs -> SUBSET Targets] /\ waiting' \in [Runs -> SUBSET Names]
      BY <1>t, <1>8, <3>1 DEF InitStage, WorkType
    <3>3. watched' \in [Runs -> SUBSET Names] /\ events' \in [Runs -> Seq(Names)]
      BY <1>t, <1>8 DEF InitStage, WorkType
    <3>4. QED
      BY <3>2, <3>3 DEF WorkType
  <2>3. NextStage(r) \/ Goto(r, "add")
    BY <1>8 DEF InitStage
  <2>4. RunType'
    BY <1>t, <2>3, NextStageType, GotoType DEF Pc
  <2>5. KeysExist'
    BY <1>t, <1>8, <2>3 DEF InitStage, NextStage, Goto, RunType, KeysExist, Exists
  <2>6. QED
    BY <2>1, <2>2, <2>4, <2>5 DEF TypeOK
<1>9. ASSUME NEW r \in Runs, InitStageFails(r) PROVE TypeInv'
  <2>1. ServerType' /\ QueueType' /\ WorkType'
    BY <1>t, <1>9 DEF InitStageFails, ServerType, QueueType, WorkType
  <2>2. ClockType'
    BY <1>t, <1>9, SpendType DEF InitStageFails, ClockType
  <2>3. RunType'
    BY <1>t, <1>9, GotoType DEF InitStageFails, Pc
  <2>4. KeysExist'
    BY <1>t, <1>9 DEF InitStageFails, Goto, RunType, KeysExist, Exists
  <2>5. QED
    BY <2>1, <2>2, <2>3, <2>4 DEF TypeOK
<1>10. ASSUME NEW r \in Runs, AddTask(r) PROVE TypeInv'
  <2>1. PICK t \in todo[r] : /\ CreateTask(r, <<t, now>>) \/ CreateTaskFails(<<t, now>>)
                             /\ Track(r, <<t, now>>)
    BY <1>10 DEF AddTask
  <2> DEFINE n == <<t, now>>
  <2>2. n \in Names /\ Bk(r) \in Backups
    BY <1>t DEF WorkType, ClockType, Names, Runs, Bk
  <2>3. ServerType'
    <3>1. [owner |-> Bk(r), phase |-> "Pending"] \in TaskRec
      BY <2>2 DEF TaskRec
    <3>2. tasks' = tasks \/ tasks' = [tasks EXCEPT ![n] = [owner |-> Bk(r), phase |-> "Pending"]]
      BY <2>1 DEF CreateTask, CreateTaskFails
    <3>3. QED
      BY <1>t, <1>10, <3>1, <3>2 DEF AddTask, ServerType
  <2>4. ClockType'
    BY <1>t, <1>10, <2>1, SpendType DEF AddTask, CreateTask, CreateTaskFails, ClockType
  <2>5. QueueType'
    BY <1>t, <1>10 DEF AddTask, QueueType
  <2>6. RunType'
    BY <1>t, <2>1, GotoType DEF Track, Pc
  <2>7. WorkType'
    <3>1. watched' \in [Runs -> SUBSET Names]
      <4>1. CASE UNCHANGED watched
        BY <1>t, <4>1 DEF WorkType
      <4>2. CASE watched' = [q \in Runs |-> IF Follows(q, Bk(r), StageOf(n[1]))
                                             THEN watched[q] \cup {n} ELSE watched[q]]
        BY <1>t, <2>2, <4>2 DEF WorkType
      <4>3. QED
        BY <2>1, <4>1, <4>2 DEF CreateTask, CreateTaskFails
    <3>2. QED
      BY <1>t, <1>10, <2>1, <2>2, <3>1 DEF AddTask, Track, WorkType
  <2>8. KeysExist'
    BY <1>t, <1>10, <2>1 DEF AddTask, Track, Goto, RunType, KeysExist, Exists
  <2>9. QED
    BY <2>3, <2>4, <2>5, <2>6, <2>7, <2>8 DEF TypeOK
<1>11. ASSUME NEW r \in Runs, RepoFails(r) \/ WaitFails(r) PROVE TypeInv'
  <2>1. ServerType' /\ ClockType' /\ QueueType' /\ WorkType'
    BY <1>t, <1>11 DEF RepoFails, WaitFails, ServerType, ClockType, QueueType, WorkType, envVars
  <2>2. RunType'
    BY <1>t, <1>11, GotoType DEF RepoFails, WaitFails, Pc
  <2>3. KeysExist'
    BY <1>t, <1>11 DEF RepoFails, WaitFails, Goto, RunType, KeysExist, Exists
  <2>4. QED
    BY <2>1, <2>2, <2>3 DEF TypeOK
<1>12. ASSUME NEW r \in Runs, Receive(r) PROVE TypeInv'
  <2>1. ServerType' /\ ClockType' /\ QueueType'
    BY <1>t, <1>12 DEF Receive, ServerType, ClockType, QueueType, envVars
  <2>2. WorkType'
    <3>1. Tail(events[r]) \in Seq(Names)
      BY <1>t, <1>12 DEF Receive, WorkType
    <3>2. QED
      BY <1>t, <1>12, <3>1 DEF Receive, WorkType
  <2>3. NextStage(r) \/ Goto(r, "fail") \/ UNCHANGED run
    BY <1>12 DEF Receive
  <2>4. RunType'
    <3>1. CASE UNCHANGED run
      BY <1>t, <3>1 DEF RunType
    <3>2. QED
      BY <1>t, <2>3, <3>1, NextStageType, GotoType DEF Pc
  <2>5. KeysExist'
    BY <1>t, <1>12, <2>3 DEF Receive, NextStage, Goto, RunType, KeysExist, Exists
  <2>6. QED
    BY <2>1, <2>2, <2>4, <2>5 DEF TypeOK
<1>13. ASSUME NEW r \in Runs, Complete(r) PROVE TypeInv'
  <2> DEFINE b == Bk(r)
  <2>1. b \in Backups /\ Exists(b) /\ Phase(b) \in ServerPhase
    BY <1>t, <1>13, PhaseType DEF Complete, KeysExist, Runs, Bk
  <2>2. versions' = versions \/ \E p \in ServerPhase : versions' = [versions EXCEPT ![b] = Append(@, p)]
    BY <1>13, <2>1 DEF Complete, ServerPhase
  <2>3. ServerType'
    <3>1. CASE versions' = versions
      BY <1>t, <1>13, <3>1 DEF Complete, ServerType
    <3>2. QED
      BY <1>t, <1>13, <2>1, <2>2, <3>1, AppendType DEF Complete
  <2>4. ClockType'
    BY <1>t, <1>13, SpendType DEF Complete, ClockType
  <2>5. queued' = queued \/ Requeue(r)
    BY <1>13 DEF Complete
  <2>6. QueueType'
    <3>1. cache' \in [Runs -> CacheRec]
      BY <1>t, <1>13, WriteLocalType DEF Complete, LocalPhase, ServerPhase
    <3>2. queued' \in [Operators -> SUBSET Backups]
      BY <1>t, <2>5, RequeueType DEF QueueType
    <3>3. QED
      BY <1>t, <1>13, <3>1, <3>2 DEF Complete, QueueType
  <2>7. RunType' /\ WorkType'
    BY <1>t, <1>13, EndRunType DEF Complete
  <2>8. KeysExist'
    <3>1. \A q \in Runs : Exists(Bk(q)) => Exists(Bk(q))'
      BY <1>t, <2>1, <2>2 DEF ServerType, Exists, Runs, Bk
    <3>2. \A q \in Runs : run'[q].pc # "idle" => run[q].pc # "idle"
      BY <1>t, <1>13 DEF Complete, EndRun, IdleRun, RunType
    <3>3. \A q \in Runs : Bk(q) \in queued'[Op(q)] => Bk(q) = b \/ Bk(q) \in queued[Op(q)]
      BY <1>t, <2>5 DEF Requeue, QueueType, Runs, Op, Bk
    <3>4. QED
      BY <1>t, <2>1, <3>1, <3>2, <3>3 DEF KeysExist
  <2>9. QED
    BY <2>3, <2>4, <2>6, <2>7, <2>8 DEF TypeOK
<1>14. ASSUME NEW r \in Runs, Fail(r) PROVE TypeInv'
  <2> DEFINE b == Bk(r)
  <2>1. b \in Backups /\ Exists(b) /\ Phase(b) \in ServerPhase
    BY <1>t, <1>14, PhaseType DEF Fail, KeysExist, Runs, Bk
  <2>2. versions' = versions \/ \E p \in ServerPhase : versions' = [versions EXCEPT ![b] = Append(@, p)]
    BY <1>14, <2>1 DEF Fail, ServerPhase
  <2>3. ServerType'
    <3>1. CASE versions' = versions
      BY <1>t, <1>14, <3>1 DEF Fail, ServerType
    <3>2. QED
      BY <1>t, <1>14, <2>1, <2>2, <3>1, AppendType DEF Fail
  <2>4. ClockType'
    BY <1>t, <1>14, SpendType DEF Fail, ClockType
  <2>5. queued' = queued \/ Requeue(r)
    BY <1>14 DEF Fail
  <2>6. QueueType'
    <3>1. cache' \in [Runs -> CacheRec]
      BY <1>t, <1>14, WriteLocalType DEF Fail, LocalPhase, ServerPhase
    <3>2. queued' \in [Operators -> SUBSET Backups]
      BY <1>t, <2>5, RequeueType DEF QueueType
    <3>3. QED
      BY <1>t, <1>14, <3>1, <3>2 DEF Fail, QueueType
  <2>7. RunType' /\ WorkType'
    BY <1>t, <1>14, EndRunType DEF Fail
  <2>8. KeysExist'
    <3>1. \A q \in Runs : Exists(Bk(q)) => Exists(Bk(q))'
      BY <1>t, <2>1, <2>2 DEF ServerType, Exists, Runs, Bk
    <3>2. \A q \in Runs : run'[q].pc # "idle" => run[q].pc # "idle"
      BY <1>t, <1>14 DEF Fail, EndRun, IdleRun, RunType
    <3>3. \A q \in Runs : Bk(q) \in queued'[Op(q)] => Bk(q) = b \/ Bk(q) \in queued[Op(q)]
      BY <1>t, <2>5 DEF Requeue, QueueType, Runs, Op, Bk
    <3>4. QED
      BY <1>t, <2>1, <3>1, <3>2, <3>3 DEF KeysExist
  <2>9. QED
    BY <2>3, <2>4, <2>6, <2>7, <2>8 DEF TypeOK
<1>15. ASSUME NEW r \in Runs, Expire(r) PROVE TypeInv'
  <2>1. ServerType' /\ ClockType' /\ QueueType' /\ WorkType'
    BY <1>t, <1>15 DEF Expire, ServerType, ClockType, QueueType, WorkType, envVars
  <2>2. RunType'
    <3>1. [run[r] EXCEPT !.expired = TRUE] \in RunRec
      BY <1>t, RunFields DEF RunType
    <3>2. QED
      BY <1>t, <1>15, <3>1 DEF Expire, RunType
  <2>3. KeysExist'
    BY <1>t, <1>15 DEF Expire, RunType, RunRec, KeysExist, Exists
  <2>4. QED
    BY <2>1, <2>2, <2>3 DEF TypeOK
<1>16. ASSUME NEW n \in Names, TaskEnds(n) PROVE TypeInv'
  <2>1. ServerType'
    BY <1>t, <1>16 DEF TaskEnds, ServerType, TaskRec
  <2>2. ClockType' /\ QueueType' /\ RunType'
    BY <1>t, <1>16 DEF TaskEnds, ClockType, QueueType, RunType, envVars
  <2>3. WorkType'
    BY <1>t, <1>16 DEF TaskEnds, WorkType
  <2>4. KeysExist'
    BY <1>t, <1>16 DEF TaskEnds, KeysExist, Exists
  <2>5. QED
    BY <2>1, <2>2, <2>3, <2>4 DEF TypeOK
<1>17. ASSUME NEW r \in Runs, NEW n \in Names, WatchGap(r, n) PROVE TypeInv'
  <2>1. ServerType' /\ QueueType' /\ RunType' /\ WorkType'
    BY <1>t, <1>17 DEF WatchGap, ServerType, QueueType, RunType, WorkType
  <2>2. ClockType'
    BY <1>t, <1>17, SpendType DEF WatchGap, ClockType
  <2>3. KeysExist'
    BY <1>t, <1>17 DEF WatchGap, KeysExist, Exists
  <2>4. QED
    BY <2>1, <2>2, <2>3 DEF TypeOK
<1>18. ASSUME NEW o \in Operators, Stop(o) PROVE TypeInv'
  BY <1>t, <1>18 DEF Stop, TypeOK, ServerType, ClockType, QueueType, RunType, WorkType,
     KeysExist, Exists, envVars, runVars
<1>19. ASSUME NEW o \in Operators, Restart(o) PROVE TypeInv'
  <2>1. ServerType'
    BY <1>t, <1>19 DEF Restart, ServerType
  <2>2. ClockType'
    BY <1>t, <1>19, SpendType DEF Restart, ClockType
  <2>3. QueueType'
    <3>1. \A q \in Runs : [known |-> FALSE, seen |-> Listed(Bk(q)), phase |-> "New"] \in CacheRec
      BY <1>t DEF Listed, Exists, ServerType, CacheRec, LocalPhase, ServerPhase, Runs, Bk
    <3>2. QED
      BY <1>t, <1>19, <3>1 DEF Restart, QueueType
  <2>4. RunType' /\ WorkType'
    BY <1>t, <1>19, IdleType DEF Restart, RunType, WorkType
  <2>5. KeysExist'
    BY <1>t, <1>19 DEF Restart, KeysExist, Exists, IdleRun, QueueType
  <2>6. QED
    BY <2>1, <2>2, <2>3, <2>4, <2>5 DEF TypeOK
<1>20. CASE UNCHANGED vars
  BY <1>t, <1>20 DEF vars, TypeOK, ServerType, ClockType, QueueType, RunType, WorkType,
     KeysExist, Exists
<1>21. QED
  BY <1>1, <1>2, <1>3, <1>4, <1>5, <1>6, <1>7, <1>8, <1>9, <1>10, <1>11, <1>12, <1>13,
     <1>14, <1>15, <1>16, <1>17, <1>18, <1>19, <1>20 DEF Next, Handler

(* Every state of every behaviour is well typed.                           *)
THEOREM TypeCorrect == Spec => []TypeOK
<1>1. Spec => []TypeInv
  BY InitType, TypeStep, PTL DEF Spec
<1>2. TypeInv => TypeOK
  BY DEF TypeInv
<1>3. QED
  BY <1>1, <1>2, PTL

-----------------------------------------------------------------------------
(* Snapshots are never lost: a task goes from absent to pending to ended.  *)

TasksStep ==
  \A n \in Names :
    \/ tasks'[n] = tasks[n]
    \/ tasks[n] = NoTask /\ tasks'[n].phase = "Pending"
    \/ /\ tasks[n].phase = "Pending" /\ tasks'[n].phase \in Ended
       /\ tasks'[n].owner = tasks[n].owner

LEMMA AddTaskEffect ==
  ASSUME ClockType, WorkType, ServerType, NEW r \in Runs, AddTask(r)
  PROVE  \E n \in Names :
           /\ n[1] \in todo[r]
           /\ CreateTask(r, n) \/ CreateTaskFails(n)
           /\ Track(r, n)
<1>1. PICK t \in todo[r] : /\ CreateTask(r, <<t, now>>) \/ CreateTaskFails(<<t, now>>)
                           /\ Track(r, <<t, now>>)
  BY DEF AddTask
<1>2. <<t, now>> \in Names /\ <<t, now>>[1] = t
  BY DEF WorkType, ClockType, Names
<1>3. QED
  BY <1>1, <1>2

LEMMA TasksMove ==
  ASSUME TypeOK, [Next]_vars
  PROVE  TasksStep
<1>t. ServerType /\ ClockType /\ WorkType
  BY DEF TypeOK
<1>1. ASSUME NEW r \in Runs, AddTask(r) PROVE TasksStep
  <2>1. PICK n \in Names : CreateTask(r, n) \/ CreateTaskFails(n)
    BY <1>t, <1>1, AddTaskEffect
  <2>2. CASE CreateTask(r, n)
    BY <1>t, <2>2 DEF CreateTask, TasksStep, ServerType
  <2>3. CASE CreateTaskFails(n)
    BY <2>3 DEF CreateTaskFails, TasksStep
  <2>4. QED
    BY <2>1, <2>2, <2>3
<1>2. ASSUME NEW n \in Names, TaskEnds(n) PROVE TasksStep
  <2>1. PICK p \in Ended : tasks' = [tasks EXCEPT ![n].phase = p]
    BY <1>2 DEF TaskEnds
  <2>2. tasks[n] \in TaskRec /\ tasks[n].phase = "Pending"
    BY <1>t, <1>2 DEF TaskEnds, ServerType
  <2>3. QED
    BY <1>t, <2>1, <2>2 DEF TasksStep, ServerType, TaskRec
<1>3. CASE UNCHANGED tasks
  BY <1>3 DEF TasksStep
<1>4. ASSUME NEW r \in Runs, Handler(r), ~AddTask(r) PROVE UNCHANGED tasks
  BY <1>4 DEF Handler, Skip, Start, StartFails, InitStage, InitStageFails, RepoFails,
     Receive, WaitFails, Complete, Fail
<1>5. QED
  BY <1>1, <1>2, <1>3, <1>4 DEF Next, vars, CreateBackup, EditBackup, MarkDeleting, Tick,
     Deliver, Expire, WatchGap, Stop, Restart

LEMMA SavedGrows ==
  ASSUME TypeOK, TasksStep
  PROVE  \A b \in Backups : Saved(b) \subseteq Saved(b)'
<1>1. ASSUME NEW b \in Backups, NEW n \in Names,
             tasks[n] = [owner |-> b, phase |-> "Completed"]
      PROVE  tasks'[n] = tasks[n]
  BY <1>1 DEF TasksStep, NoTask
<1>2. QED
  BY <1>1 DEF Saved

-----------------------------------------------------------------------------
(* The inductive invariant. WorkInv is the part about runs.                *)

WorkInv == WatchSound /\ EventsSound /\ StageSound /\ AllAdded /\ DbsBehind /\ AllBehind

(* Steps that leave the tasks alone and, for each run, either leave its    *)
(* progress alone or take it out of its stage without a result.            *)
LEMMA Retreat ==
  ASSUME WorkInv, UNCHANGED tasks,
         \A r \in Runs : watched'[r] \subseteq watched[r],
         \A r \in Runs : events'[r] \in {events[r], <<>>},
         \A r \in Runs :
           \/ /\ run'[r].pc = run[r].pc /\ run'[r].stage = run[r].stage
              /\ todo'[r] = todo[r] /\ waiting'[r] = waiting[r]
           \/ /\ run'[r].pc \in {"idle", "init", "fail"}
              /\ run'[r].stage \in {"db", run[r].stage}
  PROVE  WorkInv'
<1>1. \A b \in Backups : Saved(b)' = Saved(b)
  BY DEF Saved
<1>2. WatchSound' /\ EventsSound'
  BY DEF WorkInv, WatchSound, EventsSound
<1>3. StageSound'
  BY <1>1 DEF WorkInv, StageSound, Outstanding, Runs, Bk
<1>4. AllAdded'
  BY DEF WorkInv, AllAdded
<1>5. DbsBehind' /\ AllBehind'
  BY <1>1 DEF WorkInv, DbsBehind, AllBehind, Runs, Bk
<1>6. QED
  BY <1>2, <1>3, <1>4, <1>5 DEF WorkInv

LEMMA InitStageWork ==
  ASSUME TypeOK, WorkInv, NEW r \in Runs, InitStage(r)
  PROVE  WorkInv'
<1> DEFINE b == Bk(r)
           s == run[r].stage
<1>t. /\ RunType /\ WorkType /\ b \in Backups /\ s \in Stage
      /\ \A q \in Runs : Bk(q) \in Backups /\ run[q] \in RunRec
  BY DEF TypeOK, RunType, RunRec, Runs, Bk
<1>1. UNCHANGED tasks /\ \A q \in Backups : Saved(q)' = Saved(q)
  BY DEF InitStage, Saved
<1>2. \A q \in Runs \ {r} : /\ run'[q] = run[q] /\ todo'[q] = todo[q] /\ waiting'[q] = waiting[q]
                            /\ watched'[q] = watched[q] /\ events'[q] = events[q]
  BY <1>t DEF InitStage, NextStage, Goto, RunType, WorkType
<1>3. /\ todo'[r] = StageTargets(b, s) /\ events'[r] = <<>>
      /\ watched'[r] \subseteq {n \in Names : tasks[n] = [owner |-> b, phase |-> "Pending"]}
  BY <1>t DEF InitStage, WorkType
<1>4. \/ run'[r].pc = "add" /\ run'[r].stage = s
      \/ StageTargets(b, s) = {} /\ s = "db" /\ run'[r].pc = "init" /\ run'[r].stage = "volume"
      \/ StageTargets(b, s) = {} /\ s = "volume" /\ run'[r].pc = "complete" /\ run'[r].stage = s
  BY <1>t DEF InitStage, NextStage, Goto, RunType, RunRec, Stage
<1>5. WatchSound'
  BY <1>1, <1>2, <1>3 DEF WorkInv, WatchSound
<1>6. EventsSound'
  BY <1>1, <1>2, <1>3 DEF WorkInv, EventsSound
<1>7. StageSound'
  <2>1. ASSUME NEW q \in Runs \ {r}, run'[q].pc \in {"add", "wait"}
        PROVE  StageTargets(Bk(q), run'[q].stage) \subseteq Outstanding(q)' \cup Saved(Bk(q))'
    BY <1>t, <1>1, <1>2, <2>1 DEF WorkInv, StageSound, Outstanding
  <2>2. ASSUME run'[r].pc \in {"add", "wait"}
        PROVE  StageTargets(b, run'[r].stage) \subseteq Outstanding(r)' \cup Saved(b)'
    BY <1>3, <1>4, <2>2 DEF Outstanding
  <2>3. QED
    BY <2>1, <2>2 DEF StageSound
<1>8. AllAdded'
  BY <1>2, <1>4 DEF WorkInv, AllAdded
<1>9. DbsBehind'
  BY <1>t, <1>1, <1>2, <1>4 DEF WorkInv, DbsBehind
<1>10. AllBehind'
  <2>1. Selected[b] = StageTargets(b, "db") \cup StageTargets(b, "volume")
    BY DEF StageTargets, StageOf
  <2>2. ASSUME run'[r].pc = "complete" PROVE Selected[b] \subseteq Saved(b)'
    BY <1>t, <1>1, <1>4, <2>1, <2>2 DEF WorkInv, DbsBehind
  <2>3. ASSUME NEW q \in Runs \ {r}, run'[q].pc = "complete"
        PROVE  Selected[Bk(q)] \subseteq Saved(Bk(q))'
    BY <1>t, <1>1, <1>2, <2>3 DEF WorkInv, AllBehind
  <2>4. QED
    BY <2>2, <2>3 DEF AllBehind
<1>11. QED
  BY <1>5, <1>6, <1>7, <1>8, <1>9, <1>10 DEF WorkInv

LEMMA AddTaskWork ==
  ASSUME TypeOK, WorkInv, TasksStep, NEW r \in Runs, AddTask(r)
  PROVE  WorkInv'
<1>t. /\ ServerType /\ ClockType /\ RunType /\ WorkType
      /\ \A q \in Runs : Bk(q) \in Backups /\ run[q] \in RunRec
  BY DEF TypeOK, RunType, Runs, Bk
<1>1. PICK n \in Names : /\ n[1] \in todo[r]
                         /\ CreateTask(r, n) \/ CreateTaskFails(n)
                         /\ Track(r, n)
  BY <1>t, AddTaskEffect
<1>2. \A q \in Backups : Saved(q) \subseteq Saved(q)'
  BY SavedGrows
<1>3. UNCHANGED events /\ run[r].pc = "add"
  BY DEF AddTask
<1>4. \A q \in Runs \ {r} : run'[q] = run[q] /\ todo'[q] = todo[q] /\ waiting'[q] = waiting[q]
  BY <1>t, <1>1 DEF Track, Goto, RunType, WorkType
<1>5. /\ todo'[r] = todo[r] \ {n[1]} /\ waiting'[r] = waiting[r] \cup {n}
      /\ run'[r].stage = run[r].stage
      /\ run'[r].pc \in {"add", "wait"} /\ (run'[r].pc = "wait" => todo[r] = {n[1]})
  BY <1>t, <1>1 DEF Track, Goto, RunType, RunRec, WorkType
<1>6. WatchSound' /\ EventsSound'
  <2>1. CASE CreateTaskFails(n)
    BY <1>3, <2>1 DEF CreateTaskFails, WorkInv, WatchSound, EventsSound
  <2>2. CASE CreateTask(r, n)
    <3>1. /\ tasks[n] = NoTask /\ tasks'[n] = [owner |-> Bk(r), phase |-> "Pending"]
          /\ \A m \in Names \ {n} : tasks'[m] = tasks[m]
      BY <1>t, <2>2 DEF CreateTask, ServerType
    <3>2. \A q \in Runs : watched'[q] = watched[q] \/ (Bk(q) = Bk(r) /\ watched'[q] = watched[q] \cup {n})
      BY <2>2 DEF CreateTask, Follows
    <3>3. WatchSound'
      <4>1. ASSUME NEW q \in Runs, NEW m \in watched'[q]
            PROVE  tasks'[m] = [owner |-> Bk(q), phase |-> "Pending"]
        <5>1. CASE m \in watched[q]
          <6>1. tasks[m] = [owner |-> Bk(q), phase |-> "Pending"] /\ m \in Names
            BY <1>t, <5>1 DEF WorkInv, WatchSound, WorkType
          <6>2. m # n
            BY <3>1, <6>1 DEF NoTask
          <6>3. QED
            BY <3>1, <6>1, <6>2
        <5>2. CASE m \notin watched[q]
          BY <3>1, <3>2, <4>1, <5>2
        <5>3. QED
          BY <5>1, <5>2
      <4>2. QED
        BY <4>1 DEF WatchSound
    <3>4. EventsSound'
      <4>1. \A q \in Runs : \A i \in 1 .. Len(events[q]) : events[q][i] \in Names
        BY <1>t DEF WorkType
      <4>2. QED
        BY <1>3, <3>1, <4>1 DEF WorkInv, EventsSound, NoTask, Ended
    <3>5. QED
      BY <3>3, <3>4
  <2>3. QED
    BY <1>1, <2>1, <2>2
<1>7. StageSound'
  <2>1. ASSUME NEW q \in Runs \ {r}, run'[q].pc \in {"add", "wait"}
        PROVE  StageTargets(Bk(q), run'[q].stage) \subseteq Outstanding(q)' \cup Saved(Bk(q))'
    BY <1>t, <1>2, <1>4, <2>1 DEF WorkInv, StageSound, Outstanding
  <2>2. Outstanding(r) \subseteq Outstanding(r)'
    BY <1>5 DEF Outstanding
  <2>3. StageTargets(Bk(r), run'[r].stage) \subseteq Outstanding(r)' \cup Saved(Bk(r))'
    BY <1>t, <1>2, <1>3, <1>5, <2>2 DEF WorkInv, StageSound
  <2>4. QED
    BY <2>1, <2>3 DEF StageSound
<1>8. AllAdded'
  BY <1>4, <1>5 DEF WorkInv, AllAdded
<1>9. DbsBehind' /\ AllBehind'
  BY <1>t, <1>2, <1>4, <1>5 DEF WorkInv, DbsBehind, AllBehind
<1>10. QED
  BY <1>6, <1>7, <1>8, <1>9 DEF WorkInv

LEMMA ReceiveWork ==
  ASSUME TypeOK, WorkInv, NEW r \in Runs, Receive(r)
  PROVE  WorkInv'
<1> DEFINE b == Bk(r)
           s == run[r].stage
           n == Head(events[r])
<1>t. /\ RunType /\ WorkType /\ b \in Backups /\ s \in Stage
      /\ \A q \in Runs : Bk(q) \in Backups /\ run[q] \in RunRec
  BY DEF TypeOK, RunType, RunRec, Runs, Bk
<1>1. UNCHANGED <<tasks, todo, watched>> /\ \A q \in Backups : Saved(q)' = Saved(q)
  BY DEF Receive, Saved
<1>2. \A q \in Runs \ {r} : run'[q] = run[q] /\ waiting'[q] = waiting[q] /\ events'[q] = events[q]
  BY <1>t DEF Receive, NextStage, Goto, RunType, WorkType
<1>3. run[r].pc = "wait" /\ todo[r] = {}
  BY DEF Receive, WorkInv, AllAdded
<1>4. /\ n \in Names /\ tasks[n] \in [owner : {b}, phase : Ended]
      /\ events[r] \in Seq(Names) /\ events[r] # <<>> /\ events'[r] = Tail(events[r])
  BY <1>t DEF Receive, WorkType, WorkInv, EventsSound
<1>5. WatchSound'
  BY <1>1 DEF WorkInv, WatchSound
<1>6. EventsSound'
  <2>1. \A i \in 1 .. Len(Tail(events[r])) :
          i + 1 \in 1 .. Len(events[r]) /\ Tail(events[r])[i] = events[r][i + 1]
    BY <1>4
  <2>2. \A i \in 1 .. Len(events'[r]) : tasks'[events'[r][i]] \in [owner : {b}, phase : Ended]
    BY <1>1, <1>4, <2>1 DEF WorkInv, EventsSound
  <2>3. QED
    BY <1>1, <1>2, <2>2 DEF WorkInv, EventsSound
<1>7. CASE IsFailure(n)
  <2>1. run'[r].pc = "fail" /\ run'[r].stage = s /\ waiting' = waiting
    BY <1>t, <1>7 DEF Receive, Goto, RunType, RunRec
  <2>2. StageSound' /\ AllAdded'
    BY <1>t, <1>1, <1>2, <2>1 DEF WorkInv, StageSound, AllAdded, Outstanding
  <2>3. DbsBehind' /\ AllBehind'
    BY <1>t, <1>1, <1>2, <2>1 DEF WorkInv, DbsBehind, AllBehind
  <2>4. QED
    BY <1>5, <1>6, <2>2, <2>3 DEF WorkInv
<1>8. CASE ~IsFailure(n)
  <2>1. n[1] \in Saved(b) /\ waiting'[r] = waiting[r] \ {n}
    <3>1. tasks[n] = [owner |-> b, phase |-> "Completed"]
      BY <1>4, <1>8 DEF IsFailure, Ended
    <3>2. QED
      BY <1>t, <1>4, <1>8, <3>1 DEF Receive, WorkType, Saved, Names
  <2>2. StageTargets(b, s) \subseteq {m[1] : m \in waiting[r]} \cup Saved(b)
    BY <1>t, <1>3 DEF WorkInv, StageSound, Outstanding
  <2>3. StageTargets(b, s) \subseteq {m[1] : m \in waiting'[r]} \cup Saved(b)
    BY <2>1, <2>2
  <2>4. \/ run'[r] = run[r]
        \/ /\ StageTargets(b, s) \subseteq Saved(b)
           /\ \/ s = "db" /\ run'[r].pc = "init" /\ run'[r].stage = "volume"
              \/ s = "volume" /\ run'[r].pc = "complete" /\ run'[r].stage = s
    <3>1. CASE ~(waiting[r] \subseteq {n})
      BY <1>8, <3>1 DEF Receive
    <3>2. CASE waiting[r] \subseteq {n}
      <4>1. StageTargets(b, s) \subseteq Saved(b)
        BY <2>1, <2>3, <3>2
      <4>2. QED
        BY <1>t, <1>8, <3>2, <4>1 DEF Receive, NextStage, RunType, RunRec, Stage
    <3>3. QED
      BY <3>1, <3>2
  <2>5. StageSound'
    <3>1. ASSUME run'[r].pc \in {"add", "wait"}
          PROVE  StageTargets(b, run'[r].stage) \subseteq Outstanding(r)' \cup Saved(b)'
      BY <1>t, <1>1, <2>3, <2>4, <3>1 DEF Outstanding
    <3>2. ASSUME NEW q \in Runs \ {r}, run'[q].pc \in {"add", "wait"}
          PROVE  StageTargets(Bk(q), run'[q].stage) \subseteq Outstanding(q)' \cup Saved(Bk(q))'
      BY <1>t, <1>1, <1>2, <3>2 DEF WorkInv, StageSound, Outstanding
    <3>3. QED
      BY <3>1, <3>2 DEF StageSound
  <2>6. AllAdded'
    BY <1>1, <1>2, <1>3 DEF WorkInv, AllAdded
  <2>7. DbsBehind'
    BY <1>t, <1>1, <1>2, <2>4 DEF WorkInv, DbsBehind
  <2>8. AllBehind'
    <3>1. Selected[b] = StageTargets(b, "db") \cup StageTargets(b, "volume")
      BY DEF StageTargets, StageOf
    <3>2. ASSUME run'[r].pc = "complete" PROVE Selected[b] \subseteq Saved(b)'
      BY <1>t, <1>1, <1>3, <2>4, <3>1, <3>2 DEF WorkInv, DbsBehind
    <3>3. ASSUME NEW q \in Runs \ {r}, run'[q].pc = "complete"
          PROVE  Selected[Bk(q)] \subseteq Saved(Bk(q))'
      BY <1>t, <1>1, <1>2, <3>3 DEF WorkInv, AllBehind
    <3>4. QED
      BY <3>2, <3>3 DEF AllBehind
  <2>9. QED
    BY <1>5, <1>6, <2>5, <2>6, <2>7, <2>8 DEF WorkInv
<1>9. QED
  BY <1>7, <1>8

LEMMA TaskEndsWork ==
  ASSUME TypeOK, WorkInv, TasksStep, NEW n \in Names, TaskEnds(n)
  PROVE  WorkInv'
<1>t. /\ ServerType /\ WorkType /\ \A q \in Runs : Bk(q) \in Backups
  BY DEF TypeOK, Runs, Bk
<1>1. UNCHANGED <<run, todo, waiting>> /\ \A q \in Backups : Saved(q) \subseteq Saved(q)'
  BY SavedGrows DEF TaskEnds
<1>2. PICK p \in Ended : tasks' = [tasks EXCEPT ![n].phase = p]
  BY DEF TaskEnds
<1>3. /\ tasks'[n] = [owner |-> tasks[n].owner, phase |-> p]
      /\ tasks[n].phase = "Pending"
      /\ \A m \in Names \ {n} : tasks'[m] = tasks[m]
  BY <1>t, <1>2 DEF TaskEnds, ServerType, TaskRec
<1>4. WatchSound'
  BY <1>t, <1>3 DEF TaskEnds, WorkInv, WatchSound, WorkType
<1>5. EventsSound'
  <2>1. ASSUME NEW q \in Runs, NEW i \in 1 .. Len(events'[q])
        PROVE  tasks'[events'[q][i]] \in [owner : {Bk(q)}, phase : Ended]
    <3>1. CASE i \in 1 .. Len(events[q]) /\ events'[q][i] = events[q][i]
      <4>1. events[q][i] \in Names /\ tasks[events[q][i]] \in [owner : {Bk(q)}, phase : Ended]
        BY <1>t, <3>1 DEF WorkType, WorkInv, EventsSound
      <4>2. QED
        BY <1>3, <3>1, <4>1 DEF Ended
    <3>2. CASE n \in watched[q] /\ events'[q][i] = n
      <4>1. tasks[n] = [owner |-> Bk(q), phase |-> "Pending"]
        BY <3>2 DEF WorkInv, WatchSound
      <4>2. tasks'[n] = [owner |-> Bk(q), phase |-> p]
        BY <1>3, <4>1
      <4>3. QED
        BY <1>2, <3>2, <4>2
    <3>3. events[q] \in Seq(Names)
      BY <1>t DEF WorkType
    <3>4. CASE n \in watched[q]
      <4>1. events'[q] = Append(events[q], n)
        BY <3>4 DEF TaskEnds
      <4>2. i \in 1 .. Len(events[q]) \/ i = Len(events[q]) + 1
        BY <2>1, <3>3, <4>1
      <4>3. QED
        BY <3>1, <3>2, <3>3, <3>4, <4>1, <4>2
    <3>5. CASE n \notin watched[q]
      BY <2>1, <3>1, <3>5 DEF TaskEnds
    <3>6. QED
      BY <3>4, <3>5
  <2>2. QED
    BY <2>1 DEF EventsSound
<1>6. StageSound' /\ AllAdded' /\ DbsBehind' /\ AllBehind'
  BY <1>t, <1>1 DEF WorkInv, StageSound, AllAdded, DbsBehind, AllBehind, Outstanding
<1>7. QED
  BY <1>4, <1>5, <1>6 DEF WorkInv

LEMMA WorkStep ==
  ASSUME TypeOK, WorkInv, TasksStep, [Next]_vars
  PROVE  WorkInv'
<1>t. RunType /\ WorkType
  BY DEF TypeOK
<1>1. CASE UNCHANGED <<tasks, watched, events, run, todo, waiting>>
  BY <1>1, Retreat
<1>2. ASSUME NEW r \in Runs, Deliver(r) PROVE WorkInv'
  BY <1>t, <1>2, Retreat DEF Deliver, RunType, RunRec
<1>3. ASSUME NEW r \in Runs, Start(r) PROVE WorkInv'
  BY <1>t, <1>3, Retreat DEF Start, RunType
<1>4. ASSUME NEW r \in Runs, InitStageFails(r) \/ RepoFails(r) \/ WaitFails(r) PROVE WorkInv'
  BY <1>t, <1>4, Retreat DEF InitStageFails, RepoFails, WaitFails, Goto, RunType, RunRec
<1>5. ASSUME NEW r \in Runs, Complete(r) \/ Fail(r) PROVE WorkInv'
  <2>1. UNCHANGED tasks /\ EndRun(r)
    BY <1>5 DEF Complete, Fail
  <2>2. QED
    BY <1>t, <2>1, Retreat DEF EndRun, IdleRun, RunType, WorkType
<1>6. ASSUME NEW r \in Runs, Expire(r) PROVE WorkInv'
  BY <1>t, <1>6, Retreat DEF Expire, RunType, RunRec, WorkType
<1>7. ASSUME NEW r \in Runs, NEW n \in Names, WatchGap(r, n) PROVE WorkInv'
  BY <1>t, <1>7, Retreat DEF WatchGap, WorkType
<1>8. ASSUME NEW o \in Operators, Restart(o) PROVE WorkInv'
  BY <1>t, <1>8, Retreat DEF Restart, IdleRun, RunType, WorkType
<1>9. QED
  BY <1>1, <1>2, <1>3, <1>4, <1>5, <1>6, <1>7, <1>8, InitStageWork, AddTaskWork,
     ReceiveWork, TaskEndsWork
  DEF Next, Handler, vars, runVars, CreateBackup, EditBackup, MarkDeleting, Tick, Skip,
      StartFails, Stop

(* A version that says Completed is only written over saved targets.       *)
LEMMA HonestStep ==
  ASSUME TypeInv, AllBehind, VersionsHonest, TasksStep, [Next]_vars
  PROVE  VersionsHonest'
<1>t. ServerType /\ KeysExist /\ \A r \in Runs : Bk(r) \in Backups
  BY DEF TypeInv, TypeOK, Runs, Bk
<1>1. \A b \in Backups : Saved(b) \subseteq Saved(b)'
  BY SavedGrows DEF TypeInv
<1>2. CASE UNCHANGED versions
  BY <1>1, <1>2 DEF VersionsHonest
<1>3. ASSUME NEW b \in Backups, CreateBackup(b) PROVE VersionsHonest'
  BY <1>t, <1>1, <1>3 DEF CreateBackup, VersionsHonest, ServerType
<1>4. ASSUME NEW b \in Backups, NEW p \in ServerPhase,
             versions' = [versions EXCEPT ![b] = Append(@, p)],
             p = "Completed" => Selected[b] \subseteq Saved(b)
      PROVE  VersionsHonest'
  <2>1. ASSUME NEW q \in Backups, NEW i \in 1 .. Len(versions'[q]), versions'[q][i] = "Completed"
        PROVE  Selected[q] \subseteq Saved(q)
    <3>1. versions[q] \in Seq(ServerPhase)
      BY <1>t DEF ServerType
    <3>2. CASE i \in 1 .. Len(versions[q]) /\ versions'[q][i] = versions[q][i]
      BY <2>1, <3>2 DEF VersionsHonest
    <3>3. CASE q = b /\ versions'[q][i] = p
      BY <1>4, <2>1, <3>3
    <3>4. CASE q = b
      <4>1. versions'[q] = Append(versions[q], p)
        BY <1>t, <1>4, <3>4 DEF ServerType
      <4>2. i \in 1 .. Len(versions[q]) \/ i = Len(versions[q]) + 1
        BY <2>1, <3>1, <4>1
      <4>3. QED
        BY <3>1, <3>2, <3>3, <3>4, <4>1, <4>2
    <3>5. CASE q # b
      BY <1>t, <1>4, <2>1, <3>2, <3>5 DEF ServerType
    <3>6. QED
      BY <3>4, <3>5
  <2>2. QED
    BY <1>1, <2>1 DEF VersionsHonest
<1>5. ASSUME NEW b \in Backups, Phase(b) = "Completed" PROVE Selected[b] \subseteq Saved(b)
  <2>1. Exists(b)
    BY <1>5 DEF Phase
  <2>2. Len(versions[b]) \in 1 .. Len(versions[b])
    BY <1>t, <2>1, PhaseType
  <2>3. QED
    BY <1>5, <2>1, <2>2 DEF Phase, VersionsHonest
<1>6. ASSUME NEW b \in Backups, EditBackup(b) \/ MarkDeleting(b) PROVE VersionsHonest'
  <2>1. Exists(b) /\ Phase(b) \in ServerPhase
    BY <1>t, <1>6, PhaseType DEF EditBackup, MarkDeleting, Phase
  <2>2. QED
    BY <1>4, <1>5, <1>6, <2>1 DEF EditBackup, MarkDeleting, ServerPhase
<1>7. ASSUME NEW r \in Runs, Complete(r) PROVE VersionsHonest'
  <2>1. Selected[Bk(r)] \subseteq Saved(Bk(r))
    BY <1>7 DEF AllBehind, Complete
  <2>2. QED
    BY <1>t, <1>2, <1>4, <1>7, <2>1 DEF Complete, ServerPhase
<1>8. ASSUME NEW r \in Runs, Fail(r) PROVE VersionsHonest'
  <2>1. Phase(Bk(r)) \in ServerPhase
    BY <1>t, <1>8, PhaseType DEF KeysExist, Fail
  <2>2. QED
    BY <1>t, <1>2, <1>4, <1>5, <1>8, <2>1 DEF Fail, ServerPhase
<1>9. ASSUME NEW r \in Runs, Handler(r), ~Complete(r), ~Fail(r) PROVE UNCHANGED versions
  BY <1>9 DEF Handler, Skip, Start, StartFails, InitStage, InitStageFails, AddTask, RepoFails,
     Receive, WaitFails
<1>10. QED
  BY <1>2, <1>3, <1>6, <1>7, <1>8, <1>9 DEF Next, vars, Deliver, Expire, TaskEnds, WatchGap,
     Stop, Restart, Tick

LEMMA ExistsStable ==
  ASSUME TypeInv, [Next]_vars
  PROVE  \A b \in Backups : Exists(b) => Exists(b)'
<1>t. ServerType /\ KeysExist /\ \A r \in Runs : Bk(r) \in Backups
  BY DEF TypeInv, TypeOK, Runs, Bk
<1>1. ASSUME NEW b \in Backups, NEW p, versions' = [versions EXCEPT ![b] = Append(@, p)],
             p \in ServerPhase, UNCHANGED tasks
      PROVE  \A q \in Backups : Exists(q) => Exists(q)'
  BY <1>t, <1>1, AppendType
<1>2. CASE UNCHANGED versions
  BY <1>2 DEF Exists
<1>3. ASSUME NEW b \in Backups, CreateBackup(b) PROVE \A q \in Backups : Exists(q) => Exists(q)'
  BY <1>t, <1>3 DEF CreateBackup, Exists, ServerType
<1>4. ASSUME NEW b \in Backups, EditBackup(b) \/ MarkDeleting(b)
      PROVE  \A q \in Backups : Exists(q) => Exists(q)'
  <2>1. Phase(b) \in ServerPhase
    BY <1>t, <1>4, PhaseType DEF EditBackup, MarkDeleting, Phase
  <2>2. QED
    BY <1>1, <1>4, <2>1 DEF EditBackup, MarkDeleting, ServerPhase
<1>5. ASSUME NEW r \in Runs, Complete(r) \/ Fail(r) PROVE \A q \in Backups : Exists(q) => Exists(q)'
  <2>1. Phase(Bk(r)) \in ServerPhase
    BY <1>t, <1>5, PhaseType DEF KeysExist, Complete, Fail
  <2>2. QED
    BY <1>t, <1>1, <1>2, <1>5, <2>1 DEF Complete, Fail, ServerPhase
<1>6. ASSUME NEW r \in Runs, Handler(r), ~Complete(r), ~Fail(r) PROVE UNCHANGED versions
  BY <1>6 DEF Handler, Skip, Start, StartFails, InitStage, InitStageFails, AddTask, RepoFails,
     Receive, WaitFails
<1>7. QED
  BY <1>2, <1>3, <1>4, <1>5, <1>6 DEF Next, vars, Deliver, Expire, TaskEnds, WatchGap,
     Stop, Restart, Tick

LEMMA OnlyAddTask ==
  ASSUME TypeOK, [Next]_vars, NEW n \in Names, tasks[n] = NoTask, tasks'[n] # NoTask
  PROVE  \E r \in Runs : AddTask(r)
<1>1. ASSUME NEW m \in Names, TaskEnds(m) PROVE FALSE
  <2>1. m # n
    BY <1>1 DEF TaskEnds, NoTask
  <2>2. tasks'[n] = tasks[n]
    BY <1>1, <2>1 DEF TaskEnds, TypeOK, ServerType
  <2>3. QED
    BY <2>2
<1>2. ASSUME NEW r \in Runs, Handler(r), ~AddTask(r) PROVE FALSE
  BY <1>2 DEF Handler, Skip, Start, StartFails, InitStage, InitStageFails, RepoFails,
     Receive, WaitFails, Complete, Fail
<1>3. QED
  BY <1>1, <1>2 DEF Next, vars, CreateBackup, EditBackup, MarkDeleting, Tick,
     Deliver, Expire, WatchGap, Stop, Restart

LEMMA OwnedStep ==
  ASSUME TypeInv, TasksOwned, TasksStep, [Next]_vars
  PROVE  TasksOwned'
<1>t. /\ ServerType /\ ClockType /\ WorkType /\ KeysExist
      /\ \A r \in Runs : Bk(r) \in Backups
  BY DEF TypeInv, TypeOK, Runs, Bk
<1>1. \A b \in Backups : Exists(b) => Exists(b)'
  BY TypeStep, ExistsStable DEF TypeInv
<1>2. ASSUME NEW n \in Names, tasks[n] # NoTask
      PROVE  \E b \in Backups : Exists(b)' /\
               tasks'[n] \in [owner : {b}, phase : {"Pending"} \cup Ended]
  <2>1. PICK b \in Backups : Exists(b) /\ tasks[n] \in [owner : {b}, phase : {"Pending"} \cup Ended]
    BY <1>2 DEF TasksOwned
  <2>2. tasks'[n] \in [owner : {b}, phase : {"Pending"} \cup Ended]
    BY <1>2, <2>1, TypeStep DEF TasksStep, TypeInv, TypeOK, ServerType, TaskRec
  <2>3. QED
    BY <1>1, <2>1, <2>2
<1>3. ASSUME NEW n \in Names, tasks[n] = NoTask, tasks'[n] # NoTask
      PROVE  \E b \in Backups : Exists(b)' /\
               tasks'[n] \in [owner : {b}, phase : {"Pending"} \cup Ended]
  <2>1. PICK r \in Runs : AddTask(r)
    BY <1>3, OnlyAddTask DEF TypeInv
  <2>2. PICK m \in Names : CreateTask(r, m) \/ CreateTaskFails(m)
    BY <1>t, <2>1, AddTaskEffect
  <2>3. tasks'[n] = [owner |-> Bk(r), phase |-> "Pending"]
    BY <1>t, <1>3, <2>2 DEF CreateTask, CreateTaskFails, ServerType
  <2>4. Exists(Bk(r))
    BY <1>t, <2>1 DEF KeysExist, AddTask
  <2>5. QED
    BY <1>t, <1>1, <2>3, <2>4
<1>4. QED
  BY <1>2, <1>3 DEF TasksOwned

LEMMA InitInv == Init => IInv
<1>1. ASSUME Init PROVE IInv
  <2>1. TypeOK /\ KeysExist
    BY <1>1, InitType DEF TypeInv
  <2>2. TasksOwned /\ WatchSound /\ EventsSound
    BY <1>1 DEF Init, TasksOwned, WatchSound, EventsSound
  <2>3. StageSound /\ AllAdded /\ DbsBehind /\ AllBehind
    BY <1>1 DEF Init, IdleRun, StageSound, AllAdded, DbsBehind, AllBehind
  <2>4. VersionsHonest
    BY <1>1 DEF Init, VersionsHonest
  <2>5. QED
    BY <2>1, <2>2, <2>3, <2>4 DEF IInv
<1>2. QED
  BY <1>1

LEMMA StepInv == IInv /\ [Next]_vars => IInv'
<1> SUFFICES ASSUME IInv, [Next]_vars PROVE IInv'
  OBVIOUS
<1>1. TypeOK /\ TypeInv /\ TasksOwned /\ WorkInv /\ AllBehind /\ VersionsHonest
  BY DEF IInv, TypeInv, WorkInv
<1>2. TypeInv' /\ TasksStep
  BY <1>1, TypeStep, TasksMove
<1>3. WorkInv' /\ VersionsHonest' /\ TasksOwned'
  BY <1>1, <1>2, WorkStep, HonestStep, OwnedStep
<1>4. QED
  BY <1>2, <1>3 DEF IInv, TypeInv, WorkInv

(* The invariant holds in every reachable state.                           *)
THEOREM Invariance == Spec => []IInv
BY InitInv, StepInv, PTL DEF Spec

LEMMA LastIsHonest ==
  ASSUME IInv, NEW b \in Backups, Phase(b) = "Completed"
  PROVE  Selected[b] \subseteq Saved(b)
<1>1. Exists(b) /\ ServerType /\ VersionsHonest
  BY DEF Phase, IInv, TypeOK
<1>2. Len(versions[b]) \in 1 .. Len(versions[b])
  BY <1>1, PhaseType
<1>3. QED
  BY <1>1, <1>2 DEF Phase, VersionsHonest

(* A Backup shown as Completed has a completed snapshot of its own for     *)
(* every target it selects.                                                *)
THEOREM CompletedIsSaved == Spec => []CompletedHasSnapshots
<1>1. IInv => CompletedHasSnapshots
  BY LastIsHonest DEF CompletedHasSnapshots
<1>2. QED
  BY <1>1, Invariance, PTL

-----------------------------------------------------------------------------
(* The controller keeps the promise: each of its steps is a step of        *)
(* BackupPromise on what the API server shows, or changes nothing there.   *)

LEMMA ShownSame ==
  ASSUME \A b \in Backups : Phase(b)' = Phase(b) /\ Saved(b)' = Saved(b)
  PROVE  UNCHANGED <<PhaseShown, SavedShown>>
BY DEF PhaseShown, SavedShown

LEMMA ShownAppend ==
  ASSUME ServerType, UNCHANGED tasks, NEW b \in Backups, NEW p \in ServerPhase,
         versions' = [versions EXCEPT ![b] = Append(@, p)]
  PROVE  PhaseShown' = [PhaseShown EXCEPT ![b] = p] /\ SavedShown' = SavedShown
<1>1. versions[b] \in Seq(ServerPhase) /\ versions'[b] = Append(versions[b], p)
  BY DEF ServerType
<1>2. Phase(b)' = p
  <2>1. versions'[b] # <<>> /\ versions'[b][Len(versions'[b])] = p
    BY <1>1
  <2>2. QED
    BY <2>1 DEF Phase, Exists
<1>3. \A q \in Backups \ {b} : Phase(q)' = Phase(q)
  BY DEF Phase, Exists, ServerType
<1>4. SavedShown' = SavedShown
  BY DEF SavedShown, Saved
<1>5. QED
  BY <1>2, <1>3, <1>4 DEF PhaseShown

LEMMA PromiseStep ==
  ASSUME IInv, [Next]_vars
  PROVE  [Promise!Next]_<<PhaseShown, SavedShown>>
<1> DEFINE Step == [Promise!Next]_<<PhaseShown, SavedShown>>
<1>t. /\ TypeOK /\ ServerType /\ KeysExist /\ TasksOwned /\ AllBehind
      /\ ClockType /\ WorkType /\ \A r \in Runs : Bk(r) \in Backups
  BY DEF IInv, TypeOK, Runs, Bk
<1>0. /\ \A b \in Backups : Exists(b) => Phase(b) # "Absent"
      /\ \A b \in Backups : PhaseShown[b] = Phase(b) /\ SavedShown[b] = Saved(b)
  BY <1>t, PhaseType DEF PhaseShown, SavedShown, ServerPhase
<1>1. CASE UNCHANGED <<versions, tasks>>
  BY <1>1, ShownSame DEF Phase, Exists, Saved
<1>2. ASSUME NEW b \in Backups, NEW p \in ServerPhase, Exists(b), UNCHANGED tasks,
             versions' = [versions EXCEPT ![b] = Append(@, p)],
             p \in {Phase(b), "Failed", "Deleting"}
                \/ (p = "Completed" /\ Selected[b] \subseteq Saved(b))
      PROVE  Step
  <2>1. PhaseShown' = [PhaseShown EXCEPT ![b] = p] /\ SavedShown' = SavedShown
    BY <1>t, <1>2, ShownAppend
  <2>2. CASE p = Phase(b)
    <3>1. PhaseShown' = PhaseShown
      BY <2>1, <2>2 DEF PhaseShown
    <3>2. QED
      BY <2>1, <3>1
  <2>3. CASE p \in {"Failed", "Deleting"}
    <3>1. Promise!Overwrite(b)
      BY <1>0, <1>2, <2>1, <2>3 DEF Promise!Overwrite
    <3>2. QED
      BY <3>1 DEF Promise!Next
  <2>4. CASE p = "Completed" /\ Selected[b] \subseteq Saved(b)
    <3>1. Promise!Complete(b)
      BY <1>0, <1>2, <2>1, <2>4 DEF Promise!Complete
    <3>2. QED
      BY <3>1 DEF Promise!Next
  <2>5. QED
    BY <1>2, <2>2, <2>3, <2>4
<1>3. ASSUME NEW b \in Backups, CreateBackup(b) PROVE Step
  <2>1. PhaseShown' = [PhaseShown EXCEPT ![b] = "New"] /\ SavedShown' = SavedShown
    BY <1>t, <1>3 DEF CreateBackup, PhaseShown, SavedShown, Phase, Exists, Saved, ServerType
  <2>2. Promise!Create(b)
    BY <1>0, <1>3, <2>1 DEF CreateBackup, Promise!Create, Phase
  <2>3. QED
    BY <2>2 DEF Promise!Next
<1>4. ASSUME NEW b \in Backups, EditBackup(b) \/ MarkDeleting(b) PROVE Step
  <2>1. Exists(b) /\ Phase(b) \in ServerPhase
    BY <1>t, <1>4, PhaseType DEF EditBackup, MarkDeleting, Phase
  <2>2. QED
    BY <1>2, <1>4, <2>1 DEF EditBackup, MarkDeleting, ServerPhase
<1>5. ASSUME NEW r \in Runs, Complete(r) PROVE Step
  BY <1>t, <1>1, <1>2, <1>5 DEF Complete, KeysExist, AllBehind, ServerPhase
<1>6. ASSUME NEW r \in Runs, Fail(r) PROVE Step
  <2>1. Exists(Bk(r)) /\ Phase(Bk(r)) \in ServerPhase
    BY <1>t, <1>6, PhaseType DEF KeysExist, Fail
  <2>2. QED
    BY <1>t, <1>1, <1>2, <1>6, <2>1 DEF Fail, ServerPhase
<1>7. ASSUME NEW r \in Runs, AddTask(r) PROVE Step
  <2>1. PICK n \in Names : CreateTask(r, n) \/ CreateTaskFails(n)
    BY <1>t, <1>7, AddTaskEffect
  <2>2. \A m \in Names : tasks'[m] = tasks[m] \/ (tasks[m] = NoTask /\ tasks'[m].phase = "Pending")
    BY <1>t, <2>1 DEF CreateTask, CreateTaskFails, ServerType
  <2>3. \A b \in Backups : Saved(b)' = Saved(b)
    BY <2>2 DEF Saved, NoTask
  <2>4. \A b \in Backups : Phase(b)' = Phase(b)
    BY <1>7 DEF AddTask, Phase, Exists
  <2>5. QED
    BY <2>3, <2>4, ShownSame
<1>8. ASSUME NEW n \in Names, TaskEnds(n) PROVE Step
  <2>1. PICK p \in Ended : tasks' = [tasks EXCEPT ![n].phase = p]
    BY <1>8 DEF TaskEnds
  <2>2. PICK b \in Backups : Exists(b) /\ tasks[n] = [owner |-> b, phase |-> "Pending"]
    BY <1>t, <1>8 DEF TaskEnds, TasksOwned, NoTask
  <2>3. /\ tasks'[n] = [owner |-> b, phase |-> p]
        /\ \A m \in Names \ {n} : tasks'[m] = tasks[m]
    BY <1>t, <2>1, <2>2 DEF ServerType
  <2>4. \A q \in Backups : Phase(q)' = Phase(q)
    BY <1>8 DEF TaskEnds, Phase, Exists
  <2>5. n[1] \in Targets
    BY DEF Names
  <2>6. CASE p = "Failed"
    <3>1. \A q \in Backups : Saved(q)' = Saved(q)
      BY <2>2, <2>3, <2>6 DEF Saved
    <3>2. QED
      BY <2>4, <3>1, ShownSame
  <2>7. CASE p = "Completed"
    <3>1. Saved(b)' = Saved(b) \cup {n[1]}
      BY <2>2, <2>3, <2>5, <2>7 DEF Saved
    <3>2. \A q \in Backups \ {b} : Saved(q)' = Saved(q)
      BY <2>2, <2>3, <2>7 DEF Saved
    <3>3. SavedShown' = [SavedShown EXCEPT ![b] = @ \cup {n[1]}] /\ PhaseShown' = PhaseShown
      BY <2>4, <3>1, <3>2 DEF SavedShown, PhaseShown
    <3>4. Promise!Save(b, n[1])
      BY <1>0, <2>2, <3>3 DEF Promise!Save
    <3>5. QED
      BY <2>5, <3>4 DEF Promise!Next
  <2>8. QED
    BY <2>1, <2>6, <2>7 DEF Ended
<1>9. ASSUME NEW r \in Runs, Handler(r), ~Complete(r), ~Fail(r), ~AddTask(r)
      PROVE  UNCHANGED <<versions, tasks>>
  BY <1>9 DEF Handler, Skip, Start, StartFails, InitStage, InitStageFails, RepoFails,
     Receive, WaitFails
<1>10. QED
  BY <1>1, <1>3, <1>4, <1>5, <1>6, <1>7, <1>8, <1>9 DEF Next, vars, Deliver, Expire, WatchGap,
     Stop, Restart, Tick

(* The controller implements BackupPromise.                                *)
THEOREM KeepsPromise == Spec => Promised
<1>1. Init => Promise!Init
  BY DEF Init, Promise!Init, PhaseShown, SavedShown, Phase, Exists, Saved, NoTask
<1>2. IInv /\ [Next]_vars => [Promise!Next]_<<PhaseShown, SavedShown>>
  BY PromiseStep
<1>3. QED
  BY <1>1, <1>2, Invariance, PTL DEF Spec, Promised, Promise!Spec

-----------------------------------------------------------------------------
(* What moves: counters of disturbances, versions, and the run of a key.   *)
LEMMA UsedGrows ==
  ASSUME ClockType, [Next]_vars, NEW k \in Kinds
  PROVE  used[k] \in Nat /\ used'[k] \in Nat /\ used[k] <= used'[k]
<1>t. used \in [Kinds -> Nat]
  BY DEF ClockType
<1>1. ASSUME NEW l \in {"api", "lost", "restart", "edit", "delete", "gap", "relist"}, Spend(l)
      PROVE  used'[k] \in Nat /\ used[k] <= used'[k]
  BY <1>t, <1>1, KindsAssumption DEF Spend
<1>2. CASE UNCHANGED used
  BY <1>t, <1>2
<1>3. ASSUME NEW r \in Runs, Handler(r) PROVE used'[k] \in Nat /\ used[k] <= used'[k]
  BY <1>1, <1>2, <1>3 DEF Handler, Skip, Start, StartFails, InitStage, InitStageFails, AddTask,
     CreateTask, CreateTaskFails, RepoFails, Receive, WaitFails, Complete, Fail, envVars
<1>4. ASSUME NEW r \in Runs, Deliver(r) PROVE used'[k] \in Nat /\ used[k] <= used'[k]
  BY <1>1, <1>2, <1>4 DEF Deliver
<1>5. QED
  BY <1>t, <1>1, <1>2, <1>3, <1>4 DEF Next, vars, envVars, CreateBackup, EditBackup,
     MarkDeleting, Tick, Expire, TaskEnds, WatchGap, Stop, Restart

(* The writes of Backups that exist.                                       *)
Writes(b, p) ==
  /\ Exists(b) /\ p \in ServerPhase /\ UNCHANGED tasks
  /\ versions' = [versions EXCEPT ![b] = Append(@, p)]
  /\ \/ EditBackup(b) /\ p = Phase(b)
     \/ MarkDeleting(b) /\ p = "Deleting"
     \/ \E r \in Runs : Bk(r) = b /\ Complete(r) /\ p = "Completed"
     \/ \E r \in Runs : Bk(r) = b /\ Fail(r) /\ CanReport(r)
                      /\ p = (IF run[r].phase = "Failed" THEN Phase(b) ELSE "Failed")

LEMMA VersionsMove ==
  ASSUME TypeInv, [Next]_vars
  PROVE  \/ UNCHANGED versions
         \/ \E b \in Backups : CreateBackup(b)
         \/ \E b \in Backups, p \in ServerPhase : Writes(b, p)
<1> DEFINE Goal == \/ UNCHANGED versions
                   \/ \E b \in Backups : CreateBackup(b)
                   \/ \E b \in Backups, p \in ServerPhase : Writes(b, p)
<1>t. ServerType /\ KeysExist /\ \A r \in Runs : Bk(r) \in Backups
  BY DEF TypeInv, TypeOK, Runs, Bk
<1>1. CASE UNCHANGED versions
  BY <1>1
<1>2. ASSUME NEW b \in Backups, EditBackup(b) \/ MarkDeleting(b) PROVE Goal
  <2>1. Exists(b) /\ Phase(b) \in ServerPhase /\ "Deleting" \in ServerPhase
    BY <1>t, <1>2, PhaseType DEF EditBackup, MarkDeleting, Phase, ServerPhase
  <2>2. Writes(b, Phase(b)) \/ Writes(b, "Deleting")
    BY <1>2, <2>1 DEF EditBackup, MarkDeleting, Writes
  <2>3. QED
    BY <2>1, <2>2
<1>3. ASSUME NEW r \in Runs, Complete(r) PROVE Goal
  <2>1. Exists(Bk(r)) /\ "Completed" \in ServerPhase
    BY <1>t, <1>3 DEF KeysExist, Complete, ServerPhase
  <2>2. UNCHANGED versions \/ Writes(Bk(r), "Completed")
    BY <1>3, <2>1 DEF Complete, Writes
  <2>3. QED
    BY <1>t, <2>1, <2>2
<1>4. ASSUME NEW r \in Runs, Fail(r) PROVE Goal
  <2> DEFINE p == IF run[r].phase = "Failed" THEN Phase(Bk(r)) ELSE "Failed"
  <2>1. Exists(Bk(r)) /\ p \in ServerPhase
    BY <1>t, <1>4, PhaseType DEF KeysExist, Fail, ServerPhase
  <2>2. UNCHANGED versions \/ Writes(Bk(r), p)
    BY <1>4, <2>1 DEF Fail, Writes
  <2>3. QED
    BY <1>t, <2>1, <2>2
<1>5. ASSUME NEW r \in Runs, Handler(r), ~Complete(r), ~Fail(r) PROVE UNCHANGED versions
  BY <1>5 DEF Handler, Skip, Start, StartFails, InitStage, InitStageFails, AddTask, RepoFails,
     Receive, WaitFails
<1>6. QED
  BY <1>1, <1>2, <1>3, <1>4, <1>5 DEF Next, vars, Deliver, Expire, TaskEnds, WatchGap,
     Stop, Restart, Tick

(* Only its handler takes a run forward; else it is dropped by a restart,  *)
(* or loses its deadline or its pointer into the store.                    *)
Kept(r) ==
  /\ run'[r].pc = run[r].pc /\ run'[r].stage = run[r].stage /\ run'[r].phase = run[r].phase
  /\ (run[r].expired => run'[r].expired)
  /\ todo'[r] = todo[r]

LEMMA RunMoves ==
  ASSUME TypeOK, [Next]_vars, NEW r \in Runs
  PROVE  Handler(r) \/ Kept(r) \/ (run'[r] = IdleRun /\ Restart(Op(r)))
<1>t. RunType /\ WorkType /\ run[r] \in RunRec
  BY DEF TypeOK, RunType
<1>1. CASE UNCHANGED <<run, todo>>
  BY <1>1 DEF Kept
<1>2. ASSUME NEW q \in Runs, Handler(q), q # r PROVE Kept(r)
  BY <1>t, <1>2 DEF Handler, Skip, Start, StartFails, InitStage, InitStageFails, AddTask, Track,
     RepoFails, Receive, WaitFails, Complete, Fail, EndRun, Goto, NextStage, runVars, Kept,
     RunType, WorkType
<1>3. ASSUME NEW q \in Runs, Deliver(q) \/ Expire(q) PROVE Kept(r)
  BY <1>t, <1>3 DEF Deliver, Expire, Kept, RunType, RunRec
<1>4. ASSUME NEW o \in Operators, Restart(o) PROVE Kept(r) \/ (run'[r] = IdleRun /\ o = Op(r))
  BY <1>4 DEF Restart, Kept
<1>5. QED
  BY <1>1, <1>2, <1>3, <1>4 DEF Next, vars, runVars, CreateBackup, EditBackup, MarkDeleting, Tick,
     TaskEnds, WatchGap, Stop

-----------------------------------------------------------------------------
(* Without API errors only failed tasks make a Backup of databases Failed. *)
(* Such a run never waits in the stage of volumes, and gives up in time to *)
(* say so only on the report of a task.                                    *)
OnlyDbs(b) == Selected[b] \subseteq Dbs
HasFailedTask(b) == \E n \in Names : tasks[n] = [owner |-> b, phase |-> "Failed"]

VolumesSkipped ==
  \A r \in Runs : OnlyDbs(Bk(r)) /\ run[r].pc \in {"add", "wait"} => run[r].stage = "db"
FailHasCause ==
  \A r \in Runs :
    OnlyDbs(Bk(r)) /\ run[r].pc = "fail" /\ ~run[r].expired => HasFailedTask(Bk(r))
FailedHasCause == \A b \in Backups : OnlyDbs(b) /\ Phase(b) = "Failed" => HasFailedTask(b)
CauseInv == VolumesSkipped /\ (used["api"] = 0 => FailHasCause /\ FailedHasCause)

LEMMA FailedStays ==
  ASSUME TypeOK, [Next]_vars, NEW b \in Backups, HasFailedTask(b)
  PROVE  HasFailedTask(b)'
<1>1. PICK n \in Names : tasks[n] = [owner |-> b, phase |-> "Failed"]
  BY DEF HasFailedTask
<1>2. tasks'[n] = tasks[n]
  BY <1>1, TasksMove DEF TasksStep, NoTask
<1>3. QED
  BY <1>1, <1>2 DEF HasFailedTask

LEMMA SkippedStep ==
  ASSUME TypeOK, VolumesSkipped, [Next]_vars
  PROVE  VolumesSkipped'
<1> SUFFICES ASSUME NEW r \in Runs, OnlyDbs(Bk(r)), run'[r].pc \in {"add", "wait"}
             PROVE  run'[r].stage = "db"
  BY DEF VolumesSkipped, OnlyDbs
<1>t. RunType /\ run[r] \in RunRec /\ (run[r].pc \in {"add", "wait"} => run[r].stage = "db")
  BY DEF TypeOK, RunType, VolumesSkipped
<1>1. CASE Kept(r)
  BY <1>t, <1>1 DEF Kept
<1>2. CASE run'[r] = IdleRun
  BY <1>2 DEF IdleRun
<1>3. CASE InitStage(r)
  <2>1. StageTargets(Bk(r), run[r].stage) # {}
    BY <1>t, <1>3 DEF InitStage, NextStage, RunType, RunRec
  <2>2. run[r].stage = "db"
    BY <1>t, <2>1 DEF StageTargets, StageOf, OnlyDbs, RunRec, Stage
  <2>3. QED
    BY <1>t, <1>3, <2>1, <2>2 DEF InitStage, Goto, RunType, RunRec
<1>4. CASE AddTask(r)
  BY <1>t, <1>4 DEF AddTask, Track, Goto, RunType, RunRec
<1>5. CASE Receive(r)
  BY <1>t, <1>5 DEF Receive, NextStage, Goto, RunType, RunRec
<1>6. CASE Skip(r) \/ StartFails(r)
  BY <1>t, <1>6 DEF Skip, StartFails, runVars
<1>7. CASE Start(r)
  BY <1>t, <1>7 DEF Start, RunType
<1>8. CASE InitStageFails(r) \/ RepoFails(r) \/ WaitFails(r)
  BY <1>t, <1>8 DEF InitStageFails, RepoFails, WaitFails, Goto, RunType, RunRec
<1>9. CASE Complete(r) \/ Fail(r)
  BY <1>t, <1>9 DEF Complete, Fail, EndRun, IdleRun, RunType
<1>10. QED
  BY <1>1, <1>2, <1>3, <1>4, <1>5, <1>6, <1>7, <1>8, <1>9, RunMoves DEF Handler

LEMMA FailStep ==
  ASSUME IInv, CauseInv, [Next]_vars, used'["api"] = 0
  PROVE  FailHasCause'
<1>a. TypeOK /\ used["api"] = 0 /\ ~Spend("api")
  BY UsedGrows, KindsAssumption DEF IInv, TypeOK, ClockType, Spend
<1> SUFFICES ASSUME NEW r \in Runs, OnlyDbs(Bk(r)), run'[r].pc = "fail", ~run'[r].expired
             PROVE  HasFailedTask(Bk(r))'
  BY DEF FailHasCause, OnlyDbs
<1>t. /\ RunType /\ run[r] \in RunRec /\ Bk(r) \in Backups
      /\ (run[r].pc \in {"add", "wait"} => run[r].stage = "db")
  BY <1>a DEF TypeOK, RunType, CauseInv, VolumesSkipped, Runs, Bk
<1>1. SUFFICES (run[r].pc = "fail" /\ ~run[r].expired) \/ HasFailedTask(Bk(r))
  BY <1>a, <1>t, FailedStays DEF CauseInv, FailHasCause
<1>2. CASE Kept(r)
  BY <1>2 DEF Kept
<1>3. CASE run'[r] = IdleRun
  BY <1>3 DEF IdleRun
<1>4. CASE InitStageFails(r) \/ RepoFails(r) \/ WaitFails(r)
  <2>1. run'[r].expired = run[r].expired
    BY <1>t, <1>4 DEF InitStageFails, RepoFails, WaitFails, Goto, RunType, RunRec
  <2>2. QED
    BY <1>a, <1>t, <1>4, <2>1 DEF InitStageFails, RepoFails, WaitFails, TimedOut
<1>5. CASE Receive(r)
  <2>1. IsFailure(Head(events[r]))
    BY <1>t, <1>5 DEF Receive, NextStage, RunType, RunRec
  <2>2. events[r] \in Seq(Names) /\ events[r] # <<>>
    BY <1>a, <1>5 DEF Receive, TypeOK, WorkType
  <2>3. Head(events[r]) = events[r][1] /\ 1 \in 1 .. Len(events[r]) /\ Head(events[r]) \in Names
    BY <2>2
  <2>4. tasks[Head(events[r])] \in [owner : {Bk(r)}, phase : Ended]
    BY <2>3 DEF IInv, EventsSound
  <2>5. tasks[Head(events[r])] = [owner |-> Bk(r), phase |-> "Failed"]
    BY <2>1, <2>4 DEF IsFailure
  <2>6. QED
    BY <2>3, <2>5 DEF HasFailedTask
<1>6. CASE InitStage(r) \/ AddTask(r)
  <2>1. CASE InitStage(r)
    BY <1>t, <2>1 DEF InitStage, NextStage, Goto, RunType, RunRec
  <2>2. ASSUME NEW p \in {"wait", "add"}, Goto(r, p) PROVE FALSE
    BY <1>t, <2>2 DEF Goto, RunType, RunRec
  <2>3. QED
    BY <1>6, <2>1, <2>2 DEF AddTask, Track
<1>7. CASE Skip(r) \/ StartFails(r)
  BY <1>7 DEF Skip, StartFails, runVars
<1>8. CASE Start(r) \/ Complete(r) \/ Fail(r)
  BY <1>t, <1>8 DEF Start, Complete, Fail, EndRun, IdleRun, RunType
<1>9. QED
  BY <1>a, <1>2, <1>3, <1>4, <1>5, <1>6, <1>7, <1>8, RunMoves DEF Handler

LEMMA WriteShown ==
  ASSUME ServerType, NEW b \in Backups, NEW p \in ServerPhase, Writes(b, p)
  PROVE  Phase(b)' = p /\ \A q \in Backups \ {b} : versions'[q] = versions[q] /\ Phase(q)' = Phase(q)
<1>1. versions[b] \in Seq(ServerPhase) /\ versions'[b] = Append(versions[b], p)
  BY DEF ServerType, Writes
<1>2. Len(versions'[b]) = Len(versions[b]) + 1 /\ versions'[b] # <<>>
      /\ versions'[b][Len(versions[b]) + 1] = p
  BY <1>1
<1>3. QED
  BY <1>2 DEF Phase, Exists, Writes, ServerType

LEMMA FailedStep ==
  ASSUME IInv, CauseInv, [Next]_vars, used'["api"] = 0
  PROVE  FailedHasCause'
<1>a. TypeInv /\ TypeOK /\ ServerType /\ used["api"] = 0
  BY UsedGrows, KindsAssumption DEF IInv, TypeInv, TypeOK
<1> SUFFICES ASSUME NEW b \in Backups, OnlyDbs(b), Phase(b)' = "Failed"
             PROVE  HasFailedTask(b)'
  BY DEF FailedHasCause, OnlyDbs
<1>1. SUFFICES Phase(b) = "Failed" \/ HasFailedTask(b)
  BY <1>a, FailedStays DEF CauseInv, FailedHasCause
<1>2. CASE UNCHANGED versions
  BY <1>2 DEF Phase, Exists
<1>3. ASSUME NEW c \in Backups, CreateBackup(c) PROVE Phase(b) = "Failed"
  BY <1>a, <1>3 DEF CreateBackup, Phase, Exists, ServerType
<1>4. ASSUME NEW c \in Backups, NEW p \in ServerPhase, Writes(c, p)
      PROVE  Phase(b) = "Failed" \/ HasFailedTask(b)
  <2>1. CASE c # b
    BY <1>a, <1>4, <2>1, WriteShown
  <2>2. CASE c = b
    <3>1. p = "Failed"
      BY <1>a, <1>4, <2>2, WriteShown
    <3>2. ASSUME NEW r \in Runs, Bk(r) = b, Fail(r), CanReport(r) PROVE HasFailedTask(b)
      BY <1>a, <3>2 DEF Fail, CanReport, CauseInv, FailHasCause
    <3>3. QED
      BY <1>4, <2>2, <3>1, <3>2 DEF Writes
  <2>3. QED
    BY <2>1, <2>2
<1>5. QED
  BY <1>a, <1>2, <1>3, <1>4, VersionsMove

(* Without API errors a Backup of databases is Failed only if one of its   *)
(* own tasks failed, for any number of processes, Backups and restarts.    *)
THEOREM FailedWithCause == Spec => []FailureHasCause
<1>1. Init => CauseInv
  BY DEF Init, IdleRun, CauseInv, VolumesSkipped, FailHasCause, FailedHasCause, Phase, Exists
<1>2. IInv /\ CauseInv /\ [Next]_vars => CauseInv'
  BY SkippedStep, FailStep, FailedStep DEF IInv, CauseInv
<1>3. CauseInv => FailureHasCause
  BY DEF CauseInv, FailedHasCause, FailureHasCause, OnlyDbs, HasFailedTask
<1>4. QED
  BY <1>1, <1>2, <1>3, Invariance, PTL DEF Spec

-----------------------------------------------------------------------------
(* One process, no edits: a Backup is run once, and a run in progress has  *)
(* not written its outcome. What the lister calls New was never written by *)
(* a run, in this life of the process or in one before.                    *)
OneProcess == Cardinality(Operators) = 1
Unedited == used'["edit"] = used["edit"]
Fresh(r) == cache[r].known /\ cache[r].phase = "New"
Unseen(r) == cache[r].seen = 0
NeverRun(b) == \A i \in 1 .. Len(versions[b]) : versions[b][i] \in {"New", "Deleting"}

NewIsFirst ==
  \A b \in Backups : \A i \in 1 .. Len(versions[b]) : (versions[b][i] = "New") <=> (i = 1)
Introduced ==
  \A r \in Runs : /\ Bk(r) \in queued[Op(r)] \/ run[r].pc # "idle" => cache[r].known
                  /\ cache[r].known => cache[r].seen # 0
RunsOnce ==
  \A r \in Runs : Unseen(r) \/ Fresh(r) => NeverRun(Bk(r)) /\ run[r].pc = "idle"
NotOver ==
  \A r \in Runs : run[r].pc # "idle" => Phase(Bk(r)) # "Completed" /\ run[r].phase # "Failed"
AloneParts == NewIsFirst /\ Introduced /\ RunsOnce /\ NotOver
AloneInv == OneProcess /\ used["edit"] = 0 => AloneParts

LEMMA SameRun ==
  ASSUME OneProcess, NEW r \in Runs, NEW q \in Runs, Bk(r) = Bk(q)
  PROVE  r = q
<1>1. PICK o : Operators = {o}
  BY OperatorsAssumption, FS_Singleton DEF OneProcess
<1>2. r = <<o, Bk(r)>> /\ q = <<o, Bk(q)>>
  BY <1>1 DEF Runs, Bk
<1>3. QED
  BY <1>2

(* A handler either takes a key from the queue or goes on with its run.    *)
LEMMA HandlerHas ==
  ASSUME NEW r \in Runs, Handler(r)
  PROVE  run[r].pc = "idle" => Bk(r) \in queued[Op(r)] /\ (Skip(r) \/ Start(r) \/ StartFails(r))
BY DEF Handler, Take, Skip, Start, StartFails, InitStage, InitStageFails, AddTask, RepoFails,
       Receive, WaitFails, Complete, Fail

LEMMA CacheMoves ==
  ASSUME TypeInv, [Next]_vars, NEW r \in Runs
  PROVE  \/ cache'[r] = cache[r]
         \/ Deliver(r)
         \/ Handler(r) /\ ~Skip(r) /\ \E p \in LocalPhase \ {"New"} :
              cache'[r] = [cache[r] EXCEPT !.phase = p]
         \/ Restart(Op(r))
<1> DEFINE Goal == \/ cache'[r] = cache[r]
                   \/ Deliver(r)
                   \/ Handler(r) /\ ~Skip(r) /\ \E p \in LocalPhase \ {"New"} :
                        cache'[r] = [cache[r] EXCEPT !.phase = p]
                   \/ Restart(Op(r))
<1>t. /\ cache \in [Runs -> CacheRec] /\ {"Completed", "Failed"} \subseteq LocalPhase \ {"New"}
      /\ \A b \in Backups : Exists(b) => Phase(b) \in ServerPhase
      /\ ServerPhase \cup {"InProgress"} = LocalPhase
  BY PhaseType DEF TypeInv, TypeOK, QueueType, LocalPhase, ServerPhase
<1>1. CASE UNCHANGED cache
  BY <1>1
<1>2. ASSUME NEW q \in Runs, NEW p, cache' = [cache EXCEPT ![q].phase = p]
      PROVE  cache'[r] = cache[r] \/ (q = r /\ cache'[r] = [cache[r] EXCEPT !.phase = p])
  BY <1>t, <1>2
<1>3. ASSUME NEW q \in Runs, Complete(q) \/ Fail(q) PROVE Goal
  <2>1. run[q].pc # "idle" /\ ~Skip(q) /\ Handler(q)
    BY <1>3 DEF Complete, Fail, Skip, Take, Handler
  <2>2. UNCHANGED cache \/ \E p \in {"Completed", "Failed"} : cache' = [cache EXCEPT ![q].phase = p]
    BY <1>3 DEF Complete, Fail, WriteLocal
  <2>3. QED
    BY <1>t, <1>2, <2>1, <2>2
<1>4. ASSUME NEW q \in Runs, StartFails(q) PROVE Goal
  <2>1. ~Skip(q) /\ Handler(q) /\ cache' = [cache EXCEPT ![q].phase = "InProgress"]
    BY <1>4 DEF StartFails, Skip, Handler
  <2>2. "InProgress" \in LocalPhase \ {"New"}
    BY DEF LocalPhase
  <2>3. QED
    BY <1>2, <2>1, <2>2
<1>5. ASSUME NEW q \in Runs, Start(q) PROVE Goal
  <2> DEFINE p == IF Phase(Bk(q)) = "New" THEN "InProgress" ELSE Phase(Bk(q))
  <2>1. ~Skip(q) /\ Handler(q) /\ cache' = [cache EXCEPT ![q].phase = p]
    BY <1>5 DEF Start, Skip, Handler
  <2>2. Exists(Bk(q)) /\ Bk(q) \in Backups
    BY <1>5 DEF TypeInv, KeysExist, Start, Take, Runs, Bk
  <2>3. p \in LocalPhase \ {"New"}
    BY <1>t, <2>2 DEF LocalPhase
  <2>4. QED
    BY <1>2, <2>1, <2>3
<1>6. ASSUME NEW q \in Runs, Deliver(q) PROVE Goal
  BY <1>t, <1>6 DEF Deliver
<1>7. ASSUME NEW o \in Operators, Restart(o) PROVE Goal
  BY <1>7 DEF Restart
<1>8. QED
  BY <1>1, <1>3, <1>4, <1>5, <1>6, <1>7 DEF Next, Handler, vars, CreateBackup, EditBackup,
     MarkDeleting, Tick, Skip, InitStage, InitStageFails, AddTask, RepoFails, Receive,
     WaitFails, Expire, TaskEnds, WatchGap, Stop

LEMMA QueueMoves ==
  ASSUME TypeOK, [Next]_vars, NEW r \in Runs, Bk(r) \in queued'[Op(r)]
  PROVE  /\ Bk(r) \in queued[Op(r)] \/ Deliver(r) \/ (Handler(r) /\ run[r].pc # "idle")
         /\ ~Restart(Op(r))
<1> DEFINE Goal == Bk(r) \in queued[Op(r)] \/ Deliver(r) \/ (Handler(r) /\ run[r].pc # "idle")
<1>t. /\ queued \in [Operators -> SUBSET Backups] /\ Op(r) \in Operators
      /\ \A q \in Runs : Op(q) \in Operators /\ q = <<Op(q), Bk(q)>>
  BY DEF TypeOK, QueueType, Runs, Op, Bk
<1>1. ASSUME UNCHANGED queued PROVE Goal
  BY <1>1
<1>2. ASSUME NEW q \in Runs, Requeue(q) PROVE Bk(r) \in queued[Op(r)] \/ r = q
  BY <1>t, <1>2 DEF Requeue
<1>3. ASSUME NEW q \in Runs, Complete(q) \/ Fail(q) PROVE Goal
  <2>1. run[q].pc # "idle" /\ Handler(q) /\ (UNCHANGED queued \/ Requeue(q))
    BY <1>3 DEF Complete, Fail, Handler
  <2>2. QED
    BY <1>1, <1>2, <2>1
<1>4. ASSUME NEW q \in Runs, Skip(q) \/ Start(q) PROVE Goal
  BY <1>t, <1>4 DEF Skip, Start
<1>5. ASSUME NEW q \in Runs, Deliver(q) PROVE Goal
  <2>1. UNCHANGED queued \/ queued' = [queued EXCEPT ![Op(q)] = @ \cup {Bk(q)}]
    BY <1>5 DEF Deliver
  <2>2. QED
    BY <1>t, <1>1, <1>5, <2>1
<1>6. ASSUME NEW o \in Operators, Restart(o) PROVE o # Op(r) /\ Goal
  BY <1>t, <1>6 DEF Restart
<1>7. ~Restart(Op(r))
  BY <1>t, <1>6
<1>8. Goal
  BY <1>1, <1>3, <1>4, <1>5, <1>6 DEF Next, Handler, vars, CreateBackup, EditBackup,
     MarkDeleting, Tick, StartFails, InitStage, InitStageFails, AddTask, RepoFails, Receive,
     WaitFails, Expire, TaskEnds, WatchGap, Stop
<1>9. QED
  BY <1>7, <1>8

(* What is written when there are no edits, and by which run.              *)
LEMMA WritesAlone ==
  ASSUME AloneParts, Unedited, ClockType,
         NEW b \in Backups, NEW p \in ServerPhase, Writes(b, p)
  PROVE  \/ p = "Deleting"
         \/ p = "Completed" /\ \E r \in Runs : Bk(r) = b /\ Complete(r)
         \/ p = "Failed" /\ \E r \in Runs : Bk(r) = b /\ Fail(r)
<1>1. ~EditBackup(b)
  BY KindsAssumption DEF EditBackup, Spend, ClockType, Unedited
<1>2. \A r \in Runs : Fail(r) => run[r].phase # "Failed"
  BY DEF AloneParts, NotOver, Fail
<1>3. QED
  BY <1>1, <1>2 DEF Writes

LEMMA AppendAlone ==
  ASSUME ServerType, NEW b \in Backups, NEW p \in ServerPhase, Writes(b, p)
  PROVE  /\ Len(versions[b]) \in Nat \ {0} /\ Len(versions'[b]) = Len(versions[b]) + 1
         /\ \A i \in 1 .. Len(versions[b]) : versions'[b][i] = versions[b][i]
         /\ versions'[b][Len(versions[b]) + 1] = p
<1>1. versions[b] \in Seq(ServerPhase) /\ versions[b] # <<>> /\ versions'[b] = Append(versions[b], p)
  BY DEF ServerType, Writes, Exists
<1>2. QED
  BY <1>1

LEMMA NeverRunPhase ==
  ASSUME ServerType, NEW b \in Backups, Exists(b), NeverRun(b)
  PROVE  Phase(b) \in {"New", "Deleting"}
<1>1. Len(versions[b]) \in 1 .. Len(versions[b])
  BY PhaseType
<1>2. QED
  BY <1>1 DEF Phase, NeverRun

LEMMA NewStep ==
  ASSUME TypeInv, AloneParts, [Next]_vars, Unedited
  PROVE  NewIsFirst'
<1>t. ServerType /\ ClockType
  BY DEF TypeInv, TypeOK
<1>1. CASE UNCHANGED versions
  BY <1>1 DEF AloneParts, NewIsFirst
<1>2. ASSUME NEW b \in Backups, CreateBackup(b) PROVE NewIsFirst'
  BY <1>t, <1>2 DEF CreateBackup, AloneParts, NewIsFirst, ServerType
<1>3. ASSUME NEW b \in Backups, NEW p \in ServerPhase, Writes(b, p) PROVE NewIsFirst'
  <2>1. p # "New"
    BY <1>t, <1>3, WritesAlone
  <2>2. ASSUME NEW i \in 1 .. Len(versions'[b]) PROVE (versions'[b][i] = "New") <=> (i = 1)
    BY <1>t, <1>3, <2>1, AppendAlone DEF AloneParts, NewIsFirst
  <2>3. \A q \in Backups \ {b} : versions'[q] = versions[q]
    BY <1>t, <1>3, WriteShown
  <2>4. QED
    BY <2>2, <2>3 DEF AloneParts, NewIsFirst
<1>4. QED
  BY <1>1, <1>2, <1>3, VersionsMove

LEMMA IntroducedStep ==
  ASSUME TypeInv, Introduced, [Next]_vars
  PROVE  Introduced'
<1> SUFFICES ASSUME NEW r \in Runs
             PROVE  /\ Bk(r) \in queued'[Op(r)] \/ run'[r].pc # "idle" => cache'[r].known
                    /\ cache'[r].known => cache'[r].seen # 0
  BY DEF Introduced
<1>t. /\ TypeOK /\ cache \in [Runs -> CacheRec]
      /\ (Bk(r) \in queued[Op(r)] \/ run[r].pc # "idle" => cache[r].known)
      /\ (cache[r].known => cache[r].seen # 0)
  BY DEF TypeInv, TypeOK, QueueType, Introduced
<1>1. CASE Deliver(r)
  <2>1. PICK v \in {cache[r].seen + 1, Len(versions[Bk(r)])} :
          cache' = [cache EXCEPT ![r] = [known |-> TRUE, seen |-> v, phase |-> versions[Bk(r)][v]]]
    BY <1>1 DEF Deliver
  <2>2. cache'[r].known /\ cache'[r].seen = v
    BY <1>t, <2>1
  <2>3. versions[Bk(r)] \in Seq(ServerPhase) /\ cache[r].seen \in Nat
    BY <1>t DEF TypeOK, ServerType, Runs, Bk, CacheRec
  <2>4. Len(versions[Bk(r)]) \in Nat
    BY <2>3
  <2>5. v # 0
    BY <1>1, <2>1, <2>3, <2>4 DEF Deliver
  <2>6. QED
    BY <2>2, <2>5
<1>2. CASE Restart(Op(r))
  <2>1. ~cache'[r].known /\ run'[r].pc = "idle"
    BY <1>2 DEF Restart, IdleRun
  <2>2. Bk(r) \notin queued'[Op(r)]
    BY <1>2, <1>t, QueueMoves
  <2>3. QED
    BY <2>1, <2>2
<1>3. CASE ~Deliver(r) /\ ~Restart(Op(r))
  <2>1. cache'[r].known = cache[r].known /\ cache'[r].seen = cache[r].seen
    BY <1>t, <1>3, CacheMoves DEF CacheRec
  <2>2. Bk(r) \in queued'[Op(r)] => Bk(r) \in queued[Op(r)] \/ run[r].pc # "idle"
    BY <1>t, <1>3, QueueMoves
  <2>3. run'[r].pc # "idle" => Bk(r) \in queued[Op(r)] \/ run[r].pc # "idle"
    BY <1>t, <1>3, RunMoves, HandlerHas DEF Kept
  <2>4. QED
    BY <1>t, <2>1, <2>2, <2>3
<1>4. QED
  BY <1>1, <1>2, <1>3

(* After a step of its handler a Backup is not New for the lister.         *)
LEMMA HandlerEnds ==
  ASSUME TypeInv, AloneParts, [Next]_vars, NEW r \in Runs, Handler(r), ~Deliver(r), ~Restart(Op(r))
  PROVE  cache'[r].phase # "New" /\ cache'[r].seen # 0
<1>t. /\ TypeOK /\ cache \in [Runs -> CacheRec] /\ cache[r] \in CacheRec
      /\ cache[r].known /\ cache[r].seen # 0
  BY HandlerHas DEF TypeInv, TypeOK, QueueType, AloneParts, Introduced
<1>1. cache'[r].seen = cache[r].seen
  BY <1>t, CacheMoves DEF CacheRec
<1>2. CASE cache'[r].phase # cache[r].phase
  BY <1>t, <1>2, CacheMoves DEF CacheRec
<1>3. CASE run[r].pc # "idle"
  BY <1>t, <1>1, <1>2, <1>3 DEF AloneParts, RunsOnce, Fresh, Unseen
<1>4. CASE Skip(r)
  BY <1>t, <1>1, <1>2, <1>4 DEF Skip, IsNew
<1>5. CASE Start(r) \/ StartFails(r)
  <2>1. \E p \in LocalPhase \ {"New"} : cache'[r] = [cache[r] EXCEPT !.phase = p]
    <3>1. Exists(Bk(r)) /\ Bk(r) \in Backups
      BY <1>5 DEF TypeInv, KeysExist, Start, StartFails, Take, Runs, Bk
    <3>2. Phase(Bk(r)) \in ServerPhase
      BY <3>1, PhaseType DEF TypeInv, TypeOK
    <3>3. QED
      BY <1>t, <1>5, <3>2 DEF Start, StartFails, LocalPhase
  <2>2. QED
    BY <1>t, <2>1 DEF CacheRec
<1>6. QED
  BY <1>t, <1>1, <1>3, <1>4, <1>5, HandlerHas

LEMMA NeverRunKept ==
  ASSUME TypeInv, AloneParts, [Next]_vars, Unedited,
         NEW b \in Backups, NeverRun(b), \A r \in Runs : Bk(r) = b => ~Complete(r) /\ ~Fail(r)
  PROVE  NeverRun(b)'
<1>t. ServerType /\ ClockType
  BY DEF TypeInv, TypeOK
<1>1. CASE versions'[b] = versions[b]
  BY <1>1 DEF NeverRun
<1>2. ASSUME NEW c \in Backups, CreateBackup(c) PROVE NeverRun(b)'
  <2>1. CASE c = b
    BY <1>t, <1>2, <2>1 DEF CreateBackup, ServerType, NeverRun
  <2>2. CASE c # b
    BY <1>t, <1>1, <1>2, <2>2 DEF CreateBackup, ServerType
  <2>3. QED
    BY <2>1, <2>2
<1>3. ASSUME NEW c \in Backups, NEW p \in ServerPhase, Writes(c, p) PROVE NeverRun(b)'
  <2>1. CASE c = b
    <3>1. p = "Deleting"
      BY <1>t, <1>3, <2>1, WritesAlone
    <3>2. QED
      BY <1>t, <1>3, <2>1, <3>1, AppendAlone DEF NeverRun
  <2>2. CASE c # b
    BY <1>t, <1>1, <1>3, <2>2, WriteShown
  <2>3. QED
    BY <2>1, <2>2
<1>4. QED
  BY <1>1, <1>2, <1>3, VersionsMove

LEMMA RunsOnceStep ==
  ASSUME TypeInv, AloneParts, OneProcess, [Next]_vars,
         Unedited
  PROVE  RunsOnce'
<1> SUFFICES ASSUME NEW r \in Runs, Unseen(r)' \/ Fresh(r)'
             PROVE  NeverRun(Bk(r))' /\ run'[r].pc = "idle"
  BY DEF RunsOnce
<1> DEFINE b == Bk(r)
<1>t. /\ TypeOK /\ ServerType /\ cache \in [Runs -> CacheRec] /\ cache[r] \in CacheRec
      /\ b \in Backups /\ versions[b] \in Seq(ServerPhase) /\ Len(versions[b]) \in Nat
      /\ (Unseen(r) \/ Fresh(r) => NeverRun(b) /\ run[r].pc = "idle")
  BY DEF TypeInv, TypeOK, QueueType, ServerType, AloneParts, RunsOnce, Runs, Bk
<1>1. CASE Deliver(r)
  <2>1. /\ UNCHANGED versions /\ run'[r].pc = run[r].pc
        /\ \E v \in {cache[r].seen + 1, Len(versions[b])} :
             cache' = [cache EXCEPT ![r] = [known |-> TRUE, seen |-> v, phase |-> versions[b][v]]]
    BY <1>t, <1>1 DEF Deliver, TypeOK, RunType, RunRec
  <2>2. PICK v \in {cache[r].seen + 1, Len(versions[b])} :
          cache' = [cache EXCEPT ![r] = [known |-> TRUE, seen |-> v, phase |-> versions[b][v]]]
    BY <2>1
  <2>3. cache'[r] = [known |-> TRUE, seen |-> v, phase |-> versions[b][v]]
    BY <1>t, <2>2
  <2>4. cache[r].seen \in Nat /\ cache[r].seen < Len(versions[b]) /\ v \in 1 .. Len(versions[b])
    BY <1>t, <1>1, <2>2 DEF Deliver, CacheRec
  <2>5. v = 1
    BY <1>t, <2>3, <2>4 DEF AloneParts, NewIsFirst, Fresh, Unseen
  <2>6. cache[r].seen = 0
    <3>1. v = cache[r].seen + 1 \/ v = Len(versions[b])
      BY <2>2
    <3>2. ASSUME NEW n \in Nat, NEW m \in Nat, n < m, 1 \in {n + 1, m} PROVE n = 0
      BY <3>2
    <3>3. QED
      BY <1>t, <2>4, <2>5, <3>1, <3>2
  <2>7. NeverRun(b) /\ run[r].pc = "idle"
    BY <1>t, <2>6 DEF Unseen
  <2>8. QED
    BY <2>1, <2>7 DEF NeverRun
<1>2. CASE Restart(Op(r))
  <2>1. UNCHANGED versions /\ run'[r] = IdleRun /\ cache'[r] = [known |-> FALSE, seen |-> Listed(b), phase |-> "New"]
    BY <1>2 DEF Restart
  <2>2. Len(versions[b]) <= 1
    <3>1. Listed(b) = 0
      BY <2>1 DEF Fresh, Unseen
    <3>2. CASE versions[b] = <<>>
      BY <3>2
    <3>3. CASE versions[b] # <<>>
      <4>1. Len(versions[b]) \in Nat /\ Len(versions[b]) - 1 = 0
        BY <1>t, <3>1, <3>3 DEF Listed, Exists
      <4>2. ASSUME NEW n \in Nat, n - 1 = 0 PROVE n <= 1
        BY <4>2
      <4>3. QED
        BY <4>1, <4>2
    <3>4. QED
      BY <3>2, <3>3
  <2>3. NeverRun(b)
    BY <1>t, <2>2 DEF AloneParts, NewIsFirst, NeverRun
  <2>4. QED
    BY <2>1, <2>3 DEF NeverRun, IdleRun
<1>3. CASE ~Deliver(r) /\ ~Restart(Op(r))
  <2>1. ~Handler(r)
    BY <1>3, HandlerEnds DEF Fresh, Unseen
  <2>2. cache'[r] = cache[r] /\ Kept(r)
    BY <1>t, <1>3, <2>1, CacheMoves, RunMoves
  <2>3. NeverRun(b) /\ run'[r].pc = "idle"
    BY <1>t, <2>2 DEF Kept, Fresh, Unseen
  <2>4. \A q \in Runs : Bk(q) = b => ~Complete(q) /\ ~Fail(q)
    BY <2>1, SameRun DEF Handler
  <2>5. QED
    BY <1>t, <2>3, <2>4, NeverRunKept
<1>4. QED
  BY <1>1, <1>2, <1>3

(* A run begins on a Backup that no run has written.                       *)
LEMMA StartAlone ==
  ASSUME TypeInv, AloneParts, NEW r \in Runs, Take(r), IsNew(r)
  PROVE  Phase(Bk(r)) \in {"New", "Deleting"} /\ Fresh(r)
<1>1. Fresh(r) /\ Exists(Bk(r)) /\ Bk(r) \in Backups
  BY DEF TypeInv, KeysExist, Take, IsNew, Fresh, AloneParts, Introduced, Runs, Bk
<1>2. NeverRun(Bk(r))
  BY <1>1 DEF AloneParts, RunsOnce
<1>3. QED
  BY <1>1, <1>2, NeverRunPhase DEF TypeInv, TypeOK

LEMMA NotOverStep ==
  ASSUME TypeInv, AloneParts, OneProcess, [Next]_vars,
         Unedited
  PROVE  NotOver'
<1> SUFFICES ASSUME NEW r \in Runs, run'[r].pc # "idle"
             PROVE  Phase(Bk(r))' # "Completed" /\ run'[r].phase # "Failed"
  BY DEF NotOver
<1> DEFINE b == Bk(r)
<1>t. /\ TypeOK /\ ServerType /\ ClockType /\ RunType /\ run[r] \in RunRec /\ b \in Backups
      /\ (run[r].pc # "idle" => Phase(b) # "Completed" /\ run[r].phase # "Failed")
  BY DEF TypeInv, TypeOK, RunType, AloneParts, NotOver, Runs, Bk
<1>1. Phase(b) # "Completed" /\ run'[r].phase # "Failed" /\ ~Complete(r) /\ ~Fail(r)
  <2>1. CASE Kept(r)
    BY <1>t, <2>1 DEF Kept, Complete, Fail, EndRun, IdleRun, RunType
  <2>2. CASE Start(r)
    <3>1. Phase(b) \in {"New", "Deleting"}
      BY <2>2, StartAlone DEF Start
    <3>2. QED
      BY <1>t, <2>2, <3>1 DEF Start, RunType, Complete, Fail, Take
  <2>3. CASE Skip(r) \/ StartFails(r)
    BY <2>3 DEF Skip, StartFails, Take, runVars
  <2>4. CASE Complete(r) \/ Fail(r)
    BY <1>t, <2>4 DEF Complete, Fail, EndRun, IdleRun, RunType
  <2>5. CASE run[r].pc \notin {"idle", "complete", "fail"} /\ run'[r].phase = run[r].phase
    BY <1>t, <2>5 DEF Complete, Fail
  <2>6. CASE InitStage(r) \/ InitStageFails(r) \/ RepoFails(r) \/ WaitFails(r) \/ Receive(r)
    <3>1. ASSUME NEW p, Goto(r, p) PROVE run'[r].phase = run[r].phase
      BY <1>t, <3>1 DEF Goto, RunType, RunRec
    <3>2. ASSUME NextStage(r) PROVE run'[r].phase = run[r].phase
      BY <1>t, <3>2 DEF NextStage, RunType, RunRec
    <3>3. run'[r].phase = run[r].phase
      BY <2>6, <3>1, <3>2 DEF InitStage, InitStageFails, RepoFails, WaitFails, Receive
    <3>4. QED
      BY <2>5, <2>6, <3>3 DEF InitStage, InitStageFails, RepoFails, WaitFails, Receive
  <2>7. CASE AddTask(r)
    <3>1. \E p \in {"wait", "add"} : Goto(r, p)
      BY <2>7 DEF AddTask, Track
    <3>2. QED
      BY <1>t, <2>5, <2>7, <3>1 DEF AddTask, Goto, RunType, RunRec
  <2>8. QED
    BY <1>t, <2>1, <2>2, <2>3, <2>4, <2>6, <2>7, RunMoves DEF Handler, IdleRun
<1>2. \A q \in Runs : Bk(q) = b => ~Complete(q)
  BY <1>1, SameRun
<1>3. CASE UNCHANGED versions
  BY <1>1, <1>3 DEF Phase, Exists
<1>4. ASSUME NEW c \in Backups, CreateBackup(c) PROVE Phase(b)' # "Completed"
  <2>1. versions'[b] = versions[b] \/ versions'[b] = <<"New">>
    BY <1>t, <1>4 DEF CreateBackup, ServerType
  <2>2. QED
    BY <1>1, <2>1 DEF Phase, Exists
<1>5. ASSUME NEW c \in Backups, NEW p \in ServerPhase, Writes(c, p) PROVE Phase(b)' # "Completed"
  <2>1. CASE c = b
    <3>1. p # "Completed"
      BY <1>t, <1>2, <1>5, <2>1, WritesAlone
    <3>2. QED
      BY <1>t, <1>5, <2>1, <3>1, WriteShown
  <2>2. CASE c # b
    BY <1>t, <1>1, <1>5, <2>2, WriteShown
  <2>3. QED
    BY <2>1, <2>2
<1>6. QED
  BY <1>1, <1>3, <1>4, <1>5, VersionsMove

(* The invariant of a process that is alone.                               *)
LEMMA AloneStep ==
  ASSUME TypeInv, AloneInv, [Next]_vars
  PROVE  AloneInv'
<1> SUFFICES ASSUME OneProcess, used'["edit"] = 0 PROVE AloneParts'
  BY DEF AloneInv
<1>1. used["edit"] = 0
  BY UsedGrows, KindsAssumption DEF TypeInv, TypeOK
<1>2. AloneParts
  BY <1>1 DEF AloneInv
<1>3. NewIsFirst' /\ Introduced' /\ RunsOnce' /\ NotOver'
  BY <1>1, <1>2, NewStep, IntroducedStep, RunsOnceStep, NotOverStep DEF AloneParts, Unedited
<1>4. QED
  BY <1>3 DEF AloneParts

LEMMA AloneInit == Init => AloneInv
<1>1. ASSUME Init PROVE NewIsFirst /\ Introduced /\ RunsOnce /\ NotOver
  BY <1>1 DEF Init, IdleRun, NewIsFirst, Introduced, RunsOnce, NotOver, NeverRun, Fresh, Unseen, Runs, Op, Bk
<1>2. QED
  BY <1>1 DEF AloneInv, AloneParts

LEMMA FinalStep ==
  ASSUME TypeInv, AloneInv, OneProcess, used["edit"] = 0, [Next]_vars,
         NEW b \in Backups, Phase(b) = "Completed"
  PROVE  Phase(b)' \in {"Completed", "Deleting"}
<1>t. ServerType /\ AloneParts
  BY DEF TypeInv, TypeOK, AloneInv
<1>1. CASE UNCHANGED versions
  BY <1>1 DEF Phase, Exists
<1>2. ASSUME NEW c \in Backups, CreateBackup(c) PROVE Phase(b)' = Phase(b)
  <2>1. c # b
    BY <1>2 DEF CreateBackup, Phase
  <2>2. QED
    BY <1>t, <1>2, <2>1 DEF CreateBackup, ServerType, Phase, Exists
<1>3. ASSUME NEW c \in Backups, NEW p \in ServerPhase, Writes(c, p)
      PROVE  Phase(b)' \in {"Completed", "Deleting"}
  <2>1. CASE c # b
    BY <1>t, <1>3, <2>1, WriteShown
  <2>2. CASE c = b
    <3>1. \A r \in Runs : Bk(r) = b => ~Fail(r)
      BY <1>t DEF AloneParts, NotOver, Fail
    <3>2. p \in {"Completed", "Deleting"}
      BY <1>3, <2>2, <3>1 DEF Writes
    <3>3. QED
      BY <1>t, <1>3, <2>2, <3>2, WriteShown
  <2>3. QED
    BY <2>1, <2>2
<1>4. QED
  BY <1>1, <1>2, <1>3, VersionsMove

(* With one process and no edits, what is Completed stays so until it is   *)
(* deleted: neither a lost answer nor a restart of the process runs it     *)
(* again.                                                                  *)
THEOREM CompletedStays == Spec => CompletedIsFinal
<1> DEFINE Inv == TypeInv /\ AloneInv
<1>1. Init => Inv
  BY InitType, AloneInit
<1>2. Inv /\ [Next]_vars => Inv'
  BY TypeStep, AloneStep
<1>3. ASSUME Inv, [Next]_vars
      PROVE  [Cardinality(Operators) = 1 /\ used["edit"] = 0 =>
                \A b \in Backups :
                  Phase(b) = "Completed" => Phase(b)' \in {"Completed", "Deleting"}]_vars
  BY <1>3, FinalStep DEF OneProcess
<1>4. QED
  BY <1>1, <1>2, <1>3, PTL DEF Spec, CompletedIsFinal

-----------------------------------------------------------------------------
(* If that process is not restarted either, the targets that lie ahead of  *)
(* a Backup's only run have no snapshot of the Backup yet.                 *)
Ahead(r) ==
  {t \in Targets :
     \/ Unseen(r) \/ Fresh(r)
     \/ run[r].pc = "init" /\ (run[r].stage = "db" \/ t \in Pvcs)
     \/ run[r].pc \in {"add", "wait"} /\ (t \in todo[r] \/ (run[r].stage = "db" /\ t \in Pvcs))}

FirstLife == \A r \in Runs : cache[r].known \/ Unseen(r)
TodoInStage ==
  \A r \in Runs : run[r].pc \in {"add", "wait"} => todo[r] \subseteq StageTargets(Bk(r), run[r].stage)
AheadIsNew == \A r \in Runs, n \in Names : n[1] \in Ahead(r) => tasks[n].owner # Bk(r)
OnePerTarget ==
  \A m, n \in Names :
    tasks[m] # NoTask /\ tasks[m].owner = tasks[n].owner /\ m[1] = n[1] => m = n
OnceParts == FirstLife /\ TodoInStage /\ AheadIsNew /\ OnePerTarget
OnceInv == OneProcess /\ used["edit"] = 0 /\ used["restart"] = 0 => OnceParts

LEMMA TodoStep ==
  ASSUME TypeOK, TodoInStage, [Next]_vars
  PROVE  TodoInStage'
<1> SUFFICES ASSUME NEW r \in Runs, run'[r].pc \in {"add", "wait"}
             PROVE  todo'[r] \subseteq StageTargets(Bk(r), run'[r].stage)
  BY DEF TodoInStage, StageTargets
<1>t. /\ RunType /\ run[r] \in RunRec /\ todo \in [Runs -> SUBSET Targets]
      /\ (run[r].pc \in {"add", "wait"} => todo[r] \subseteq StageTargets(Bk(r), run[r].stage))
  BY DEF TypeOK, RunType, WorkType, TodoInStage
<1>1. CASE Kept(r) \/ run'[r] = IdleRun
  BY <1>t, <1>1 DEF Kept, IdleRun
<1>2. CASE InitStage(r)
  <2>1. Goto(r, "add") /\ todo'[r] = StageTargets(Bk(r), run[r].stage)
    BY <1>t, <1>2 DEF InitStage, NextStage, RunType, RunRec
  <2>2. QED
    BY <1>t, <2>1 DEF Goto, RunType, RunRec
<1>3. CASE AddTask(r)
  <2>1. todo'[r] \subseteq todo[r] /\ \E p \in {"wait", "add"} : Goto(r, p)
    BY <1>t, <1>3 DEF AddTask, Track
  <2>2. run'[r].stage = run[r].stage
    BY <1>t, <2>1 DEF Goto, RunType, RunRec
  <2>3. QED
    BY <1>t, <1>3, <2>1, <2>2 DEF AddTask
<1>4. CASE Receive(r)
  <2>1. CASE UNCHANGED run
    BY <1>t, <1>4, <2>1 DEF Receive
  <2>2. CASE NextStage(r) \/ Goto(r, "fail")
    BY <1>t, <2>2 DEF NextStage, Goto, RunType, RunRec
  <2>3. QED
    BY <1>4, <2>1, <2>2 DEF Receive
<1>5. CASE Skip(r) \/ StartFails(r)
  BY <1>t, <1>5 DEF Skip, StartFails, runVars
<1>6. CASE Start(r)
  BY <1>t, <1>6 DEF Start, RunType
<1>7. CASE InitStageFails(r) \/ RepoFails(r) \/ WaitFails(r)
  BY <1>t, <1>7 DEF InitStageFails, RepoFails, WaitFails, Goto, RunType, RunRec
<1>8. CASE Complete(r) \/ Fail(r)
  BY <1>t, <1>8 DEF Complete, Fail, EndRun, IdleRun, RunType
<1>9. QED
  BY <1>1, <1>2, <1>3, <1>4, <1>5, <1>6, <1>7, <1>8, RunMoves DEF Handler

LEMMA LifeStep ==
  ASSUME TypeInv, FirstLife, [Next]_vars, \A o \in Operators : ~Restart(o)
  PROVE  FirstLife'
<1> SUFFICES ASSUME NEW r \in Runs PROVE cache'[r].known \/ Unseen(r)'
  BY DEF FirstLife
<1>t. /\ cache \in [Runs -> CacheRec] /\ cache[r] \in CacheRec /\ Op(r) \in Operators
      /\ (cache[r].known \/ Unseen(r))
  BY DEF TypeInv, TypeOK, QueueType, FirstLife, Runs, Op
<1>1. CASE Deliver(r)
  BY <1>t, <1>1 DEF Deliver
<1>2. CASE cache'[r].known = cache[r].known /\ cache'[r].seen = cache[r].seen
  BY <1>t, <1>2 DEF Unseen
<1>3. QED
  BY <1>t, <1>1, <1>2, CacheMoves DEF CacheRec

(* No step brings a target back.                                           *)
LEMMA AheadShrinks ==
  ASSUME TypeInv, AloneParts, OnceParts, [Next]_vars, \A o \in Operators : ~Restart(o),
         NEW r \in Runs
  PROVE  Ahead(r)' \subseteq Ahead(r)
<1>t. /\ TypeOK /\ RunType /\ run[r] \in RunRec /\ todo \in [Runs -> SUBSET Targets]
      /\ cache \in [Runs -> CacheRec] /\ cache[r] \in CacheRec /\ Op(r) \in Operators
      /\ versions[Bk(r)] \in Seq(ServerPhase)
  BY DEF TypeInv, TypeOK, RunType, WorkType, QueueType, ServerType, Runs, Op, Bk
<1>1. CASE Unseen(r) \/ Fresh(r)
  BY <1>1 DEF Ahead
<1>2. CASE ~Unseen(r) /\ ~Fresh(r)
  <2>1. ~Unseen(r)' /\ ~Fresh(r)'
    <3>1. CASE Handler(r) /\ ~Deliver(r)
      BY <1>t, <3>1, HandlerEnds DEF Unseen, Fresh
    <3>2. CASE Deliver(r)
      <4>1. PICK v \in {cache[r].seen + 1, Len(versions[Bk(r)])} :
              cache' = [cache EXCEPT ![r] = [known |-> TRUE, seen |-> v, phase |-> versions[Bk(r)][v]]]
        BY <3>2 DEF Deliver
      <4>2. cache'[r] = [known |-> TRUE, seen |-> v, phase |-> versions[Bk(r)][v]]
        BY <1>t, <4>1
      <4>3. cache[r].seen \in Nat \ {0} /\ cache[r].seen < Len(versions[Bk(r)])
        BY <1>t, <1>2, <3>2 DEF Deliver, Unseen, CacheRec
      <4>4. v \in 1 .. Len(versions[Bk(r)]) /\ v # 1 /\ v # 0
        <5>1. ASSUME NEW n \in Nat \ {0}, NEW m \in Nat, n < m, NEW i \in {n + 1, m}
              PROVE  i \in 1 .. m /\ i # 1 /\ i # 0
          BY <5>1
        <5>2. Len(versions[Bk(r)]) \in Nat
          BY <1>t
        <5>3. QED
          BY <4>3, <5>1, <5>2
      <4>5. versions[Bk(r)][v] # "New"
        BY <4>4 DEF AloneParts, NewIsFirst, Runs, Bk
      <4>6. QED
        BY <4>2, <4>4, <4>5 DEF Unseen, Fresh
    <3>3. CASE cache'[r] = cache[r]
      BY <1>2, <3>3 DEF Unseen, Fresh
    <3>4. QED
      BY <1>t, <3>1, <3>2, <3>3, CacheMoves
  <2>2. SUFFICES ASSUME NEW t \in Ahead(r)' PROVE t \in Ahead(r)
    OBVIOUS
  <2>3. /\ t \in Targets
        /\ \/ run'[r].pc = "init" /\ (run'[r].stage = "db" \/ t \in Pvcs)
           \/ run'[r].pc \in {"add", "wait"} /\ (t \in todo'[r] \/ (run'[r].stage = "db" /\ t \in Pvcs))
    BY <2>1 DEF Ahead, Targets
  <2>4. CASE Kept(r)
    BY <1>2, <2>3, <2>4 DEF Kept, Ahead
  <2>5. CASE Skip(r) \/ StartFails(r)
    BY <1>2, <2>3, <2>5 DEF Skip, StartFails, Ahead, runVars
  <2>6. ~Start(r)
    BY <1>2, StartAlone DEF Start
  <2>7. CASE InitStage(r)
    <3>1. CASE Goto(r, "add") /\ todo'[r] = StageTargets(Bk(r), run[r].stage)
      <4>1. run'[r].pc = "add" /\ run'[r].stage = run[r].stage
        BY <1>t, <3>1 DEF Goto, RunType, RunRec
      <4>2. t \in StageTargets(Bk(r), "volume") => t \in Pvcs
        BY <2>3 DEF StageTargets, StageOf, Targets
      <4>3. run[r].stage = "db" \/ t \in Pvcs
        BY <1>t, <2>3, <3>1, <4>1, <4>2 DEF RunRec, Stage
      <4>4. QED
        BY <2>3, <2>7, <4>3 DEF InitStage, Ahead
    <3>2. CASE NextStage(r)
      BY <1>t, <2>3, <2>7, <3>2 DEF InitStage, NextStage, Ahead, RunType, RunRec
    <3>3. QED
      BY <1>t, <2>7, <3>1, <3>2 DEF InitStage
  <2>8. CASE AddTask(r)
    <3>1. todo'[r] \subseteq todo[r] /\ \E p \in {"wait", "add"} : Goto(r, p)
      BY <1>t, <2>8 DEF AddTask, Track
    <3>2. run'[r].stage = run[r].stage /\ run'[r].pc \in {"wait", "add"}
      BY <1>t, <3>1 DEF Goto, RunType, RunRec
    <3>3. QED
      BY <2>3, <2>8, <3>1, <3>2 DEF AddTask, Ahead
  <2>9. CASE Receive(r)
    <3>1. CASE UNCHANGED run
      BY <1>2, <2>3, <2>9, <3>1 DEF Receive, Ahead
    <3>2. CASE NextStage(r)
      BY <1>t, <2>3, <2>9, <3>2 DEF Receive, NextStage, Ahead, RunType, RunRec
    <3>3. CASE Goto(r, "fail")
      BY <1>t, <2>3, <3>3 DEF Goto, RunType, RunRec
    <3>4. QED
      BY <2>9, <3>1, <3>2, <3>3 DEF Receive
  <2>10. CASE InitStageFails(r) \/ RepoFails(r) \/ WaitFails(r)
    BY <1>t, <2>3, <2>10 DEF InitStageFails, RepoFails, WaitFails, Goto, RunType, RunRec
  <2>11. CASE Complete(r) \/ Fail(r)
    BY <1>t, <2>3, <2>11 DEF Complete, Fail, EndRun, IdleRun, RunType
  <2>12. QED
    BY <1>t, <2>4, <2>5, <2>6, <2>7, <2>8, <2>9, <2>10, <2>11, RunMoves DEF Handler
<1>3. QED
  BY <1>1, <1>2

(* The one task a step makes is for a target that was ahead, and is not    *)
(* any more.                                                               *)
LEMMA MakesAhead ==
  ASSUME TypeInv, AloneParts, OnceParts, [Next]_vars,
         NEW n \in Names, tasks[n] = NoTask, tasks'[n] # NoTask
  PROVE  \E r \in Runs : /\ tasks'[n].owner = Bk(r) /\ n[1] \in Ahead(r) /\ n[1] \notin Ahead(r)'
                         /\ \A m \in Names \ {n} : tasks'[m] = tasks[m]
<1>t. /\ TypeOK /\ ServerType /\ ClockType /\ WorkType /\ RunType
      /\ todo \in [Runs -> SUBSET Targets]
      /\ tasks \in [Names -> TaskRec]
  BY DEF TypeInv, TypeOK, WorkType, ServerType
<1>1. PICK r \in Runs : AddTask(r)
  BY <1>t, OnlyAddTask
<1>2. PICK m \in Names : m[1] \in todo[r] /\ (CreateTask(r, m) \/ CreateTaskFails(m)) /\ Track(r, m)
  BY <1>t, <1>1, AddTaskEffect
<1>3. CreateTask(r, m) /\ m = n
  BY <1>t, <1>2 DEF CreateTask, CreateTaskFails
<1>4. /\ tasks'[n].owner = Bk(r) /\ \A q \in Names \ {n} : tasks'[q] = tasks[q]
  BY <1>t, <1>3 DEF CreateTask
<1>5. run[r] \in RunRec /\ run[r].pc = "add" /\ n[1] \in todo[r]
  BY <1>t, <1>1, <1>2, <1>3 DEF RunType, AddTask
<1>6. n[1] \in Ahead(r)
  BY <1>t, <1>5 DEF Ahead
<1>7. n[1] \notin Ahead(r)'
  <2>1. todo'[r] = todo[r] \ {n[1]} /\ \E p \in {"wait", "add"} : Goto(r, p)
    BY <1>t, <1>2, <1>3 DEF Track
  <2>2. run'[r].stage = run[r].stage /\ run'[r].pc \in {"wait", "add"}
    BY <1>t, <1>5, <2>1 DEF Goto, RunType, RunRec
  <2>3. UNCHANGED cache /\ ~Unseen(r) /\ ~Fresh(r)
    BY <1>1, <1>5 DEF AddTask, AloneParts, RunsOnce
  <2>4. ~Unseen(r)' /\ ~Fresh(r)'
    BY <2>3 DEF Unseen, Fresh
  <2>5. n[1] \in StageTargets(Bk(r), run[r].stage)
    BY <1>5 DEF OnceParts, TodoInStage
  <2>6. run[r].stage = "db" => n[1] \notin Pvcs
    BY <2>5, TargetsAssumption DEF StageTargets, StageOf
  <2>7. QED
    BY <2>1, <2>2, <2>4, <2>6 DEF Ahead
<1>8. QED
  BY <1>4, <1>6, <1>7

LEMMA OwnerKept ==
  ASSUME TypeOK, [Next]_vars, NEW n \in Names, tasks[n] # NoTask
  PROVE  tasks'[n].owner = tasks[n].owner /\ tasks'[n] # NoTask
BY TasksMove DEF TasksStep, NoTask, Ended

LEMMA AheadStep ==
  ASSUME TypeInv, AloneParts, OneProcess, OnceParts, TasksOwned, [Next]_vars,
         \A o \in Operators : ~Restart(o)
  PROVE  AheadIsNew'
<1> SUFFICES ASSUME NEW r \in Runs, NEW n \in Names, n[1] \in Ahead(r)'
             PROVE  tasks'[n].owner # Bk(r)
  BY DEF AheadIsNew
<1>1. TypeOK /\ Bk(r) \in Backups /\ n[1] \in Ahead(r) /\ tasks[n].owner # Bk(r)
  BY AheadShrinks DEF TypeInv, OnceParts, AheadIsNew, Runs, Bk
<1>2. CASE tasks'[n] = tasks[n]
  BY <1>1, <1>2
<1>3. CASE tasks[n] # NoTask
  BY <1>1, <1>3, OwnerKept
<1>4. CASE tasks[n] = NoTask /\ tasks'[n] # NoTask
  <2>1. PICK q \in Runs : tasks'[n].owner = Bk(q) /\ n[1] \notin Ahead(q)'
    BY <1>4, MakesAhead
  <2>2. q # r
    BY <2>1
  <2>3. QED
    BY <2>1, <2>2, SameRun
<1>5. QED
  BY <1>2, <1>3, <1>4

LEMMA OnePerTargetStep ==
  ASSUME TypeInv, AloneParts, OnceParts, TasksOwned, [Next]_vars
  PROVE  OnePerTarget'
<1> SUFFICES ASSUME NEW m \in Names, NEW n \in Names, tasks'[m] # NoTask,
                    tasks'[m].owner = tasks'[n].owner, m[1] = n[1], m # n
             PROVE  FALSE
  BY DEF OnePerTarget
<1>t. TypeOK /\ \A q \in Names : tasks[q] # NoTask => tasks[q].owner \in Backups
  BY DEF TypeInv, TasksOwned
<1>1. tasks'[m].owner \in Backups /\ tasks'[n] # NoTask
  <2>1. tasks'[m].owner \in Backups
    <3>1. CASE tasks[m] # NoTask
      BY <1>t, <3>1, OwnerKept
    <3>2. CASE tasks[m] = NoTask
      <4>1. PICK r \in Runs : tasks'[m].owner = Bk(r)
        BY <3>2, MakesAhead
      <4>2. QED
        BY <4>1 DEF Runs, Bk
    <3>3. QED
      BY <3>1, <3>2
  <2>2. QED
    BY <2>1, NoneAssumption DEF NoTask
<1>2. ASSUME NEW k \in Names, NEW l \in Names, k # l, k[1] = l[1], tasks[k] = NoTask,
             tasks'[k] # NoTask, tasks'[l] # NoTask, tasks'[k].owner = tasks'[l].owner
      PROVE  FALSE
  <2>1. PICK r \in Runs : /\ tasks'[k].owner = Bk(r) /\ k[1] \in Ahead(r)
                         /\ \A j \in Names \ {k} : tasks'[j] = tasks[j]
    BY <1>2, MakesAhead
  <2>2. tasks[l].owner = Bk(r) /\ l[1] \in Ahead(r)
    BY <1>2, <2>1
  <2>3. QED
    BY <2>2 DEF OnceParts, AheadIsNew
<1>3. tasks[m] # NoTask
  BY <1>1, <1>2
<1>4. tasks[n] # NoTask
  BY <1>1, <1>2
<1>5. tasks[m].owner = tasks[n].owner
  BY <1>t, <1>3, <1>4, OwnerKept
<1>6. QED
  BY <1>3, <1>5 DEF OnceParts, OnePerTarget

LEMMA OnceStep ==
  ASSUME TypeInv, TasksOwned, AloneInv, OnceInv, [Next]_vars
  PROVE  OnceInv'
<1> SUFFICES ASSUME OneProcess, used'["edit"] = 0, used'["restart"] = 0 PROVE OnceParts'
  BY DEF OnceInv, OneProcess
<1>1. /\ TypeOK /\ ClockType /\ used["edit"] = 0 /\ used["restart"] = 0
  BY UsedGrows, KindsAssumption DEF TypeInv, TypeOK
<1>2. AloneParts /\ OnceParts
  BY <1>1 DEF AloneInv, OnceInv
<1>3. \A o \in Operators : ~Restart(o)
  BY <1>1, KindsAssumption DEF Restart, Spend, ClockType
<1>4. FirstLife' /\ TodoInStage'
  BY <1>1, <1>2, <1>3, LifeStep, TodoStep DEF OnceParts
<1>5. AheadIsNew' /\ OnePerTarget'
  BY <1>2, <1>3, AheadStep, OnePerTargetStep
<1>6. QED
  BY <1>4, <1>5 DEF OnceParts

LEMMA OnceInit == Init => OnceInv
<1>1. ASSUME Init PROVE FirstLife /\ TodoInStage
  BY <1>1 DEF Init, IdleRun, FirstLife, Unseen, TodoInStage
<1>2. ASSUME Init PROVE AheadIsNew
  BY <1>2, NoneAssumption DEF Init, NoTask, AheadIsNew, Runs, Bk
<1>3. ASSUME Init PROVE OnePerTarget
  BY <1>3 DEF Init, OnePerTarget
<1>4. QED
  BY <1>1, <1>2, <1>3 DEF OnceInv, OnceParts

(* With one process that is not restarted, and no edits, no target is      *)
(* snapshotted twice for a Backup, whatever is lost, repeated or reported  *)
(* late.                                                                   *)
THEOREM SnapshottedOnce == Spec => []SnapshotOnce
<1> DEFINE Inv == IInv /\ AloneInv /\ OnceInv
<1>1. Init => Inv
  BY InitInv, AloneInit, OnceInit
<1>2. Inv /\ [Next]_vars => Inv'
  <2>1. IInv => TypeInv /\ TasksOwned
    BY DEF IInv, TypeInv
  <2>2. QED
    BY <2>1, StepInv, AloneStep, OnceStep
<1>3. Inv => SnapshotOnce
  BY DEF OnceInv, OnceParts, OnePerTarget, SnapshotOnce, OneProcess
<1>4. QED
  BY <1>1, <1>2, <1>3, PTL DEF Spec
=============================================================================
