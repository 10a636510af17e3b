---------------------------- MODULE DbBackupProofs ----------------------------
(***************************************************************************)
(* Proofs about DbBackupController, for any number of processes, DbBackups,*)
(* seconds and disturbances.                                               *)
(***************************************************************************)
EXTENDS DbBackupController, TLAPS

-----------------------------------------------------------------------------
(* Type correctness, with its companion: a worker that is busy has an item.*)
ItemOK  == \A o \in Operators : Working(o) => run[o].item \in DbBackups
TypeInv == TypeOK /\ ItemOK

LEMMA SpendType ==
  ASSUME TypeOK, NEW k \in Kinds, Spend(k)
  PROVE  used' \in [Kinds -> Nat]
BY DEF TypeOK, Spend

LEMMA WriteEffect ==
  ASSUME TypeOK, NEW d \in DbBackups, NEW p \in PhaseName \ {"Absent"}, Write(d, p)
  PROVE  /\ versions' \in [DbBackups -> Seq(PhaseName \ {"Absent"})]
         /\ Len(versions'[d]) = Len(versions[d]) + 1
         /\ Phase(d)' = p
         /\ \A i \in 1 .. Len(versions[d]) : versions'[d][i] = versions[d][i]
         /\ \A q \in DbBackups \ {d} : versions'[q] = versions[q] /\ Phase(q)' = Phase(q)
<1> DEFINE w == Append(versions[d], p)
<1>1. versions[d] \in Seq(PhaseName \ {"Absent"})
  BY DEF TypeOK
<1>2. /\ w \in Seq(PhaseName \ {"Absent"}) /\ w # <<>>
      /\ Len(w) = Len(versions[d]) + 1 /\ w[Len(w)] = p
      /\ \A i \in 1 .. Len(versions[d]) : w[i] = versions[d][i]
  BY <1>1
<1>3. versions' = [versions EXCEPT ![d] = w] /\ versions'[d] = w
  BY DEF Write, TypeOK
<1>4. Phase(d)' = p
  BY <1>2, <1>3 DEF Phase
<1>5. \A q \in DbBackups \ {d} : versions'[q] = versions[q] /\ Phase(q)' = Phase(q)
  BY <1>3 DEF Phase, TypeOK
<1>6. QED
  BY <1>2, <1>3, <1>4, <1>5 DEF TypeOK

LEMMA PhaseType ==
  ASSUME TypeOK, NEW d \in DbBackups
  PROVE  /\ Len(versions[d]) \in Nat
         /\ Phase(d) \in PhaseName
         /\ Phase(d) = "Absent" <=> versions[d] = <<>>
BY DEF TypeOK, Phase, PhaseName

LEMMA RunFields ==
  ASSUME NEW x \in RunRec
  PROVE  /\ \A p \in {"idle", "dump", "store", "complete", "fail"} :
              [x EXCEPT !.pc = p] \in RunRec
         /\ \A t \in 0 .. MaxTime : [x EXCEPT !.pc = "store", !.at = t] \in RunRec
BY DEF RunRec

LEMMA IdleType == IdleRun \in RunRec
BY MaxTimeAssumption DEF IdleRun, RunRec

RunOK == run \in [Operators -> RunRec]

LEMMA GotoType ==
  ASSUME RunOK, ItemOK, NEW o \in Operators, Working(o),
         NEW p \in {"dump", "store", "complete", "fail"}, Goto(o, p)
  PROVE  RunOK' /\ ItemOK'
<1>1. run[o] \in RunRec /\ run[o].item \in DbBackups
  BY DEF RunOK, ItemOK
<1>2. [run[o] EXCEPT !.pc = p] \in RunRec /\ [run[o] EXCEPT !.pc = p].item = run[o].item
  BY <1>1, RunFields DEF RunRec
<1>3. QED
  BY <1>1, <1>2 DEF Goto, RunOK, ItemOK, Working

LEMMA EndRunType ==
  ASSUME RunOK, ItemOK, NEW o \in Operators, EndRun(o)
  PROVE  RunOK' /\ ItemOK'
<1>1. IdleRun.pc = "idle"
  BY DEF IdleRun
<1>2. QED
  BY <1>1, IdleType DEF EndRun, RunOK, ItemOK, Working

LEMMA RequeueType ==
  ASSUME queued \in [Operators -> SUBSET DbBackups], NEW o \in Operators,
         run[o].item \in DbBackups, Requeue(o)
  PROVE  queued' \in [Operators -> SUBSET DbBackups]
BY DEF Requeue

LEMMA PathType ==
  ASSUME TypeInv, NEW o \in Operators, Working(o)
  PROVE  run[o].item \in DbBackups /\ PathOf(o) \in Paths
BY SlotAssumption DEF TypeInv, ItemOK, TypeOK, PathOf, Paths, RunRec

LEMMA InitType == Init => TypeInv
BY IdleType, MaxTimeAssumption
   DEF Init, TypeInv, TypeOK, ItemOK, Working, IdleRun, PhaseName

LEMMA TypeStep == TypeInv /\ [Next]_vars => TypeInv'
<1> SUFFICES ASSUME TypeInv, [Next]_vars PROVE TypeInv'
  OBVIOUS
<1>t. TypeOK /\ ItemOK
  BY DEF TypeInv
<1>k. {"api", "lost", "restart", "lapse", "edit", "delete"} \subseteq Kinds
  BY KindsAssumption
<1>1. ASSUME NEW d \in DbBackups, CreateDbBackup(d) PROVE TypeInv'
  <2>1. versions' \in [DbBackups -> Seq(PhaseName \ {"Absent"})]
    BY <1>t, <1>1, WriteEffect DEF CreateDbBackup, PhaseName
  <2>2. QED
    BY <1>t, <1>1, <2>1 DEF CreateDbBackup, TypeInv, TypeOK, ItemOK, Working, envVars
<1>2. ASSUME NEW d \in DbBackups, EditDbBackup(d) \/ DeleteDbBackup(d) PROVE TypeInv'
  <2>1. Phase(d) \in PhaseName \ {"Absent"}
    BY <1>t, <1>2, PhaseType DEF EditDbBackup, DeleteDbBackup, Exists, NoObject
  <2>2. versions' \in [DbBackups -> Seq(PhaseName \ {"Absent"})]
    BY <1>t, <1>2, <2>1, WriteEffect DEF EditDbBackup, DeleteDbBackup, PhaseName
  <2>3. used' \in [Kinds -> Nat]
    BY <1>t, <1>k, <1>2, SpendType DEF EditDbBackup, DeleteDbBackup
  <2>4. QED
    BY <1>t, <1>2, <2>2, <2>3 DEF EditDbBackup, DeleteDbBackup, TypeInv, TypeOK, ItemOK, Working
<1>3. ASSUME Tick PROVE TypeInv'
  BY <1>t, <1>3, MaxTimeAssumption DEF Tick, serverVars, TypeInv, TypeOK, ItemOK, Working
<1>4. ASSUME NEW o \in Operators, NEW d \in DbBackups, Deliver(o, d) PROVE TypeInv'
  <2>1. PICK v \in cache[o][d].seen + 1 .. Len(versions[d]) :
          cache' = [cache EXCEPT ![o][d] = [seen |-> v, phase |-> versions[d][v]]]
    BY <1>4 DEF Deliver
  <2>2. [seen |-> v, phase |-> versions[d][v]] \in [seen : Nat, phase : PhaseName]
    BY <1>t, <2>1 DEF TypeOK
  <2>3. cache' \in [Operators -> [DbBackups -> [seen : Nat, phase : PhaseName]]]
    BY <1>t, <2>1, <2>2 DEF TypeOK
  <2>4. queued' \in [Operators -> SUBSET DbBackups]
    BY <1>t, <1>4 DEF Deliver, TypeOK
  <2>5. QED
    BY <1>t, <1>4, <2>3, <2>4 DEF Deliver, serverVars, envVars, TypeInv, TypeOK, ItemOK, Working
<1>5. ASSUME NEW o \in Operators, Elect(o) \/ Resync(o) PROVE TypeInv'
  <2>1. used' \in [Kinds -> Nat]
    BY <1>t, <1>k, <1>5, SpendType DEF Elect, Resync, envVars, TypeOK
  <2>2. queued' \in [Operators -> SUBSET DbBackups] /\ leads' \subseteq Operators
    BY <1>t, <1>5 DEF Elect, Resync, TypeOK, Known
  <2>3. QED
    BY <1>t, <1>5, <2>1, <2>2 DEF Elect, Resync, serverVars, envVars, TypeInv, TypeOK,
       ItemOK, Working
<1>6. ASSUME NEW o \in Operators, Restart(o) PROVE TypeInv'
  <2>1. used' \in [Kinds -> Nat]
    BY <1>t, <1>k, <1>6, SpendType DEF Restart
  <2>2. /\ run' \in [Operators -> RunRec] /\ leads' \subseteq Operators
        /\ queued' \in [Operators -> SUBSET DbBackups]
    BY <1>t, <1>6, IdleType DEF Restart, TypeOK
  <2>3. cache' \in [Operators -> [DbBackups -> [seen : Nat, phase : PhaseName]]]
    BY <1>t, <1>6 DEF Restart, TypeOK, PhaseName
  <2>4. ItemOK'
    BY <1>t, <1>6 DEF Restart, TypeOK, ItemOK, Working, IdleRun
  <2>5. QED
    BY <1>t, <1>6, <2>1, <2>2, <2>3, <2>4 DEF Restart, serverVars, TypeInv, TypeOK
<1>7. ASSUME NEW o \in Operators, NEW d \in DbBackups,
             Skip(o, d) \/ Start(o, d) \/ StartRefused(o, d) \/ StartUnheard(o, d)
      PROVE  TypeInv'
  <2>1. versions' \in [DbBackups -> Seq(PhaseName \ {"Absent"})]
    <3>1. UNCHANGED versions \/ Write(d, "InProgress")
      BY <1>7 DEF Skip, Start, StartRefused, StartUnheard, serverVars
    <3>2. QED
      BY <1>t, <3>1, WriteEffect DEF PhaseName, TypeOK
  <2>2. used' \in [Kinds -> Nat]
    BY <1>t, <1>k, <1>7, SpendType DEF Skip, Start, StartRefused, StartUnheard, envVars, TypeOK
  <2>3. run' \in [Operators -> RunRec] /\ ItemOK'
    <3>1. CASE UNCHANGED run
      BY <1>t, <3>1 DEF TypeOK, ItemOK, Working
    <3>2. CASE Start(o, d)
      <4>1. [pc |-> "dump", item |-> d, rv |-> Len(versions[d]) + 1, at |-> 0] \in RunRec
        BY <1>t, MaxTimeAssumption DEF RunRec, TypeOK
      <4>2. QED
        BY <1>t, <3>2, <4>1 DEF Start, TypeOK, ItemOK, Working
    <3>3. QED
      BY <1>7, <3>1, <3>2 DEF Skip, StartRefused, StartUnheard
  <2>4. queued' \in [Operators -> SUBSET DbBackups]
    BY <1>t, <1>7 DEF Skip, Start, StartRefused, StartUnheard, Forget, Retry, TypeOK
  <2>5. QED
    BY <1>t, <1>7, <2>1, <2>2, <2>3, <2>4
       DEF Skip, Start, StartRefused, StartUnheard, serverVars, envVars, TypeInv, TypeOK
<1>8. ASSUME NEW o \in Operators, Dump(o) \/ DumpFails(o) PROVE TypeInv'
  <2>1. /\ run[o].item \in DbBackups /\ run[o] \in RunRec /\ Working(o)
        /\ now \in 0 .. MaxTime /\ RunOK
    BY <1>t, <1>8, PathType DEF Dump, DumpFails, Working, TypeInv, TypeOK, RunOK
  <2>2. RunOK' /\ ItemOK'
    <3>1. CASE DumpFails(o)
      BY <1>t, <2>1, <3>1, GotoType DEF DumpFails, GiveUp
    <3>2. CASE Dump(o)
      <4> DEFINE x == [run[o] EXCEPT !.pc = "store", !.at = now]
      <4>1. x \in RunRec /\ x.item = run[o].item
        BY <2>1, RunFields DEF RunRec
      <4>2. QED
        BY <1>t, <2>1, <3>2, <4>1 DEF Dump, RunOK, ItemOK, Working
    <3>3. QED
      BY <1>8, <3>1, <3>2
  <2>3. dumps' \in [DbBackups -> Seq(0 .. MaxTime)]
    <3>1. dumps \in [DbBackups -> Seq(0 .. MaxTime)] /\ now \in 0 .. MaxTime
      BY <1>t DEF TypeOK
    <3>2. \A d \in DbBackups : Append(dumps[d], now) \in Seq(0 .. MaxTime)
      BY <3>1
    <3>3. QED
      BY <1>8, <2>1, <3>1, <3>2 DEF Dump, DumpFails
  <2>4. QED
    BY <1>t, <1>8, <2>2, <2>3 DEF Dump, DumpFails, serverVars, envVars, TypeInv, TypeOK, RunOK
<1>9. ASSUME NEW o \in Operators, Store(o) \/ StoreFails(o) PROVE TypeInv'
  <2>1. run[o].item \in DbBackups /\ PathOf(o) \in Paths /\ Working(o) /\ RunOK
    BY <1>t, <1>9, PathType DEF Store, StoreFails, Working, TypeInv, TypeOK, RunOK
  <2>2. RunOK' /\ ItemOK'
    BY <1>t, <1>9, <2>1, GotoType DEF Store, StoreFails, GiveUp
  <2>3. files' \in [Paths -> DbBackups \cup {None, Torn}]
    BY <1>t, <1>9, <2>1 DEF Store, StoreFails, TypeOK
  <2>4. QED
    BY <1>t, <1>9, <2>2, <2>3
       DEF Store, StoreFails, serverVars, envVars, TypeInv, TypeOK, RunOK
<1>10. ASSUME NEW o \in Operators, Complete(o) \/ Fail(o) PROVE TypeInv'
  <2>1. run[o].item \in DbBackups /\ PathOf(o) \in Paths
    BY <1>t, <1>10, PathType DEF Complete, Fail, Working, TypeInv
  <2>2. RunOK' /\ ItemOK'
    BY <1>t, <1>10, EndRunType DEF Complete, Fail, TypeOK, RunOK
  <2>3. versions' \in [DbBackups -> Seq(PhaseName \ {"Absent"})]
    <3>1. UNCHANGED versions \/ Write(run[o].item, "Completed") \/ Write(run[o].item, "Failed")
      BY <1>10 DEF Complete, Fail, serverVars
    <3>2. QED
      BY <1>t, <2>1, <3>1, WriteEffect DEF PhaseName, TypeOK
  <2>4. path' \in [DbBackups -> Paths \cup {None}]
    BY <1>t, <1>10, <2>1 DEF Complete, Fail, Record, serverVars, TypeOK
  <2>5. used' \in [Kinds -> Nat]
    BY <1>t, <1>k, <1>10, SpendType DEF Complete, Fail, TypeOK
  <2>6. queued' \in [Operators -> SUBSET DbBackups]
    BY <1>t, <1>10, <2>1, RequeueType DEF Complete, Fail, TypeOK
  <2>7. QED
    BY <1>t, <1>10, <2>2, <2>3, <2>4, <2>5, <2>6
       DEF Complete, Fail, TypeInv, TypeOK, RunOK
<1>11. CASE UNCHANGED vars
  BY <1>t, <1>11 DEF vars, TypeInv, TypeOK, ItemOK, Working
<1>12. QED
  BY <1>1, <1>2, <1>3, <1>4, <1>5, <1>6, <1>7, <1>8, <1>9, <1>10, <1>11 DEF Next, Reconcile

(* Every variable keeps its type, and a busy worker always has an item.    *)
THEOREM TypeCorrect == Spec => []TypeOK
<1>1. TypeInv => TypeOK
  BY DEF TypeInv
<1>2. QED
  BY <1>1, InitType, TypeStep, PTL DEF Spec
-----------------------------------------------------------------------------
(* At most one dump. The facts that carry it: a run holds its DbBackup     *)
(* alone, in a phase from which no other process starts.                   *)

(* The start needs the version on the server, so the phase there is "New". *)
LEMMA StartIsFirst ==
  ASSUME TypeOK, CacheHonest, NEW o \in Operators, NEW d \in DbBackups,
         IsNew(o, d), Current(o, d)
  PROVE  Phase(d) = "New"
<1>1. /\ cache[o][d].phase = "New" /\ cache[o][d].seen = Len(versions[d])
      /\ cache[o][d].seen \in Nat /\ versions[d] \in Seq(PhaseName \ {"Absent"})
  BY DEF IsNew, Current, TypeOK
<1>2. cache[o][d].seen # 0 /\ versions[d] # <<>>
  BY <1>1 DEF CacheHonest
<1>3. QED
  BY <1>1, <1>2 DEF CacheHonest, Phase

LEMMA CacheStep ==
  ASSUME TypeInv, CacheHonest, [Next]_vars
  PROVE  CacheHonest'
<1>t. /\ TypeOK /\ ItemOK
      /\ versions \in [DbBackups -> Seq(PhaseName \ {"Absent"})]
      /\ cache \in [Operators -> [DbBackups -> [seen : Nat, phase : PhaseName]]]
  BY DEF TypeInv, TypeOK
<1>1. \/ UNCHANGED versions
      \/ \E d \in DbBackups, p \in PhaseName \ {"Absent"} : Write(d, p)
  <2>1. ASSUME NEW d \in DbBackups, EditDbBackup(d) \/ DeleteDbBackup(d)
        PROVE  \E p \in PhaseName \ {"Absent"} : Write(d, p)
    BY <1>t, <2>1, PhaseType DEF EditDbBackup, DeleteDbBackup, Exists, NoObject, PhaseName
  <2>2. ASSUME NEW o \in Operators, Complete(o) \/ Fail(o)
        PROVE  \/ UNCHANGED versions
               \/ \E d \in DbBackups, p \in PhaseName \ {"Absent"} : Write(d, p)
    BY <1>t, <2>2 DEF Complete, Fail, serverVars, ItemOK, Working, PhaseName
  <2>3. QED
    BY <2>1, <2>2 DEF Next, Reconcile, vars, CreateDbBackup, Tick, Deliver, Elect, Resync, Restart,
       Skip, Start, StartRefused, StartUnheard, Dump, DumpFails, Store, StoreFails, serverVars,
       PhaseName
<1>2. CASE UNCHANGED cache
  <2>1. \A d \in DbBackups :
          /\ Len(versions[d]) \in Nat /\ Len(versions'[d]) \in Nat
          /\ Len(versions[d]) <= Len(versions'[d])
          /\ \A i \in 1 .. Len(versions[d]) : versions'[d][i] = versions[d][i]
    <3>1. CASE UNCHANGED versions
      BY <1>t, <3>1
    <3>2. ASSUME NEW d \in DbBackups, NEW p \in PhaseName \ {"Absent"}, Write(d, p),
                 NEW q \in DbBackups
          PROVE  /\ Len(versions[q]) \in Nat /\ Len(versions'[q]) \in Nat
                 /\ Len(versions[q]) <= Len(versions'[q])
                 /\ \A i \in 1 .. Len(versions[q]) : versions'[q][i] = versions[q][i]
      <4>1. Len(versions[q]) \in Nat
        BY <1>t
      <4>2. CASE q = d
        BY <1>t, <3>2, <4>1, <4>2, WriteEffect
      <4>3. CASE q # d
        <5>1. versions'[q] = versions[q]
          BY <1>t, <3>2, <4>3, WriteEffect
        <5>2. QED
          BY <4>1, <5>1
      <4>4. QED
        BY <4>2, <4>3
    <3>3. QED
      BY <1>1, <3>1, <3>2
  <2>2. QED
    BY <1>t, <1>2, <2>1 DEF CacheHonest
<1>3. ASSUME NEW o \in Operators, NEW d \in DbBackups, Deliver(o, d) PROVE CacheHonest'
  <2>1. PICK v \in cache[o][d].seen + 1 .. Len(versions[d]) :
          cache' = [cache EXCEPT ![o][d] = [seen |-> v, phase |-> versions[d][v]]]
    BY <1>3 DEF Deliver
  <2>2. v # 0 /\ v <= Len(versions[d])
    BY <1>t, <2>1
  <2>3. versions' = versions
    BY <1>3 DEF Deliver, serverVars
  <2>4. QED
    BY <1>t, <2>1, <2>2, <2>3 DEF CacheHonest
<1>4. ASSUME NEW o \in Operators, Restart(o) PROVE CacheHonest'
  BY <1>t, <1>4 DEF Restart, CacheHonest, serverVars
<1>5. QED
  BY <1>2, <1>3, <1>4 DEF Next, Reconcile, vars, CreateDbBackup, EditDbBackup, DeleteDbBackup,
     Tick, Elect, Resync, Skip, Start, StartRefused, StartUnheard, Dump, DumpFails, Store,
     StoreFails, Complete, Fail

(* What the steps mean for the runs and for the phases, dumps apart.       *)
Held == RunsHold /\ RunsApart /\ NotDumped /\ DumpOnce

(* The phase of one DbBackup changes, and no run starts or dumps.          *)
LEMMA WriteHeld ==
  ASSUME TypeInv, TypeInv', Held, NEW d \in DbBackups, NEW p \in PhaseName \ {"Absent"},
         Write(d, p), UNCHANGED dumps,
         \A o \in Operators : Working(o)' => run'[o] = run[o],
         \/ p = "Gone"
         \/ p = Phase(d)
         \/ \A o \in Operators : Working(o)' => run[o].item # d,
         p = "New" => Phase(d) \in {"Absent", "New"}
  PROVE  Held'
<1>t. /\ TypeOK /\ ItemOK /\ \A o \in Operators : run[o].rv \in Nat
      /\ \A q \in DbBackups : Len(versions[q]) \in Nat
      /\ \A o \in Operators : Working(o)' => Working(o)
  BY DEF TypeInv, TypeOK, RunRec, Working
<1>1. /\ Phase(d)' = p
      /\ Len(versions'[d]) = Len(versions[d]) + 1
      /\ \A q \in DbBackups \ {d} : versions'[q] = versions[q] /\ Phase(q)' = Phase(q)
  BY <1>t, WriteEffect
<1>2. RunsApart'
  BY <1>t DEF Held, RunsApart
<1>3. ASSUME NEW o \in Operators, Working(o)' PROVE RunHolds(o)'
  <2>1. run'[o] = run[o] /\ run[o].item \in DbBackups /\ Working(o)
    BY <1>t, <1>3 DEF ItemOK
  <2>2. /\ Phase(run[o].item) \in {"InProgress", "Gone"}
        /\ Holds(o) => Phase(run[o].item) = "InProgress"
        /\ run[o].rv <= Len(versions[run[o].item])
    BY <2>1 DEF Held, RunsHold, RunHolds
  <2>3. CASE run[o].item # d
    BY <1>1, <2>1, <2>2, <2>3 DEF Holds, RunHolds, Phase
  <2>4. CASE run[o].item = d
    <3>1. ~Holds(o)'
      BY <1>t, <1>1, <2>1, <2>2, <2>4 DEF Holds
    <3>2. QED
      BY <1>t, <1>1, <1>3, <2>1, <2>2, <2>4, <3>1 DEF RunHolds, Phase
  <2>5. QED
    BY <2>3, <2>4
<1>4. RunsHold'
  BY <1>3 DEF RunsHold, RunHolds
<1>5. NotDumped'
  <2>1. \A q \in DbBackups : Phase(q)' \in {"Absent", "New"} => dumps[q] = <<>>
    BY <1>1 DEF Held, NotDumped
  <2>2. \A o \in Operators : run'[o].pc = "dump" => dumps[run'[o].item] = <<>>
    BY DEF Held, NotDumped, Working
  <2>3. QED
    BY <2>1, <2>2 DEF NotDumped
<1>6. QED
  BY <1>2, <1>4, <1>5 DEF Held, DumpOnce

(* Nothing is written: runs end or go on, and none goes back to dumping.   *)
LEMMA QuietHeld ==
  ASSUME Held, UNCHANGED <<versions, dumps>>,
         \A o \in Operators : Working(o)' =>
           /\ Working(o) /\ run'[o].item = run[o].item /\ run'[o].rv = run[o].rv
           /\ run'[o].pc = "dump" => run[o].pc = "dump"
  PROVE  Held'
<1>1. \A d \in DbBackups : Phase(d)' = Phase(d)
  BY DEF Phase
<1>2. RunsHold'
  <2> SUFFICES ASSUME NEW o \in Operators, Working(o)' PROVE RunHolds(o)'
    BY DEF RunsHold, RunHolds
  <2>1. QED
    BY DEF Held, RunsHold, RunHolds, Holds, Phase
<1>3. RunsApart'
  BY DEF Held, RunsApart
<1>4. NotDumped' /\ DumpOnce'
  BY <1>1 DEF Held, NotDumped, DumpOnce, Working
<1>5. QED
  BY <1>2, <1>3, <1>4 DEF Held

LEMMA StartHeld ==
  ASSUME TypeInv, TypeInv', CacheHonest, Held,
         NEW o \in Operators, NEW d \in DbBackups, Start(o, d)
  PROVE  Held'
<1> DEFINE x == [pc |-> "dump", item |-> d, rv |-> Len(versions[d]) + 1, at |-> 0]
<1>t. /\ TypeOK /\ ItemOK /\ run \in [Operators -> RunRec]
      /\ dumps' = dumps /\ Write(d, "InProgress") /\ run' = [run EXCEPT ![o] = x]
      /\ Len(versions[d]) \in Nat /\ "InProgress" \in PhaseName \ {"Absent"}
  BY DEF TypeInv, TypeOK, Start, PhaseName
<1>1. Phase(d) = "New" /\ dumps[d] = <<>>
  BY <1>t, StartIsFirst DEF Start, Held, NotDumped
<1>2. /\ Phase(d)' = "InProgress"
      /\ Len(versions'[d]) = Len(versions[d]) + 1
      /\ \A q \in DbBackups \ {d} : versions'[q] = versions[q] /\ Phase(q)' = Phase(q)
  BY <1>t, WriteEffect
<1>3. \A q \in Operators : Working(q) => run[q].item \in DbBackups \ {d}
  BY <1>1 DEF Held, RunsHold, RunHolds
<1>4. run'[o] = x /\ \A q \in Operators \ {o} : run'[q] = run[q]
  BY <1>t
<1>5. RunsHold'
  <2> SUFFICES ASSUME NEW q \in Operators, Working(q)' PROVE RunHolds(q)'
    BY DEF RunsHold, RunHolds
  <2>1. CASE q = o
    BY <1>t, <1>2, <1>4, <2>1 DEF RunHolds, Phase
  <2>2. CASE q # o
    BY <1>2, <1>3, <1>4, <2>2 DEF Held, RunsHold, RunHolds, Holds, Working, Phase
  <2>3. QED
    BY <2>1, <2>2
<1>6. RunsApart'
  BY <1>3, <1>4 DEF Held, RunsApart, Working
<1>7. NotDumped' /\ DumpOnce'
  BY <1>t, <1>1, <1>2, <1>4 DEF Held, NotDumped, DumpOnce, Working
<1>8. QED
  BY <1>5, <1>6, <1>7 DEF Held

LEMMA DumpHeld ==
  ASSUME TypeInv, Held, NEW o \in Operators, Dump(o)
  PROVE  Held'
<1> DEFINE d == run[o].item
           x == [run[o] EXCEPT !.pc = "store", !.at = now]
<1>t. /\ TypeOK /\ ItemOK /\ run \in [Operators -> RunRec] /\ d \in DbBackups /\ Working(o)
      /\ dumps \in [DbBackups -> Seq(0 .. MaxTime)]
      /\ versions' = versions /\ dumps' = [dumps EXCEPT ![d] = Append(@, now)]
      /\ run' = [run EXCEPT ![o] = x]
  BY DEF TypeInv, TypeOK, ItemOK, Dump, Working, serverVars
<1>1. /\ run'[o] = x /\ x.item = d /\ x.rv = run[o].rv /\ x.pc = "store"
      /\ \A q \in Operators \ {o} : run'[q] = run[q]
  BY <1>t DEF RunRec
<1>2. \A q \in DbBackups : Phase(q)' = Phase(q)
  BY <1>t DEF Phase
<1>3. dumps[d] = <<>> /\ Phase(d) \in {"InProgress", "Gone"}
  BY <1>t DEF Dump, Held, NotDumped, RunsHold, RunHolds
<1>4. RunsHold'
  <2> SUFFICES ASSUME NEW q \in Operators, Working(q)' PROVE RunHolds(q)'
    BY DEF RunsHold, RunHolds
  <2>1. Working(q) /\ run'[q].item = run[q].item /\ run'[q].rv = run[q].rv
    BY <1>t, <1>1 DEF Working
  <2>2. QED
    BY <1>t, <2>1 DEF Held, RunsHold, RunHolds, Holds, Phase
<1>5. RunsApart'
  <2>1. \A q \in Operators : Working(q)' => Working(q) /\ run'[q].item = run[q].item
    BY <1>t, <1>1 DEF Working
  <2>2. QED
    BY <2>1 DEF Held, RunsApart
<1>6. NotDumped'
  <2>1. \A q \in DbBackups : Phase(q)' \in {"Absent", "New"} => dumps'[q] = <<>>
    BY <1>t, <1>2, <1>3 DEF Held, NotDumped
  <2>2. \A q \in Operators : run'[q].pc = "dump" => dumps'[run'[q].item] = <<>>
    <3> SUFFICES ASSUME NEW q \in Operators, run'[q].pc = "dump"
                 PROVE  dumps'[run'[q].item] = <<>>
      OBVIOUS
    <3>1. q # o /\ run'[q] = run[q] /\ Working(q)
      BY <1>1 DEF Working
    <3>2. run[q].item # d /\ run[q].item \in DbBackups
      BY <1>t, <3>1 DEF Held, RunsApart, ItemOK
    <3>3. QED
      BY <1>t, <3>1, <3>2 DEF Held, NotDumped
  <2>3. QED
    BY <2>1, <2>2 DEF NotDumped
<1>7. DumpOnce'
  <2>1. Len(dumps'[d]) = 1 /\ \A q \in DbBackups \ {d} : dumps'[q] = dumps[q]
    <3>1. dumps'[d] = Append(<<>>, now)
      BY <1>t, <1>3
    <3>2. Len(Append(<<>>, now)) = 1
      OBVIOUS
    <3>3. QED
      BY <1>t, <3>1, <3>2
  <2>2. QED
    BY <1>t, <2>1 DEF Held, DumpOnce
<1>8. QED
  BY <1>4, <1>5, <1>6, <1>7 DEF Held
LEMMA HeldStep ==
  ASSUME TypeInv, TypeInv', CacheHonest, Held, [Next]_vars
  PROVE  Held'
<1>t. /\ TypeOK /\ ItemOK /\ run \in [Operators -> RunRec]
      /\ IdleRun.pc = "idle"
      /\ {"New", "InProgress", "Completed", "Failed", "Gone"} = PhaseName \ {"Absent"}
  BY DEF TypeInv, TypeOK, IdleRun, PhaseName
<1>1. ASSUME NEW d \in DbBackups, CreateDbBackup(d) PROVE Held'
  <2>1. Phase(d) = "Absent" /\ Write(d, "New") /\ UNCHANGED <<dumps, run>>
    BY <1>1 DEF CreateDbBackup, Phase
  <2>2. \A o \in Operators : Working(o)' => run[o].item # d
    BY <2>1 DEF Held, RunsHold, RunHolds, Working
  <2>3. QED
    BY <1>t, <2>1, <2>2, WriteHeld
<1>2. ASSUME NEW d \in DbBackups, EditDbBackup(d) \/ DeleteDbBackup(d) PROVE Held'
  <2>1. PICK p \in {"Gone", Phase(d)} : Write(d, p)
    BY <1>2 DEF EditDbBackup, DeleteDbBackup
  <2>2. p \in PhaseName \ {"Absent"}
    BY <1>t, <1>2, <2>1, PhaseType DEF EditDbBackup, DeleteDbBackup, Exists, NoObject
  <2>3. UNCHANGED <<dumps, run>>
    BY <1>2 DEF EditDbBackup, DeleteDbBackup
  <2>4. QED
    BY <2>1, <2>2, <2>3, WriteHeld
<1>3. ASSUME NEW o \in Operators, NEW d \in DbBackups, StartUnheard(o, d) PROVE Held'
  <2>1. Phase(d) = "New" /\ Write(d, "InProgress") /\ UNCHANGED <<dumps, run>>
    BY <1>t, <1>3, StartIsFirst DEF StartUnheard
  <2>2. \A q \in Operators : Working(q)' => run[q].item # d
    BY <2>1 DEF Held, RunsHold, RunHolds, Working
  <2>3. QED
    BY <1>t, <2>1, <2>2, WriteHeld
<1>4. ASSUME NEW o \in Operators, Complete(o) \/ Fail(o) PROVE Held'
  <2> DEFINE d == run[o].item
  <2>1. /\ Working(o) /\ d \in DbBackups /\ UNCHANGED dumps
        /\ run' = [run EXCEPT ![o] = IdleRun]
    BY <1>t, <1>4 DEF Complete, Fail, EndRun, Working, ItemOK
  <2>2. /\ ~Working(o)'
        /\ \A q \in Operators \ {o} : run'[q] = run[q]
    BY <1>t, <2>1 DEF Working
  <2>3. CASE UNCHANGED versions
    BY <2>1, <2>2, <2>3, QuietHeld DEF Working
  <2>4. ASSUME NEW p \in {"Completed", "Failed"}, Write(d, p) PROVE Held'
    <3>1. \A q \in Operators : Working(q)' => run'[q] = run[q] /\ run[q].item # d
      BY <2>1, <2>2 DEF Held, RunsApart, Working
    <3>2. QED
      BY <1>t, <2>1, <2>4, <3>1, WriteHeld
  <2>5. QED
    BY <1>4, <2>3, <2>4 DEF Complete, Fail, serverVars
<1>5. ASSUME NEW o \in Operators, NEW p \in {"store", "complete", "fail"},
             Working(o), Goto(o, p), UNCHANGED <<versions, dumps>>
      PROVE  Held'
  <2>1. \A q \in Operators : Working(q)' =>
           /\ Working(q) /\ run'[q].item = run[q].item /\ run'[q].rv = run[q].rv
           /\ run'[q].pc = "dump" => run[q].pc = "dump"
    BY <1>t, <1>5 DEF Goto, Working, RunRec
  <2>2. QED
    BY <1>5, <2>1, QuietHeld
<1>6. ASSUME NEW o \in Operators, DumpFails(o) \/ Store(o) \/ StoreFails(o) PROVE Held'
  BY <1>5, <1>6 DEF DumpFails, Store, StoreFails, GiveUp, Working, serverVars
<1>7. ASSUME NEW o \in Operators, Restart(o) PROVE Held'
  <2>1. UNCHANGED <<versions, dumps>> /\ run' = [run EXCEPT ![o] = IdleRun]
    BY <1>7 DEF Restart, serverVars
  <2>2. \A q \in Operators : Working(q)' => run'[q] = run[q]
    BY <1>t, <2>1 DEF Working
  <2>3. QED
    BY <2>1, <2>2, QuietHeld DEF Working
<1>8. CASE UNCHANGED <<versions, dumps, run>>
  BY <1>8, QuietHeld DEF Working
<1>9. QED
  BY <1>1, <1>2, <1>3, <1>4, <1>6, <1>7, <1>8, StartHeld, DumpHeld
     DEF Next, Reconcile, vars, Tick, Deliver, Elect, Resync, Skip, StartRefused, serverVars

LEMMA InitInv == Init => TypeInv /\ IInv
<1> SUFFICES ASSUME Init PROVE TypeInv /\ IInv
  OBVIOUS
<1>1. TypeInv /\ \A o \in Operators : ~Working(o) /\ run[o].pc # "dump"
  BY InitType DEF Init, Working, IdleRun
<1>2. CacheHonest /\ RunsHold /\ RunsApart
  BY <1>1 DEF Init, CacheHonest, RunsHold, RunHolds, RunsApart
<1>3. NotDumped /\ DumpOnce
  BY <1>1 DEF Init, NotDumped, DumpOnce
<1>4. QED
  BY <1>1, <1>2, <1>3 DEF IInv, TypeInv

(* IInv is inductive.                                                      *)
THEOREM Invariance == Spec => []IInv
<1>1. TypeInv /\ IInv /\ [Next]_vars => (TypeInv /\ IInv)'
  BY TypeStep, CacheStep, HeldStep DEF IInv, Held, TypeInv
<1>2. QED
  BY <1>1, InitInv, PTL DEF Spec

(* Each DbBackup is dumped at most once, whichever processes lead, restart *)
(* or read old caches: the version check of the first update decides.      *)
THEOREM DumpedOnce == Spec => []DumpOnce
<1>1. IInv => DumpOnce
  BY DEF IInv
<1>2. QED
  BY <1>1, Invariance, PTL
-----------------------------------------------------------------------------
(* Places. A run has the place of its dump, and a path names the place of  *)
(* the dump that was recorded.                                             *)
LEMMA OwnPlaceKept ==
  ASSUME OwnPlace, UNCHANGED path,
         \A d \in DbBackups : At(d) \subseteq At(d)',
         \A o \in Operators : Placed(o)' => Placed(o) /\ run'[o].at = run[o].at
                                              /\ run'[o].item = run[o].item,
         ItemOK
  PROVE  OwnPlace'
<1>1. ASSUME NEW o \in Operators, Placed(o)'
      PROVE  (run[o].at \in At(run[o].item))'
  <2>1. PICK d \in DbBackups : d = run[o].item /\ run[o].at \in At(d)
    BY <1>1 DEF OwnPlace, ItemOK, Placed, Working
  <2>2. run'[o].at \in At(d)' /\ run'[o].item = d
    BY <1>1, <2>1
  <2>3. QED
    BY <2>2 DEF At
<1>2. ASSUME NEW d \in DbBackups, path'[d] # None
      PROVE  (\E t \in At(d) : path[d] = <<Slot[d], t>>)'
  BY <1>2 DEF OwnPlace
<1>3. QED
  BY <1>1, <1>2 DEF OwnPlace

LEMMA DumpPlace ==
  ASSUME TypeInv, OwnPlace, NEW o \in Operators, Dump(o)
  PROVE  OwnPlace'
<1> DEFINE d == run[o].item
           w == Append(dumps[d], now)
<1>t. /\ run \in [Operators -> RunRec] /\ dumps \in [DbBackups -> Seq(0 .. MaxTime)]
      /\ d \in DbBackups /\ now \in 0 .. MaxTime
  BY DEF TypeInv, TypeOK, ItemOK, Working, Dump
<1>1. /\ dumps' = [dumps EXCEPT ![d] = w] /\ UNCHANGED path
      /\ run' = [run EXCEPT ![o] = [@ EXCEPT !.pc = "store", !.at = now]]
  BY DEF Dump, serverVars
<1>2. \A i \in DOMAIN dumps[d] : i \in DOMAIN w /\ w[i] = dumps[d][i]
  BY <1>t
<1>3. Len(dumps[d]) + 1 \in DOMAIN w /\ w[Len(dumps[d]) + 1] = now
  BY <1>t
<1> HIDE DEF w
<1>4. \E e \in DbBackups : e = d /\ now \in At(e)'
  BY <1>t, <1>1, <1>3 DEF At
<1>5. ASSUME NEW e \in DbBackups PROVE At(e) \subseteq At(e)'
  BY <1>t, <1>1, <1>2 DEF At
<1>6. ASSUME NEW q \in Operators, Placed(q)'
      PROVE  (run[q].at \in At(run[q].item))'
  <2>1. CASE q = o
    <3>1. run'[q].at = now /\ run'[q].item = d
      BY <1>t, <1>1, <2>1 DEF RunRec
    <3>2. QED
      BY <1>4, <3>1 DEF At
  <2>2. CASE q # o
    <3>1. run'[q] = run[q] /\ Placed(q) /\ run[q].item \in DbBackups
      BY <1>t, <1>1, <1>6, <2>2 DEF Placed, TypeInv, ItemOK, Working
    <3>2. PICK e \in DbBackups : e = run[q].item /\ run[q].at \in At(e)'
      BY <1>5, <3>1 DEF OwnPlace
    <3>3. QED
      BY <3>1, <3>2 DEF At
  <2>3. QED
    BY <2>1, <2>2
<1>7. ASSUME NEW e \in DbBackups, path'[e] # None
      PROVE  (\E t \in At(e) : path[e] = <<Slot[e], t>>)'
  BY <1>1, <1>5, <1>7 DEF OwnPlace
<1>8. QED
  BY <1>6, <1>7 DEF OwnPlace

LEMMA PlaceStep ==
  ASSUME TypeInv, OwnPlace, [Next]_vars
  PROVE  OwnPlace'
<1>t. /\ run \in [Operators -> RunRec] /\ ItemOK /\ path \in [DbBackups -> Paths \cup {None}]
      /\ IdleRun.pc = "idle"
  BY DEF TypeInv, TypeOK, IdleRun
<1>0. UNCHANGED dumps => \A d \in DbBackups : At(d) \subseteq At(d)'
  BY DEF At
<1>1. ASSUME NEW o \in Operators, Store(o) \/ StoreFails(o) \/ DumpFails(o) \/ Fail(o) \/ Restart(o)
      PROVE  OwnPlace'
  <2>1. \A q \in Operators : Placed(q)' => Placed(q) /\ run'[q].at = run[q].at
                                             /\ run'[q].item = run[q].item
    BY <1>t, <1>1 DEF Store, StoreFails, DumpFails, Fail, Restart, GiveUp, Goto, EndRun, Placed, RunRec
  <2>2. UNCHANGED <<path, dumps>>
    BY <1>1 DEF Store, StoreFails, DumpFails, Fail, Restart, serverVars
  <2>3. QED
    BY <1>t, <1>0, <2>1, <2>2, OwnPlaceKept
<1>2. ASSUME NEW o \in Operators, NEW d \in DbBackups, Start(o, d) PROVE OwnPlace'
  <2>1. \A q \in Operators : Placed(q)' => Placed(q) /\ run'[q].at = run[q].at
                                             /\ run'[q].item = run[q].item
    BY <1>t, <1>2 DEF Start, Placed
  <2>2. QED
    BY <1>t, <1>0, <1>2, <2>1, OwnPlaceKept DEF Start
<1>3. ASSUME NEW o \in Operators, Complete(o) PROVE OwnPlace'
  <2> DEFINE d == run[o].item
  <2>1. /\ run[o].at \in At(d) /\ d \in DbBackups
        /\ UNCHANGED dumps /\ run' = [run EXCEPT ![o] = IdleRun]
    BY <1>t, <1>3 DEF OwnPlace, Placed, ItemOK, Working, Complete, EndRun
  <2>2. \A q \in Operators : Placed(q)' => Placed(q) /\ run'[q].at = run[q].at
                                             /\ run'[q].item = run[q].item
    BY <1>t, <2>1 DEF Placed
  <2>3. CASE UNCHANGED serverVars
    BY <1>t, <1>0, <2>1, <2>2, <2>3, OwnPlaceKept DEF serverVars
  <2>4. CASE Record(o)
    <3>1. path' = [path EXCEPT ![d] = <<Slot[d], run[o].at>>]
      BY <2>4 DEF Record, PathOf
    <3>2. ASSUME NEW e \in DbBackups, path'[e] # None
          PROVE  (\E t \in At(e) : path[e] = <<Slot[e], t>>)'
      <4>1. \E t \in At(e) : path'[e] = <<Slot[e], t>>
        BY <1>t, <2>1, <3>1, <3>2 DEF OwnPlace
      <4>2. QED
        BY <2>1, <4>1 DEF At
    <3>3. ASSUME NEW q \in Operators, Placed(q)' PROVE (run[q].at \in At(run[q].item))'
      <4>1. run[q].at \in At(run[q].item) /\ run'[q] = run[q]
        BY <1>t, <2>1, <3>3 DEF OwnPlace, Placed
      <4>2. QED
        BY <2>1, <4>1 DEF At
    <3>4. QED
      BY <3>2, <3>3 DEF OwnPlace
  <2>5. QED
    BY <1>3, <2>3, <2>4 DEF Complete
<1>4. CASE UNCHANGED <<path, dumps, run>>
  BY <1>4 DEF OwnPlace, Placed, At
<1>5. QED
  BY <1>1, <1>2, <1>3, <1>4, DumpPlace
     DEF Next, Reconcile, vars, Tick, Deliver, Elect, Resync, Skip, StartRefused, StartUnheard,
     CreateDbBackup, EditDbBackup, DeleteDbBackup, serverVars

(* What is known of the seconds stays known: dumps are only added.         *)
LEMMA SecondsWere ==
  ASSUME TypeInv, [Next]_vars, SecondsApart'
  PROVE  SecondsApart
<1>1. ASSUME NEW d \in DbBackups PROVE At(d) \subseteq At(d)'
  <2>1. CASE UNCHANGED dumps
    BY <2>1 DEF At
  <2>2. ASSUME NEW o \in Operators, Dump(o) PROVE At(d) \subseteq At(d)'
    <3> DEFINE w == Append(dumps[run[o].item], now)
    <3>1. /\ dumps \in [DbBackups -> Seq(0 .. MaxTime)] /\ run[o].item \in DbBackups
          /\ dumps' = [dumps EXCEPT ![run[o].item] = w]
      BY <2>2 DEF TypeInv, TypeOK, ItemOK, Working, Dump
    <3>2. \A i \in DOMAIN dumps[run[o].item] : i \in DOMAIN w /\ w[i] = dumps[run[o].item][i]
      BY <3>1, <2>2 DEF TypeInv, TypeOK
    <3> HIDE DEF w
    <3>3. QED
      BY <3>1, <3>2 DEF At
  <2>3. QED
    BY <2>1, <2>2
       DEF Next, Reconcile, vars, Tick, Deliver, Elect, Resync, Restart, Skip, Start, StartRefused,
       StartUnheard, DumpFails, Store, StoreFails, Complete, Fail,
       CreateDbBackup, EditDbBackup, DeleteDbBackup, serverVars
<1>2. QED
  BY <1>1 DEF SecondsApart

-----------------------------------------------------------------------------
(* The dump is where the DbBackup says, if no two of a database are made in*)
(* one second. The files that matter are those of runs about to complete   *)
(* and of Completed ones.                                                  *)
Stored == FileReady /\ CompletedIsStored

(* Different DbBackups then have different places.                         *)
LEMMA PlacesApart ==
  ASSUME SecondsApart, NEW d \in DbBackups, NEW e \in DbBackups, d # e,
         NEW s \in At(d), NEW t \in At(e)
  PROVE  <<Slot[d], s>> # <<Slot[e], t>>
BY DEF SecondsApart

(* One file changes, that of a run that is not about to complete.          *)
LEMMA FilesStored ==
  ASSUME SecondsApart, TypeInv, RunsHold, RunsApart, OwnPlace, Stored,
         NEW o \in Operators, run[o].pc = "store", UNCHANGED <<versions, path>>,
         NEW f, files' = [files EXCEPT ![PathOf(o)] = f],
         NEW p \in {"complete", "fail"}, Goto(o, p), p = "complete" => f = run[o].item
  PROVE  Stored'
<1> DEFINE d == run[o].item
<1>t. /\ run \in [Operators -> RunRec] /\ files \in [Paths -> DbBackups \cup {None, Torn}]
      /\ path \in [DbBackups -> Paths \cup {None}]
      /\ Working(o) /\ d \in DbBackups /\ PathOf(o) \in Paths
  BY PathType DEF TypeInv, TypeOK, ItemOK, Working
<1>1. /\ run'[o].pc = p /\ run'[o].item = d /\ run'[o].at = run[o].at
      /\ \A q \in Operators \ {o} : run'[q] = run[q]
  BY <1>t DEF Goto, RunRec
<1>2. PathOf(o) = <<Slot[d], run[o].at>>
  BY DEF PathOf
<1>3. FileReady'
  <2> SUFFICES ASSUME NEW q \in Operators, run'[q].pc = "complete"
               PROVE  (files[PathOf(q)] = run[q].item)'
    BY DEF FileReady
  <2>1. CASE q = o
    BY <1>t, <1>1, <2>1 DEF PathOf
  <2>2. CASE q # o
    <3>1. run'[q] = run[q] /\ Working(q) /\ files[PathOf(q)] = run[q].item
      BY <1>1, <2>2 DEF Working, Stored, FileReady
    <3>2. run[q].item # d /\ run[q].item \in DbBackups /\ PathOf(q) \in Paths
      BY <1>t, <2>2, <3>1, PathType DEF RunsApart
    <3>3. PathOf(q) # PathOf(o)
      <4>1. run[q].at \in At(run[q].item) /\ run[o].at \in At(d)
        BY <1>1, <2>2, <3>1 DEF OwnPlace, Placed
      <4>2. QED
        BY <1>t, <3>2, <4>1, PlacesApart DEF PathOf
    <3>4. QED
      BY <1>t, <3>1, <3>2, <3>3 DEF PathOf
  <2>3. QED
    BY <2>1, <2>2
<1>4. CompletedIsStored'
  <2> SUFFICES ASSUME NEW e \in DbBackups, Phase(e)' = "Completed"
               PROVE  (path[e] # None /\ files[path[e]] = e)'
    BY DEF CompletedIsStored
  <2>1. Phase(e) = "Completed" /\ path'[e] = path[e]
    BY DEF Phase
  <2>2. path[e] \in Paths /\ path[e] # None /\ files[path[e]] = e
    BY <1>t, <2>1 DEF Stored, CompletedIsStored
  <2>3. e # d
    BY <1>t, <2>1 DEF RunsHold, RunHolds
  <2>4. path[e] # PathOf(o)
    <3>1. PICK t \in At(e) : path[e] = <<Slot[e], t>>
      BY <2>2 DEF OwnPlace
    <3>2. run[o].at \in At(d)
      BY DEF OwnPlace, Placed
    <3>3. QED
      BY <1>t, <1>2, <2>3, <3>1, <3>2, PlacesApart
  <2>5. QED
    BY <1>t, <2>1, <2>2, <2>4
<1>5. QED
  BY <1>3, <1>4 DEF Stored

(* No file changes, and no run gets to the point of completing.            *)
LEMMA SameFilesStored ==
  ASSUME SecondsApart, Stored, UNCHANGED <<files, path>>,
         \A o \in Operators : run'[o].pc = "complete" => run'[o] = run[o],
         \A d \in DbBackups : Phase(d)' = "Completed" => Phase(d) = "Completed"
  PROVE  Stored'
BY DEF Stored, FileReady, CompletedIsStored, PathOf

LEMMA CompleteStored ==
  ASSUME SecondsApart, TypeInv, Stored, NEW o \in Operators, Complete(o)
  PROVE  Stored'
<1> DEFINE d == run[o].item
<1>t. /\ run \in [Operators -> RunRec] /\ path \in [DbBackups -> Paths \cup {None}]
      /\ d \in DbBackups /\ PathOf(o) \in Paths /\ run[o].pc = "complete"
      /\ UNCHANGED files /\ run' = [run EXCEPT ![o] = IdleRun] /\ IdleRun.pc = "idle"
      /\ "Completed" \in PhaseName \ {"Absent"}
  BY PathType DEF TypeInv, TypeOK, ItemOK, Working, Complete, EndRun, IdleRun, PhaseName
<1>1. \A q \in Operators : run'[q].pc = "complete" => run'[q] = run[q]
  BY <1>t
<1>2. CASE UNCHANGED serverVars
  BY <1>t, <1>1, <1>2, SameFilesStored DEF serverVars, Phase
<1>3. CASE Write(d, "Completed") /\ Record(o)
  <2>1. /\ path' = [path EXCEPT ![d] = PathOf(o)]
        /\ \A q \in DbBackups \ {d} : Phase(q)' = Phase(q)
    BY <1>t, <1>3, WriteEffect DEF Record, TypeInv
  <2>2. files[PathOf(o)] = d /\ PathOf(o) # None
    BY <1>t, NoneAssumption DEF Stored, FileReady, Paths, PathOf
  <2>3. FileReady'
    BY <1>t, <1>1 DEF Stored, FileReady, PathOf
  <2>4. CompletedIsStored'
    BY <1>t, <2>1, <2>2 DEF Stored, CompletedIsStored
  <2>5. QED
    BY <2>3, <2>4 DEF Stored
<1>4. QED
  BY <1>2, <1>3 DEF Complete

LEMMA StoredStep ==
  ASSUME TypeInv, RunsHold, RunsApart, OwnPlace, Stored, [Next]_vars
  PROVE  Stored'
<1> SUFFICES ASSUME SecondsApart PROVE Stored'
  BY SecondsWere DEF Stored, FileReady, CompletedIsStored
<1>t. /\ TypeOK /\ ItemOK /\ run \in [Operators -> RunRec]
      /\ {"New", "InProgress", "Failed", "Gone"} \subseteq PhaseName \ {"Absent"}
      /\ IdleRun.pc = "idle"
  BY DEF TypeInv, TypeOK, PhaseName, IdleRun
<1>1. ASSUME NEW d \in DbBackups, NEW p \in PhaseName \ {"Absent"}, Write(d, p),
             p = "Completed" => Phase(d) = "Completed"
      PROVE  \A q \in DbBackups : Phase(q)' = "Completed" => Phase(q) = "Completed"
  BY <1>t, <1>1, WriteEffect
<1>2. ASSUME NEW o \in Operators, Store(o) \/ StoreFails(o) PROVE Stored'
  <2>1. CASE StoreFails(o) /\ UNCHANGED files
    <3>1. \A q \in Operators : run'[q].pc = "complete" => run'[q] = run[q]
      BY <1>t, <2>1 DEF StoreFails, GiveUp, Goto, RunRec
    <3>2. QED
      BY <2>1, <3>1, SameFilesStored DEF StoreFails, serverVars, Phase
  <2>2. QED
    BY <1>2, <2>1, FilesStored DEF Store, StoreFails, GiveUp, serverVars
<1>3. ASSUME NEW d \in DbBackups, CreateDbBackup(d) \/ EditDbBackup(d) \/ DeleteDbBackup(d)
      PROVE  Stored'
  <2>1. PICK p \in PhaseName \ {"Absent"} : Write(d, p) /\ (p = "Completed" => Phase(d) = "Completed")
    BY <1>t, <1>3, PhaseType DEF CreateDbBackup, EditDbBackup, DeleteDbBackup, Exists, NoObject
  <2>2. QED
    BY <1>1, <1>3, <2>1, SameFilesStored DEF CreateDbBackup, EditDbBackup, DeleteDbBackup
<1>4. ASSUME NEW o \in Operators, NEW d \in DbBackups, Start(o, d) \/ StartUnheard(o, d)
      PROVE  Stored'
  <2>1. Write(d, "InProgress") /\ UNCHANGED <<files, path>>
    BY <1>4 DEF Start, StartUnheard
  <2>2. \A q \in Operators : run'[q].pc = "complete" => run'[q] = run[q]
    BY <1>t, <1>4 DEF Start, StartUnheard
  <2>3. QED
    BY <1>t, <1>1, <2>1, <2>2, SameFilesStored
<1>5. ASSUME NEW o \in Operators, Fail(o) PROVE Stored'
  <2>1. \A q \in DbBackups : Phase(q)' = "Completed" => Phase(q) = "Completed"
    BY <1>t, <1>1, <1>5 DEF Fail, ItemOK, Working, Phase
  <2>2. \A q \in Operators : run'[q].pc = "complete" => run'[q] = run[q]
    BY <1>t, <1>5 DEF Fail, EndRun
  <2>3. QED
    BY <1>5, <2>1, <2>2, SameFilesStored DEF Fail
<1>6. ASSUME NEW o \in Operators, Dump(o) \/ DumpFails(o) \/ Restart(o) PROVE Stored'
  <2>1. \A q \in Operators : run'[q].pc = "complete" => run'[q] = run[q]
    BY <1>t, <1>6 DEF Dump, DumpFails, Restart, GiveUp, Goto, RunRec
  <2>2. QED
    BY <1>6, <2>1, SameFilesStored DEF Dump, DumpFails, Restart, serverVars, Phase
<1>7. CASE UNCHANGED <<versions, path, files, run>>
  BY <1>7, SameFilesStored DEF Phase
<1>8. QED
  BY <1>2, <1>3, <1>4, <1>5, <1>6, <1>7, CompleteStored
     DEF Next, Reconcile, vars, Tick, Deliver, Elect, Resync, Skip, StartRefused, serverVars

(* If no two dumps of one database are made in the same second, the files  *)
(* that matter are those of their own DbBackup, through every failed copy, *)
(* crash and suspended leader.                                             *)
THEOREM FilesInvariance == Spec => []FInv
<1> DEFINE Inv == TypeInv /\ IInv /\ OwnPlace /\ Stored
<1>1. Init => Inv
  BY InitInv DEF Init, OwnPlace, Placed, Stored, FileReady, CompletedIsStored, Phase, IdleRun
<1>2. Inv /\ [Next]_vars => Inv'
  BY TypeStep, CacheStep, HeldStep, PlaceStep, StoredStep DEF IInv, Held, TypeInv
<1>3. Inv => FInv
  BY DEF Stored, FInv
<1>4. QED
  BY <1>1, <1>2, <1>3, PTL DEF Spec

(* A Completed DbBackup is stored in full where its status.path says,      *)
(* however often the database is backed up, unless two of its dumps are    *)
(* made in the same second.                                                *)
THEOREM StoredInFull == Spec => []CompletedIsStored
<1>1. FInv => CompletedIsStored
  BY DEF FInv
<1>2. QED
  BY <1>1, FilesInvariance, PTL

-----------------------------------------------------------------------------
(* The reconciler implements SnapshotTask.                                 *)
LEMMA TaskWrite ==
  ASSUME TypeInv, NEW d \in DbBackups, NEW p \in PhaseName \ {"Absent"}, Write(d, p)
  PROVE  TaskPhase' = [TaskPhase EXCEPT ![d] =
                         IF p \in {"New", "InProgress"} THEN "Pending" ELSE p]
BY WriteEffect DEF TypeInv, TaskPhase

LEMMA TaskStep ==
  ASSUME TypeInv, CacheHonest, RunsHold, [Next]_vars
  PROVE  [Task!Next]_TaskPhase
<1> DEFINE Step == [Task!Next]_TaskPhase
<1>t. /\ TypeOK /\ ItemOK
      /\ {"New", "InProgress", "Completed", "Failed", "Gone"} = PhaseName \ {"Absent"}
      /\ \A d \in DbBackups : TaskPhase[d] =
           IF Phase(d) \in {"New", "InProgress"} THEN "Pending" ELSE Phase(d)
  BY DEF TypeInv, PhaseName, TaskPhase
<1>1. CASE UNCHANGED versions
  BY <1>1 DEF TaskPhase, Phase
<1>2. ASSUME NEW d \in DbBackups, CreateDbBackup(d) PROVE Step
  <2>1. Phase(d) = "Absent" /\ TaskPhase' = [TaskPhase EXCEPT ![d] = "Pending"]
    BY <1>t, <1>2, TaskWrite DEF CreateDbBackup, Phase
  <2>2. Task!Create(d)
    BY <1>t, <2>1 DEF Task!Create, Task!Move
  <2>3. QED
    BY <2>2 DEF Task!Next
<1>3. ASSUME NEW d \in DbBackups, EditDbBackup(d) PROVE Step
  <2>1. Phase(d) \in PhaseName \ {"Absent"}
    BY <1>t, <1>3, PhaseType DEF EditDbBackup, Exists, NoObject
  <2>2. TaskPhase' = [TaskPhase EXCEPT ![d] = TaskPhase[d]]
    BY <1>t, <1>3, <2>1, TaskWrite DEF EditDbBackup
  <2>3. QED
    BY <2>2 DEF TaskPhase
<1>4. ASSUME NEW d \in DbBackups, DeleteDbBackup(d) PROVE Step
  <2>1. /\ TaskPhase' = [TaskPhase EXCEPT ![d] = "Gone"]
        /\ TaskPhase[d] \in {"Pending", "Completed", "Failed"}
    BY <1>t, <1>4, TaskWrite, PhaseType DEF DeleteDbBackup, Exists, NoObject
  <2>2. Task!Remove(d)
    BY <2>1 DEF Task!Remove, Task!Move
  <2>3. QED
    BY <2>2 DEF Task!Next
<1>5. ASSUME NEW o \in Operators, NEW d \in DbBackups, Start(o, d) \/ StartUnheard(o, d)
      PROVE  Step
  <2>1. Phase(d) = "New" /\ Write(d, "InProgress")
    BY <1>t, <1>5, StartIsFirst DEF Start, StartUnheard
  <2>2. TaskPhase' = [TaskPhase EXCEPT ![d] = TaskPhase[d]]
    BY <1>t, <2>1, TaskWrite
  <2>3. QED
    BY <2>2 DEF TaskPhase
<1>6. ASSUME NEW o \in Operators, Complete(o) \/ Fail(o) PROVE Step
  <2> DEFINE d == run[o].item
  <2>1. d \in DbBackups /\ Working(o)
    BY <1>t, <1>6 DEF Complete, Fail, Working, ItemOK
  <2>2. ASSUME NEW p \in {"Completed", "Failed"}, Write(d, p), Phase(d) = "InProgress" PROVE Step
    <3>1. TaskPhase' = [TaskPhase EXCEPT ![d] = p] /\ TaskPhase[d] = "Pending"
      BY <1>t, <2>1, <2>2, TaskWrite
    <3>2. Task!End(d)
      BY <3>1 DEF Task!End, Task!Move
    <3>3. QED
      BY <2>1, <3>2 DEF Task!Next
  <2>3. Holds(o) \/ Exists(d) => Phase(d) = "InProgress"
    BY <2>1 DEF RunsHold, RunHolds, Exists, NoObject
  <2>4. QED
    BY <1>1, <1>6, <2>2, <2>3 DEF Complete, Fail, serverVars
<1>7. QED
  BY <1>1, <1>2, <1>3, <1>4, <1>5, <1>6
     DEF Next, Reconcile, vars, Tick, Deliver, Elect, Resync, Restart, Skip, StartRefused,
     Dump, DumpFails, Store, StoreFails, serverVars

(* A DbBackup gets at most one outcome and keeps it until it is removed.   *)
THEOREM KeepsOutcome == Spec => OneOutcome
<1> DEFINE Inv == TypeInv /\ IInv
<1>1. Init => Task!Init
  BY DEF Init, Task!Init, TaskPhase, Phase
<1>2. Inv /\ [Next]_vars => [Task!Next]_TaskPhase
  BY TaskStep DEF IInv
<1>3. Init => Inv
  BY InitInv
<1>4. Inv /\ [Next]_vars => Inv'
  BY TypeStep, CacheStep, HeldStep DEF IInv, Held, TypeInv
<1>5. QED
  BY <1>1, <1>2, <1>3, <1>4, PTL DEF Spec, OneOutcome, Task!Spec
=============================================================================
