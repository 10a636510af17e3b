-------------------------- MODULE DbRestoreProofs --------------------------
(***************************************************************************)
(* Proofs about DbRestoreController, for any number of processes,          *)
(* DbRestores, databases, configurations and disturbances.                 *)
(***************************************************************************)
EXTENDS DbRestoreController, TLAPS

-----------------------------------------------------------------------------
(* Type correctness, with its companion: a worker that is busy has an item.*)
ItemOK  == \A o \in Operators : Working(o) => run[o].item \in DbRestores
TypeInv == TypeOK /\ ItemOK

LEMMA SpendType ==
  ASSUME TypeOK, NEW k \in Kinds, Spend(k)
  PROVE  used' \in [Kinds -> Nat]
BY AllowedAssumption DEF Spend

LEMMA WriteEffect ==
  ASSUME TypeOK, NEW t \in DbRestores, NEW p \in PhaseName \ {"Absent"}, Write(t, p)
  PROVE  /\ versions' \in [DbRestores -> Seq(PhaseName \ {"Absent"})]
         /\ Len(versions'[t]) = Len(versions[t]) + 1
         /\ Phase(t)' = p
         /\ \A i \in 1 .. Len(versions[t]) : versions'[t][i] = versions[t][i]
         /\ \A q \in DbRestores \ {t} : versions'[q] = versions[q] /\ Phase(q)' = Phase(q)
<1> DEFINE w == Append(versions[t], p)
<1>1. versions[t] \in Seq(PhaseName \ {"Absent"})
  BY DEF TypeOK
<1>2. /\ w \in Seq(PhaseName \ {"Absent"}) /\ w # <<>>
      /\ Len(w) = Len(versions[t]) + 1 /\ w[Len(w)] = p
      /\ \A i \in 1 .. Len(versions[t]) : w[i] = versions[t][i]
  BY <1>1
<1>3. versions' = [versions EXCEPT ![t] = w] /\ versions'[t] = w
  BY DEF Write, TypeOK
<1>4. Phase(t)' = p
  BY <1>2, <1>3 DEF Phase
<1>5. \A q \in DbRestores \ {t} : versions'[q] = versions[q] /\ Phase(q)' = Phase(q)
  BY <1>3 DEF Phase, TypeOK
<1>6. QED
  BY <1>2, <1>3, <1>4, <1>5 DEF TypeOK

LEMMA PhaseType ==
  ASSUME TypeOK, NEW t \in DbRestores
  PROVE  /\ Len(versions[t]) \in Nat
         /\ Phase(t) \in PhaseName
         /\ Phase(t) = "Absent" <=> versions[t] = <<>>
BY DEF TypeOK, Phase, PhaseName

LEMMA RunFields ==
  ASSUME NEW x \in RunRec, NEW p \in Pc
  PROVE  /\ [x EXCEPT !.pc = p] \in RunRec
         /\ [x EXCEPT !.pc = p].pc = p
         /\ [x EXCEPT !.pc = p].item = x.item /\ [x EXCEPT !.pc = p].rv = x.rv
BY DEF RunRec

LEMMA IdleType == IdleRun \in RunRec /\ IdleRun.pc = "idle"
BY DEF IdleRun, RunRec, Pc

RunOK == run \in [Operators -> RunRec]

LEMMA GotoType ==
  ASSUME RunOK, ItemOK, NEW o \in Operators, Working(o),
         NEW p \in Pc, Goto(o, p)
  PROVE  RunOK' /\ ItemOK'
<1>1. run[o] \in RunRec /\ run[o].item \in DbRestores
  BY DEF RunOK, ItemOK
<1>2. [run[o] EXCEPT !.pc = p] \in RunRec /\ [run[o] EXCEPT !.pc = p].item = run[o].item
  BY <1>1, RunFields
<1>3. QED
  BY <1>1, <1>2 DEF Goto, RunOK, ItemOK, Working

LEMMA EndRunType ==
  ASSUME RunOK, ItemOK, NEW o \in Operators, EndRun(o)
  PROVE  RunOK' /\ ItemOK'
<1>1. IdleRun.pc = "idle"
  BY DEF IdleRun
<1>2. QED
  BY <1>1, IdleType DEF EndRun, RunOK, ItemOK, Working

LEMMA RequeueType ==
  ASSUME queued \in [Operators -> SUBSET DbRestores], NEW o \in Operators,
         run[o].item \in DbRestores, Requeue(o)
  PROVE  queued' \in [Operators -> SUBSET DbRestores]
BY DEF Requeue

LEMMA InitType == Init => TypeInv
<1> SUFFICES ASSUME Init PROVE TypeInv
  OBVIOUS
<1>1. /\ config \in [Databases -> Config]
      /\ \A t \in DbRestores : file[t] = None \/ \E c \in Config : file[t] = Dumped(c)
  BY ConfigsAssumption DEF Init
<1>2. content \in [Databases -> Content]
  BY DEF Init, Content
<1>3. run \in [Operators -> RunRec] /\ ItemOK
  BY IdleType DEF Init, ItemOK, Working
<1>4. /\ versions \in [DbRestores -> Seq(PhaseName \ {"Absent"})]
      /\ plays \in [DbRestores -> Nat] /\ used \in [Kinds -> Nat] /\ leads \subseteq Operators
  BY DEF Init
<1>5. /\ cache \in [Operators -> [DbRestores -> [seen : Nat, phase : PhaseName]]]
      /\ queued \in [Operators -> SUBSET DbRestores]
  BY DEF Init, PhaseName
<1>6. QED
  BY <1>1, <1>2, <1>3, <1>4, <1>5 DEF TypeInv, TypeOK

LEMMA TypeStep == TypeInv /\ [Next]_vars => TypeInv'
<1> SUFFICES ASSUME TypeInv, [Next]_vars PROVE TypeInv'
  OBVIOUS
<1>t. TypeOK /\ ItemOK /\ RunOK
  BY DEF TypeInv, TypeOK, RunOK
<1>k. {"api", "lost", "restart", "lapse", "edit", "delete", "sql"} \subseteq Kinds
  BY KindsAssumption
<1>1. ASSUME NEW t \in DbRestores, CreateDbRestore(t) PROVE TypeInv'
  <2>1. versions' \in [DbRestores -> Seq(PhaseName \ {"Absent"})]
    BY <1>t, <1>1, WriteEffect DEF CreateDbRestore, PhaseName
  <2>2. QED
    BY <1>t, <1>1, <2>1 DEF CreateDbRestore, TypeInv, TypeOK, ItemOK, Working, dataVars
<1>2. ASSUME NEW t \in DbRestores, EditDbRestore(t) \/ DeleteDbRestore(t) PROVE TypeInv'
  <2>1. Phase(t) \in PhaseName \ {"Absent"}
    BY <1>t, <1>2, PhaseType DEF EditDbRestore, DeleteDbRestore, Exists, NoObject
  <2>2. versions' \in [DbRestores -> Seq(PhaseName \ {"Absent"})]
    BY <1>t, <1>2, <2>1, WriteEffect DEF EditDbRestore, DeleteDbRestore, PhaseName
  <2>3. used' \in [Kinds -> Nat]
    BY <1>t, <1>k, <1>2, SpendType DEF EditDbRestore, DeleteDbRestore
  <2>4. QED
    BY <1>t, <1>2, <2>2, <2>3
       DEF EditDbRestore, DeleteDbRestore, TypeInv, TypeOK, ItemOK, Working, dataVars
<1>4. ASSUME NEW o \in Operators, NEW t \in DbRestores, Deliver(o, t) PROVE TypeInv'
  <2>1. PICK v \in cache[o][t].seen + 1 .. Len(versions[t]) :
          cache' = [cache EXCEPT ![o][t] = [seen |-> v, phase |-> versions[t][v]]]
    BY <1>4 DEF Deliver
  <2>2. [seen |-> v, phase |-> versions[t][v]] \in [seen : Nat, phase : PhaseName]
    BY <1>t, <2>1 DEF TypeOK
  <2>3. cache' \in [Operators -> [DbRestores -> [seen : Nat, phase : PhaseName]]]
    BY <1>t, <2>1, <2>2 DEF TypeOK
  <2>4. queued' \in [Operators -> SUBSET DbRestores]
    BY <1>t, <1>4 DEF Deliver, TypeOK
  <2>5. QED
    BY <1>t, <1>4, <2>3, <2>4 DEF Deliver, dataVars, TypeInv, TypeOK, ItemOK, Working
<1>5. ASSUME NEW o \in Operators, Elect(o) \/ Resync(o) PROVE TypeInv'
  <2>1. used' \in [Kinds -> Nat]
    BY <1>t, <1>k, <1>5, SpendType DEF Elect, Resync, TypeOK
  <2>2. queued' \in [Operators -> SUBSET DbRestores] /\ leads' \subseteq Operators
    BY <1>t, <1>5 DEF Elect, Resync, TypeOK, Known
  <2>3. QED
    BY <1>t, <1>5, <2>1, <2>2 DEF Elect, Resync, dataVars, TypeInv, TypeOK, ItemOK, Working
<1>6. ASSUME NEW o \in Operators, Restart(o) PROVE TypeInv'
  <2>1. used' \in [Kinds -> Nat]
    BY <1>t, <1>k, <1>6, SpendType DEF Restart
  <2>2. /\ run' \in [Operators -> RunRec] /\ leads' \subseteq Operators
        /\ queued' \in [Operators -> SUBSET DbRestores]
    BY <1>t, <1>6, IdleType DEF Restart, TypeOK
  <2>3. cache' \in [Operators -> [DbRestores -> [seen : Nat, phase : PhaseName]]]
    BY <1>t, <1>6 DEF Restart, TypeOK, PhaseName
  <2>4. ItemOK'
    BY <1>t, <1>6, IdleType DEF Restart, TypeOK, ItemOK, Working
  <2>5. QED
    BY <1>t, <1>6, <2>1, <2>2, <2>3, <2>4 DEF Restart, dataVars, TypeInv, TypeOK
<1>7. ASSUME NEW o \in Operators, NEW t \in DbRestores,
             Skip(o, t) \/ Start(o, t) \/ StartRefused(o, t) \/ StartUnheard(o, t)
      PROVE  TypeInv'
  <2>1. versions' \in [DbRestores -> Seq(PhaseName \ {"Absent"})]
    <3>1. UNCHANGED versions \/ Write(t, "InProgress")
      BY <1>7 DEF Skip, Start, StartRefused, StartUnheard
    <3>2. QED
      BY <1>t, <3>1, WriteEffect DEF PhaseName, TypeOK
  <2>2. used' \in [Kinds -> Nat]
    BY <1>t, <1>k, <1>7, SpendType DEF Skip, Start, StartRefused, StartUnheard, TypeOK
  <2>3. run' \in [Operators -> RunRec] /\ ItemOK'
    <3>1. CASE UNCHANGED run
      BY <1>t, <3>1 DEF TypeOK, ItemOK, Working
    <3>2. CASE Start(o, t)
      <4>1. [pc |-> "open", item |-> t, rv |-> Len(versions[t]) + 1] \in RunRec
        BY <1>t DEF RunRec, Pc, TypeOK
      <4>2. QED
        BY <1>t, <3>2, <4>1 DEF Start, TypeOK, ItemOK, Working
    <3>3. QED
      BY <1>7, <3>1, <3>2 DEF Skip, StartRefused, StartUnheard
  <2>4. queued' \in [Operators -> SUBSET DbRestores]
    BY <1>t, <1>7 DEF Skip, Start, StartRefused, StartUnheard, Forget, TypeOK
  <2>5. QED
    BY <1>t, <1>7, <2>1, <2>2, <2>3, <2>4
       DEF Skip, Start, StartRefused, StartUnheard, dataVars, TypeInv, TypeOK
<1>8. ASSUME NEW o \in Operators,
             Open(o) \/ OpenFails(o) \/ Play(o) \/ Unreadable(o) \/ PlayEnds(o) \/ PlayFails(o)
      PROVE  TypeInv'
  <2> DEFINE t == run[o].item
  <2>1. t \in DbRestores /\ Into[t] \in Databases /\ Working(o)
    BY <1>t, <1>8, IntoAssumption
       DEF ItemOK, Working, Open, OpenFails, Play, Unreadable, PlayEnds, PlayFails
  <2>2. \E p \in Pc : Goto(o, p)
    <3>1. CASE PlayFails(o)
      BY <3>1 DEF PlayFails, ToldAs, Pc
    <3>2. QED
      BY <1>8, <3>1 DEF Open, OpenFails, Play, Unreadable, PlayEnds, Pc
  <2>3. RunOK' /\ ItemOK'
    BY <1>t, <2>1, <2>2, GotoType
  <2>4. content' \in [Databases -> Content]
    <3>1. \/ UNCHANGED content
          \/ \E c \in Content : content' = [content EXCEPT ![Into[t]] = c]
      <4>1. {<<"part", t>>, <<"whole", t>>, Mixed} \subseteq Content
        BY <2>1 DEF Content, Mixed
      <4>2. QED
        BY <1>8, <4>1 DEF Open, OpenFails, Play, Unreadable, PlayEnds, PlayFails, dataVars
    <3>2. QED
      BY <1>t, <2>1, <3>1 DEF TypeOK
  <2>5. plays' \in [DbRestores -> Nat]
    <3>1. UNCHANGED plays \/ plays' = [plays EXCEPT ![t] = @ + 1]
      BY <1>8 DEF Open, OpenFails, Play, Unreadable, PlayEnds, PlayFails, dataVars
    <3>2. plays \in [DbRestores -> Nat]
      BY <1>t DEF TypeOK
    <3>3. QED
      BY <2>1, <3>1, <3>2
  <2>6. used' \in [Kinds -> Nat]
    BY <1>t, <1>k, <1>8, SpendType
       DEF Open, OpenFails, Play, Unreadable, PlayEnds, PlayFails, TypeOK
  <2>7. UNCHANGED <<versions, config, file, leads, cache, queued>>
    BY <1>8 DEF Open, OpenFails, Play, Unreadable, PlayEnds, PlayFails, dataVars
  <2>8. QED
    BY <1>t, <2>3, <2>4, <2>5, <2>6, <2>7 DEF TypeInv, TypeOK, RunOK
<1>10. ASSUME NEW o \in Operators, Complete(o) \/ Fail(o) PROVE TypeInv'
  <2>1. PICK c \in BOOLEAN, p \in {"Completed", "Failed"} : Report(o, c, p)
    BY <1>10 DEF Complete, Fail, Holds, Exists
  <2>2. run[o].item \in DbRestores
    BY <1>t, <1>10 DEF Complete, Fail, Working, ItemOK
  <2>3. RunOK' /\ ItemOK'
    BY <1>t, <2>1, EndRunType DEF Report
  <2>4. versions' \in [DbRestores -> Seq(PhaseName \ {"Absent"})]
    BY <1>t, <2>1, <2>2, WriteEffect DEF Report, PhaseName, TypeOK
  <2>5. used' \in [Kinds -> Nat]
    BY <1>t, <1>k, <2>1, SpendType DEF Report, TypeOK
  <2>6. queued' \in [Operators -> SUBSET DbRestores]
    BY <1>t, <2>1, <2>2, RequeueType DEF Report, TypeOK
  <2>7. QED
    BY <1>t, <2>1, <2>3, <2>4, <2>5, <2>6 DEF Report, dataVars, TypeInv, TypeOK, RunOK
<1>11. CASE UNCHANGED vars
  BY <1>t, <1>11 DEF vars, dataVars, TypeInv, TypeOK, ItemOK, Working
<1>12. QED
  BY <1>1, <1>2, <1>4, <1>5, <1>6, <1>7, <1>8, <1>10, <1>11 DEF Next, Reconcile

(* Every variable keeps its type, and a busy worker always has an item.    *)
THEOREM TypeCorrect == Spec => []TypeOK
<1>1. TypeInv => TypeOK
  BY DEF TypeInv
<1>2. QED
  BY <1>1, InitType, TypeStep, PTL DEF Spec
-----------------------------------------------------------------------------
(* At most one play. The facts that carry it: a run holds its DbRestore    *)
(* alone, in a phase from which no other process starts.                   *)

(* The start needs the version on the server, so the phase there is "New". *)
LEMMA StartIsFirst ==
  ASSUME TypeOK, CacheHonest, NEW o \in Operators, NEW t \in DbRestores,
         IsNew(o, t), Current(o, t)
  PROVE  Phase(t) = "New"
<1>1. /\ cache[o][t].phase = "New" /\ cache[o][t].seen = Len(versions[t])
      /\ cache[o][t].seen \in Nat /\ versions[t] \in Seq(PhaseName \ {"Absent"})
  BY DEF IsNew, Current, TypeOK
<1>2. cache[o][t].seen # 0 /\ versions[t] # <<>>
  BY <1>1 DEF CacheHonest
<1>3. QED
  BY <1>1, <1>2 DEF CacheHonest, Phase

LEMMA CacheStep ==
  ASSUME TypeInv, CacheHonest, [Next]_vars
  PROVE  CacheHonest'
<1>t. /\ TypeOK /\ ItemOK
      /\ versions \in [DbRestores -> Seq(PhaseName \ {"Absent"})]
      /\ cache \in [Operators -> [DbRestores -> [seen : Nat, phase : PhaseName]]]
  BY DEF TypeInv, TypeOK
<1>1. \/ UNCHANGED versions
      \/ \E t \in DbRestores, p \in PhaseName \ {"Absent"} : Write(t, p)
  <2>1. ASSUME NEW t \in DbRestores, EditDbRestore(t) \/ DeleteDbRestore(t)
        PROVE  \E p \in PhaseName \ {"Absent"} : Write(t, p)
    BY <1>t, <2>1, PhaseType DEF EditDbRestore, DeleteDbRestore, Exists, NoObject, PhaseName
  <2>2. ASSUME NEW o \in Operators, Complete(o) \/ Fail(o)
        PROVE  \/ UNCHANGED versions
               \/ \E t \in DbRestores, p \in PhaseName \ {"Absent"} : Write(t, p)
    BY <1>t, <2>2 DEF Complete, Fail, Report, ItemOK, Working, PhaseName
  <2>3. QED
    BY <2>1, <2>2 DEF Next, Reconcile, vars, CreateDbRestore, Deliver, Elect, Resync, Restart,
       Skip, Start, StartRefused, StartUnheard, Open, OpenFails, Play, Unreadable, PlayEnds,
       PlayFails, PhaseName
<1>2. CASE UNCHANGED cache
  <2>1. \A t \in DbRestores :
          /\ Len(versions[t]) \in Nat /\ Len(versions'[t]) \in Nat
          /\ Len(versions[t]) <= Len(versions'[t])
          /\ \A i \in 1 .. Len(versions[t]) : versions'[t][i] = versions[t][i]
    <3>1. CASE UNCHANGED versions
      BY <1>t, <3>1
    <3>2. ASSUME NEW t \in DbRestores, NEW p \in PhaseName \ {"Absent"}, Write(t, p),
                 NEW q \in DbRestores
          PROVE  /\ Len(versions[q]) \in Nat /\ Len(versions'[q]) \in Nat
                 /\ Len(versions[q]) <= Len(versions'[q])
                 /\ \A i \in 1 .. Len(versions[q]) : versions'[q][i] = versions[q][i]
      <4>1. Len(versions[q]) \in Nat
        BY <1>t
      <4>2. CASE q = t
        BY <1>t, <3>2, <4>1, <4>2, WriteEffect
      <4>3. CASE q # t
        <5>1. versions'[q] = versions[q]
          BY <1>t, <3>2, <4>3, WriteEffect
        <5>2. QED
          BY <4>1, <5>1
      <4>4. QED
        BY <4>2, <4>3
    <3>3. QED
      BY <1>1, <3>1, <3>2
  <2>2. QED
    BY <1>t, <1>2, <2>1 DEF CacheHonest
<1>3. ASSUME NEW o \in Operators, NEW t \in DbRestores, Deliver(o, t) PROVE CacheHonest'
  <2>1. PICK v \in cache[o][t].seen + 1 .. Len(versions[t]) :
          cache' = [cache EXCEPT ![o][t] = [seen |-> v, phase |-> versions[t][v]]]
    BY <1>3 DEF Deliver
  <2>2. v # 0 /\ v <= Len(versions[t])
    BY <1>t, <2>1
  <2>3. versions' = versions
    BY <1>3 DEF Deliver
  <2>4. QED
    BY <1>t, <2>1, <2>2, <2>3 DEF CacheHonest
<1>4. ASSUME NEW o \in Operators, Restart(o) PROVE CacheHonest'
  BY <1>t, <1>4 DEF Restart, CacheHonest
<1>5. QED
  BY <1>2, <1>3, <1>4 DEF Next, Reconcile, vars, CreateDbRestore, EditDbRestore, DeleteDbRestore,
     Elect, Resync, Skip, Start, StartRefused, StartUnheard, Open, OpenFails, Play, Unreadable,
     PlayEnds, PlayFails, Complete, Fail, Report

(* What the steps mean for the runs and for the phases, plays apart.       *)
Held == RunsHold /\ RunsApart /\ NotPlayed /\ PlayedOnce

(* The phase of one DbRestore changes, and no run starts or plays.         *)
LEMMA WriteHeld ==
  ASSUME TypeInv, TypeInv', Held, NEW t \in DbRestores, NEW p \in PhaseName \ {"Absent"},
         Write(t, p), UNCHANGED plays,
         \A o \in Operators : Working(o)' => run'[o] = run[o],
         \/ p = "Gone"
         \/ p = Phase(t)
         \/ \A o \in Operators : Working(o)' => run[o].item # t,
         p = "New" => Phase(t) \in {"Absent", "New"}
  PROVE  Held'
<1>t. /\ TypeOK /\ ItemOK /\ \A o \in Operators : run[o].rv \in Nat
      /\ \A q \in DbRestores : Len(versions[q]) \in Nat
      /\ \A o \in Operators : Working(o)' => Working(o)
  BY DEF TypeInv, TypeOK, RunRec, Working
<1>1. /\ Phase(t)' = p
      /\ Len(versions'[t]) = Len(versions[t]) + 1
      /\ \A q \in DbRestores \ {t} : versions'[q] = versions[q] /\ Phase(q)' = Phase(q)
  BY <1>t, WriteEffect
<1>2. RunsApart'
  BY <1>t DEF Held, RunsApart
<1>3. ASSUME NEW o \in Operators, Working(o)' PROVE RunHolds(o)'
  <2>1. run'[o] = run[o] /\ run[o].item \in DbRestores /\ Working(o)
    BY <1>t, <1>3 DEF ItemOK
  <2>2. /\ Phase(run[o].item) \in {"InProgress", "Gone"}
        /\ Holds(o) => Phase(run[o].item) = "InProgress"
        /\ run[o].rv <= Len(versions[run[o].item])
    BY <2>1 DEF Held, RunsHold, RunHolds
  <2>3. CASE run[o].item # t
    BY <1>1, <2>1, <2>2, <2>3 DEF Holds, RunHolds, Phase, Exists
  <2>4. CASE run[o].item = t
    <3>1. ~Holds(o)'
      BY <1>t, <1>1, <2>1, <2>2, <2>4 DEF Holds
    <3>2. QED
      BY <1>t, <1>1, <1>3, <2>1, <2>2, <2>4, <3>1 DEF RunHolds, Phase
  <2>5. QED
    BY <2>3, <2>4
<1>4. RunsHold'
  BY <1>3 DEF RunsHold, RunHolds
<1>5. NotPlayed'
  <2>1. \A q \in DbRestores : Phase(q)' \in {"Absent", "New"} => plays[q] = 0
    BY <1>1 DEF Held, NotPlayed
  <2>2. \A o \in Operators : run'[o].pc \in {"open", "play"} => plays[run'[o].item] = 0
    BY DEF Held, NotPlayed, Working
  <2>3. QED
    BY <2>1, <2>2 DEF NotPlayed
<1>6. QED
  BY <1>2, <1>4, <1>5 DEF Held, PlayedOnce

(* Nothing is written: runs end or go on, and none goes back before a play.*)
LEMMA QuietHeld ==
  ASSUME Held, UNCHANGED <<versions, plays>>,
         \A o \in Operators : Working(o)' =>
           /\ Working(o) /\ run'[o].item = run[o].item /\ run'[o].rv = run[o].rv
           /\ run'[o].pc \in {"open", "play"} => run[o].pc \in {"open", "play"}
  PROVE  Held'
<1>1. \A t \in DbRestores : Phase(t)' = Phase(t)
  BY DEF Phase
<1>2. RunsHold'
  <2> SUFFICES ASSUME NEW o \in Operators, Working(o)' PROVE RunHolds(o)'
    BY DEF RunsHold, RunHolds
  <2>1. QED
    BY DEF Held, RunsHold, RunHolds, Holds, Phase, Exists
<1>3. RunsApart'
  BY DEF Held, RunsApart
<1>4. NotPlayed' /\ PlayedOnce'
  BY <1>1 DEF Held, NotPlayed, PlayedOnce, Working
<1>5. QED
  BY <1>2, <1>3, <1>4 DEF Held

LEMMA StartHeld ==
  ASSUME TypeInv, TypeInv', CacheHonest, Held,
         NEW o \in Operators, NEW t \in DbRestores, Start(o, t)
  PROVE  Held'
<1> DEFINE x == [pc |-> "open", item |-> t, rv |-> Len(versions[t]) + 1]
<1>t. /\ TypeOK /\ ItemOK /\ run \in [Operators -> RunRec]
      /\ plays' = plays /\ Write(t, "InProgress") /\ run' = [run EXCEPT ![o] = x]
      /\ Len(versions[t]) \in Nat /\ "InProgress" \in PhaseName \ {"Absent"}
  BY DEF TypeInv, TypeOK, Start, dataVars, PhaseName
<1>1. Phase(t) = "New" /\ plays[t] = 0
  BY <1>t, StartIsFirst DEF Start, Held, NotPlayed
<1>2. /\ Phase(t)' = "InProgress"
      /\ Len(versions'[t]) = Len(versions[t]) + 1
      /\ \A q \in DbRestores \ {t} : versions'[q] = versions[q] /\ Phase(q)' = Phase(q)
  BY <1>t, WriteEffect
<1>3. \A q \in Operators : Working(q) => run[q].item \in DbRestores \ {t}
  BY <1>1 DEF Held, RunsHold, RunHolds
<1>4. run'[o] = x /\ \A q \in Operators \ {o} : run'[q] = run[q]
  BY <1>t
<1>5. RunsHold'
  <2> SUFFICES ASSUME NEW q \in Operators, Working(q)' PROVE RunHolds(q)'
    BY DEF RunsHold, RunHolds
  <2>1. CASE q = o
    BY <1>t, <1>2, <1>4, <2>1 DEF RunHolds, Phase
  <2>2. CASE q # o
    BY <1>2, <1>3, <1>4, <2>2 DEF Held, RunsHold, RunHolds, Holds, Working, Phase, Exists
  <2>3. QED
    BY <2>1, <2>2
<1>6. RunsApart'
  BY <1>3, <1>4 DEF Held, RunsApart, Working
<1>7. NotPlayed' /\ PlayedOnce'
  BY <1>t, <1>1, <1>2, <1>4 DEF Held, NotPlayed, PlayedOnce, Working
<1>8. QED
  BY <1>5, <1>6, <1>7 DEF Held

LEMMA PlayHeld ==
  ASSUME TypeInv, Held, NEW o \in Operators, Play(o)
  PROVE  Held'
<1> DEFINE t == run[o].item
           x == [run[o] EXCEPT !.pc = "playing"]
<1>t. /\ TypeOK /\ ItemOK /\ run \in [Operators -> RunRec] /\ t \in DbRestores /\ Working(o)
      /\ plays \in [DbRestores -> Nat]
      /\ versions' = versions /\ plays' = [plays EXCEPT ![t] = @ + 1]
      /\ run' = [run EXCEPT ![o] = x]
  BY DEF TypeInv, TypeOK, ItemOK, Play, Goto, Working
<1>1. /\ run'[o] = x /\ x.item = t /\ x.rv = run[o].rv /\ x.pc = "playing"
      /\ \A q \in Operators \ {o} : run'[q] = run[q]
  BY <1>t, RunFields DEF Pc
<1>2. \A q \in DbRestores : Phase(q)' = Phase(q)
  BY <1>t DEF Phase
<1>3. plays[t] = 0 /\ Phase(t) \in {"InProgress", "Gone"}
  BY <1>t DEF Play, Held, NotPlayed, RunsHold, RunHolds
<1>4. RunsHold'
  <2> SUFFICES ASSUME NEW q \in Operators, Working(q)' PROVE RunHolds(q)'
    BY DEF RunsHold, RunHolds
  <2>1. Working(q) /\ run'[q].item = run[q].item /\ run'[q].rv = run[q].rv
    BY <1>t, <1>1 DEF Working
  <2>2. QED
    BY <1>t, <2>1 DEF Held, RunsHold, RunHolds, Holds, Phase, Exists
<1>5. RunsApart'
  <2>1. \A q \in Operators : Working(q)' => Working(q) /\ run'[q].item = run[q].item
    BY <1>t, <1>1 DEF Working
  <2>2. QED
    BY <2>1 DEF Held, RunsApart
<1>6. NotPlayed'
  <2>1. \A q \in DbRestores : Phase(q)' \in {"Absent", "New"} => plays'[q] = 0
    BY <1>t, <1>2, <1>3 DEF Held, NotPlayed
  <2>2. \A q \in Operators : run'[q].pc \in {"open", "play"} => plays'[run'[q].item] = 0
    <3> SUFFICES ASSUME NEW q \in Operators, run'[q].pc \in {"open", "play"}
                 PROVE  plays'[run'[q].item] = 0
      OBVIOUS
    <3>1. q # o /\ run'[q] = run[q] /\ Working(q)
      BY <1>1 DEF Working
    <3>2. run[q].item # t /\ run[q].item \in DbRestores
      BY <1>t, <3>1 DEF Held, RunsApart, ItemOK
    <3>3. QED
      BY <1>t, <3>1, <3>2 DEF Held, NotPlayed
  <2>3. QED
    BY <2>1, <2>2 DEF NotPlayed
<1>7. PlayedOnce'
  BY <1>t, <1>3 DEF Held, PlayedOnce
<1>8. QED
  BY <1>4, <1>5, <1>6, <1>7 DEF Held

LEMMA HeldStep ==
  ASSUME TypeInv, TypeInv', CacheHonest, Held, [Next]_vars
  PROVE  Held'
<1>t. /\ TypeOK /\ ItemOK /\ run \in [Operators -> RunRec]
      /\ IdleRun.pc = "idle"
      /\ {"New", "InProgress", "Completed", "Failed", "Gone"} = PhaseName \ {"Absent"}
  BY IdleType DEF TypeInv, TypeOK, PhaseName
<1>1. ASSUME NEW t \in DbRestores, CreateDbRestore(t) PROVE Held'
  <2>1. Phase(t) = "Absent" /\ Write(t, "New") /\ UNCHANGED <<plays, run>>
    BY <1>1 DEF CreateDbRestore, Phase, dataVars
  <2>2. \A o \in Operators : Working(o)' => run[o].item # t
    BY <2>1 DEF Held, RunsHold, RunHolds, Working
  <2>3. QED
    BY <1>t, <2>1, <2>2, WriteHeld
<1>2. ASSUME NEW t \in DbRestores, EditDbRestore(t) \/ DeleteDbRestore(t) PROVE Held'
  <2>1. PICK p \in {"Gone", Phase(t)} : Write(t, p)
    BY <1>2 DEF EditDbRestore, DeleteDbRestore
  <2>2. p \in PhaseName \ {"Absent"}
    BY <1>t, <1>2, <2>1, PhaseType DEF EditDbRestore, DeleteDbRestore, Exists, NoObject
  <2>3. UNCHANGED <<plays, run>>
    BY <1>2 DEF EditDbRestore, DeleteDbRestore, dataVars
  <2>4. QED
    BY <2>1, <2>2, <2>3, WriteHeld
<1>3. ASSUME NEW o \in Operators, NEW t \in DbRestores, StartUnheard(o, t) PROVE Held'
  <2>1. Phase(t) = "New" /\ Write(t, "InProgress") /\ UNCHANGED <<plays, run>>
    BY <1>t, <1>3, StartIsFirst DEF StartUnheard, dataVars
  <2>2. \A q \in Operators : Working(q)' => run[q].item # t
    BY <2>1 DEF Held, RunsHold, RunHolds, Working
  <2>3. QED
    BY <1>t, <2>1, <2>2, WriteHeld
<1>4. ASSUME NEW o \in Operators, Complete(o) \/ Fail(o) PROVE Held'
  <2> DEFINE t == run[o].item
  <2>1. PICK c \in BOOLEAN, p \in {"Completed", "Failed"} : Report(o, c, p)
    BY <1>4 DEF Complete, Fail, Holds, Exists
  <2>2. /\ Working(o) /\ t \in DbRestores /\ UNCHANGED plays
        /\ run' = [run EXCEPT ![o] = IdleRun]
    BY <1>t, <1>4, <2>1 DEF Complete, Fail, Report, EndRun, Working, ItemOK, dataVars
  <2>3. /\ ~Working(o)'
        /\ \A q \in Operators \ {o} : run'[q] = run[q]
    BY <1>t, <2>2 DEF Working
  <2>4. CASE UNCHANGED versions
    BY <2>2, <2>3, <2>4, QuietHeld DEF Working
  <2>5. CASE Write(t, p)
    <3>1. \A q \in Operators : Working(q)' => run'[q] = run[q] /\ run[q].item # t
      BY <2>2, <2>3 DEF Held, RunsApart, Working
    <3>2. QED
      BY <1>t, <2>2, <2>5, <3>1, WriteHeld
  <2>6. QED
    BY <2>1, <2>4, <2>5 DEF Report
<1>5. ASSUME NEW o \in Operators, NEW p \in Pc, Working(o), Goto(o, p),
             p \in {"open", "play"} => run[o].pc \in {"open", "play"},
             UNCHANGED <<versions, plays>>
      PROVE  Held'
  <2>1. run'[o] = [run[o] EXCEPT !.pc = p] /\ \A q \in Operators \ {o} : run'[q] = run[q]
    BY <1>t, <1>5 DEF Goto
  <2>2. ASSUME NEW q \in Operators, Working(q)'
        PROVE  /\ Working(q) /\ run'[q].item = run[q].item /\ run'[q].rv = run[q].rv
               /\ run'[q].pc \in {"open", "play"} => run[q].pc \in {"open", "play"}
    <3>1. CASE q # o
      BY <2>1, <2>2, <3>1 DEF Working
    <3>2. CASE q = o
      <4>1. /\ run'[o].pc = p /\ run'[o].item = run[o].item /\ run'[o].rv = run[o].rv
        BY <1>t, <1>5, <2>1, RunFields
      <4>2. QED
        BY <1>5, <3>2, <4>1
    <3>3. QED
      BY <3>1, <3>2
  <2>3. QED
    BY <1>5, <2>2, QuietHeld
<1>6. ASSUME NEW o \in Operators,
             Open(o) \/ OpenFails(o) \/ Unreadable(o) \/ PlayEnds(o) \/ PlayFails(o)
      PROVE  Held'
  <2>1. Working(o) /\ UNCHANGED <<versions, plays>>
    BY <1>6 DEF Open, OpenFails, Unreadable, PlayEnds, PlayFails, Working, dataVars
  <2>2. \E p \in Pc : Goto(o, p) /\ (p \in {"open", "play"} => run[o].pc \in {"open", "play"})
    <3>1. CASE PlayFails(o)
      BY <3>1 DEF PlayFails, ToldAs, Pc
    <3>2. QED
      BY <1>6, <3>1 DEF Open, OpenFails, Unreadable, PlayEnds, Pc
  <2>3. QED
    BY <1>5, <2>1, <2>2
<1>7. ASSUME NEW o \in Operators, Restart(o) PROVE Held'
  <2>1. UNCHANGED <<versions, plays>> /\ run' = [run EXCEPT ![o] = IdleRun]
    BY <1>7 DEF Restart, dataVars
  <2>2. \A q \in Operators : Working(q)' => run'[q] = run[q]
    BY <1>t, <2>1 DEF Working
  <2>3. QED
    BY <2>1, <2>2, QuietHeld DEF Working
<1>8. CASE UNCHANGED <<versions, plays, run>>
  BY <1>8, QuietHeld DEF Working
<1>9. QED
  BY <1>1, <1>2, <1>3, <1>4, <1>6, <1>7, <1>8, StartHeld, PlayHeld
     DEF Next, Reconcile, vars, Deliver, Elect, Resync, Skip, StartRefused, dataVars

LEMMA InitInv == Init => TypeInv /\ IInv
<1> SUFFICES ASSUME Init PROVE TypeInv /\ IInv
  OBVIOUS
<1>1. TypeInv /\ \A o \in Operators : run[o].pc = "idle" /\ ~Working(o)
  BY InitType DEF Init, Working, IdleRun
<1>2. CacheHonest /\ RunsHold /\ RunsApart
  BY <1>1 DEF Init, CacheHonest, RunsHold, RunHolds, RunsApart
<1>3. NotPlayed /\ PlayedOnce
  BY <1>1 DEF Init, NotPlayed, PlayedOnce
<1>4. OneWorks /\ PlayedSoFar
  BY <1>1 DEF Init, OneWorks, PlayedSoFar
<1>5. QED
  BY <1>1, <1>2, <1>3, <1>4 DEF IInv, TypeInv

-----------------------------------------------------------------------------
(* Without a lapse of the lease, one process works at a time.              *)
LEMMA NoLapse ==
  ASSUME TypeOK, [Next]_vars, used'["lapse"] = 0
  PROVE  used["lapse"] = 0
<1>1. /\ used \in [Kinds -> Nat] /\ "lapse" \in Kinds
      /\ {"api", "lost", "restart", "lapse", "edit", "delete", "sql"} \subseteq Kinds
  BY KindsAssumption DEF TypeOK
<1>2. UNCHANGED used \/ \E k \in Kinds : used' = [used EXCEPT ![k] = @ + 1]
  BY <1>1 DEF Next, Reconcile, vars, dataVars, CreateDbRestore, EditDbRestore, DeleteDbRestore,
     Deliver, Elect, Resync, Restart, Skip, Start, StartRefused, StartUnheard, Open, OpenFails,
     Play, Unreadable, PlayEnds, PlayFails, Complete, Fail, Report, Spend, OneMore
<1>3. QED
  BY <1>1, <1>2

LEMMA OneWorksStep ==
  ASSUME TypeInv, OneWorks, [Next]_vars
  PROVE  OneWorks'
<1>t. /\ TypeOK /\ run \in [Operators -> RunRec] /\ leads \subseteq Operators
      /\ IdleRun.pc = "idle" /\ used \in [Kinds -> Nat] /\ "lapse" \in Kinds
  BY KindsAssumption, IdleType DEF TypeInv, TypeOK
<1>1. ASSUME NEW o \in Operators, Elect(o) PROVE OneWorks'
  <2>1. CASE leads = {}
    BY <1>1, <2>1 DEF Elect, OneWorks, Working
  <2>2. CASE leads # {}
    <3>1. used'["lapse"] # 0
      BY <1>t, <1>1, <2>2 DEF Elect, Spend, OneMore
    <3>2. QED
      BY <1>1, <3>1 DEF Elect, OneWorks, Working
  <2>3. QED
    BY <2>1, <2>2
<1>2. ASSUME NEW o \in Operators, Restart(o) PROVE OneWorks'
  <2>1. /\ \A q \in Operators : Working(q)' => Working(q) /\ q # o
        /\ leads' = leads \ {o}
    BY <1>t, <1>2 DEF Restart, Working
  <2>2. QED
    BY <1>t, <1>2, <2>1, NoLapse DEF OneWorks
<1>3. ASSUME UNCHANGED leads,
             \A q \in Operators : Working(q)' => Working(q) \/ q \in leads
      PROVE  OneWorks'
  BY <1>t, <1>3, NoLapse DEF OneWorks
<1>4. ASSUME NEW o \in Operators, NEW t \in DbRestores, Start(o, t) PROVE OneWorks'
  <2>1. /\ o \in leads /\ UNCHANGED leads
        /\ \A q \in Operators \ {o} : run'[q] = run[q]
    BY <1>t, <1>4 DEF Start, Take
  <2>2. QED
    BY <1>3, <2>1 DEF Working
<1>5. ASSUME NEW o \in Operators,
             \/ Open(o) \/ OpenFails(o) \/ Play(o) \/ Unreadable(o) \/ PlayEnds(o) \/ PlayFails(o)
             \/ Complete(o) \/ Fail(o)
      PROVE  OneWorks'
  <2>1. Working(o) /\ UNCHANGED leads
    BY <1>5 DEF Open, OpenFails, Play, Unreadable, PlayEnds, PlayFails, Complete, Fail, Report,
       dataVars, Working
  <2>2. \A q \in Operators \ {o} : run'[q] = run[q]
    BY <1>t, <1>5 DEF Open, OpenFails, Play, Unreadable, PlayEnds, PlayFails, Complete, Fail,
       Report, Goto, EndRun
  <2>3. QED
    BY <1>3, <2>1, <2>2 DEF OneWorks, Working
<1>6. CASE UNCHANGED <<leads, run>>
  BY <1>3, <1>6 DEF Working
<1>7. QED
  BY <1>1, <1>2, <1>4, <1>5, <1>6
     DEF Next, Reconcile, vars, dataVars, CreateDbRestore, EditDbRestore, DeleteDbRestore, Deliver,
     Resync, Skip, StartRefused, StartUnheard

(* What the database of a run holds, from what only that run does to it.   *)
LEMMA PlayedStep ==
  ASSUME TypeInv, RunsHold, OneWorks, PlayedSoFar, [Next]_vars
  PROVE  PlayedSoFar'
<1> DEFINE Fine(o) ==
      LET t == run[o].item IN
      /\ run[o].pc \in {"play", "playing"} => file[t] # None
      /\ run[o].pc = "playing" => Reads(file[t]) /\ content[Into[t]] = <<"part", t>>
      /\ run[o].pc = "complete" /\ Faithful(t) => content[Into[t]] = <<"whole", t>>
<1> SUFFICES ASSUME used'["lapse"] = 0 PROVE \A o \in Operators : Fine(o)'
  BY DEF PlayedSoFar
<1>t. /\ TypeOK /\ ItemOK /\ run \in [Operators -> RunRec] /\ IdleRun.pc = "idle"
      /\ content \in [Databases -> Content]
  BY IdleType DEF TypeInv, TypeOK
<1>1. /\ \A o \in Operators : Fine(o)
      /\ \A o, q \in Operators : Working(o) /\ Working(q) => o = q
  BY <1>t, NoLapse DEF PlayedSoFar, OneWorks
<1>2. UNCHANGED <<config, file>>
  BY DEF Next, Reconcile, vars, dataVars, CreateDbRestore, EditDbRestore, DeleteDbRestore,
     Deliver, Elect, Resync, Restart, Skip, Start, StartRefused, StartUnheard, Open, OpenFails,
     Play, Unreadable, PlayEnds, PlayFails, Complete, Fail, Report
<1>3. ASSUME NEW o \in Operators, UNCHANGED content,
             run'[o] = run[o] \/ run'[o].pc \in {"idle", "open", "fail"}
      PROVE  Fine(o)'
  BY <1>1, <1>2, <1>3 DEF Faithful, Reads
<1>4. ASSUME NEW o \in Operators, NEW p \in Pc, Goto(o, p)
      PROVE  /\ run'[o].pc = p /\ run'[o].item = run[o].item
             /\ \A q \in Operators \ {o} : run'[q] = run[q]
  <2>1. run'[o] = [run[o] EXCEPT !.pc = p] /\ \A q \in Operators \ {o} : run'[q] = run[q]
    BY <1>t, <1>4 DEF Goto
  <2>2. QED
    BY <1>t, <1>4, <2>1, RunFields
<1>5. ASSUME NEW o \in Operators, NEW p \in Pc, Working(o), Goto(o, p), Fine(o)'
      PROVE  \A q \in Operators : Fine(q)'
  <2>1. \A q \in Operators \ {o} : run'[q].pc = "idle"
    BY <1>1, <1>4, <1>5 DEF Working
  <2>2. QED
    BY <1>5, <2>1
<1>6. ASSUME NEW o \in Operators, Open(o) \/ OpenFails(o)
      PROVE  \A q \in Operators : Fine(q)'
  <2>1. PICK p \in {"play", "fail"} :
          Goto(o, p) /\ (p = "play" => file[run[o].item] # None)
    BY <1>6 DEF Open, OpenFails
  <2>2. Working(o) /\ p \in Pc
    BY <1>6 DEF Open, OpenFails, Working, Pc
  <2>3. Fine(o)'
    BY <1>2, <1>4, <2>1, <2>2
  <2>4. QED
    BY <1>5, <2>1, <2>2, <2>3
<1>7. ASSUME NEW o \in Operators, Play(o) PROVE \A q \in Operators : Fine(q)'
  <2> DEFINE t == run[o].item
  <2>1. /\ Working(o) /\ t \in DbRestores /\ Into[t] \in Databases
        /\ "playing" \in Pc /\ Goto(o, "playing")
    BY <1>t, <1>7, IntoAssumption DEF Play, Working, ItemOK, Pc
  <2>2. Playing(Into[t]) = {}
    BY <1>1, <1>7, <2>1 DEF Play, Playing, Working
  <2>3. content'[Into[t]] = <<"part", t>>
    BY <1>t, <1>7, <2>1, <2>2 DEF Play
  <2>4. Fine(o)'
    BY <1>1, <1>2, <1>4, <1>7, <2>1, <2>3 DEF Play, Reads, Unzips
  <2>5. QED
    BY <1>5, <2>1, <2>4
<1>8. ASSUME NEW o \in Operators, PlayEnds(o) PROVE \A q \in Operators : Fine(q)'
  <2> DEFINE t == run[o].item
  <2>1. /\ Working(o) /\ t \in DbRestores /\ Into[t] \in Databases
        /\ "complete" \in Pc /\ Goto(o, "complete")
    BY <1>t, <1>8, IntoAssumption DEF PlayEnds, Working, ItemOK, Pc
  <2>2. content[Into[t]] = <<"part", t>>
    BY <1>1, <1>8 DEF PlayEnds
  <2>3. content'[Into[t]] = <<"whole", t>>
    BY <1>t, <1>8, <2>1, <2>2 DEF PlayEnds
  <2>4. Fine(o)'
    BY <1>4, <2>1, <2>3
  <2>5. QED
    BY <1>5, <2>1, <2>4
<1>9. ASSUME NEW o \in Operators, Unreadable(o) \/ PlayFails(o)
      PROVE  \A q \in Operators : Fine(q)'
  <2> DEFINE t == run[o].item
  <2>1. Working(o) /\ t \in DbRestores
    BY <1>t, <1>9 DEF Unreadable, PlayFails, Working, ItemOK
  <2>2. file[t] = None \/ \E c \in Config : file[t] = Dumped(c)
    BY <1>t, <2>1 DEF TypeOK
  <2>3. file[t] # None
    BY <1>1, <1>9 DEF Unreadable, PlayFails
  <2>4. PICK p \in {"fail", "complete"} : Goto(o, p) /\ (p = "complete" => ~Faithful(t))
    <3>1. CASE Unreadable(o)
      <4>1. PICK c \in Config : file[t] = Dumped(c) /\ ~Refused(c)
        BY <2>2, <2>3 DEF Dumped
      <4>2. file[t].packed /\ file[t].plain /\ file[t].engine # "mysql"
        <5>1. /\ file[t].packed = (c.engine = "postgresql" /\ c.level /\ c.format = "p")
              /\ file[t].plain = (c.engine = "postgresql" /\ c.format = "p")
              /\ file[t].engine = c.engine
          <6>1. file[t] = [engine |-> c.engine, plain |-> c.engine = "postgresql" /\ c.format = "p",
                           gz |-> c.engine = "postgresql" /\ c.level,
                           packed |-> c.engine = "postgresql" /\ c.level /\ c.format = "p"]
            BY <4>1, Zenon DEF Dumped
          <6>2. QED
            BY <6>1
        <5>2. file[t].packed
          <6>1. (FALSE = file[t].packed) # TRUE /\ file[t].packed \in BOOLEAN
            BY <3>1, <5>1 DEF Unreadable, Reads, Unzips
          <6>2. QED
            BY <6>1
        <5>3. QED
          BY <5>1, <5>2
      <4>3. ~Faithful(t)
        BY <4>2 DEF Faithful
      <4>4. QED
        BY <3>1, <4>3 DEF Unreadable, Unzips
    <3>2. CASE PlayFails(o)
      BY <3>2 DEF PlayFails, ToldAs, Faithful
    <3>3. QED
      BY <1>9, <3>1, <3>2
  <2>5. Fine(o)'
    BY <1>2, <1>4, <2>4 DEF Faithful, Pc
  <2>6. QED
    BY <1>5, <2>1, <2>4, <2>5 DEF Pc
<1>10. ASSUME NEW o \in Operators,
              run' = [run EXCEPT ![o] = IdleRun]
                \/ \E t \in DbRestores : Start(o, t),
              UNCHANGED content
       PROVE  \A q \in Operators : Fine(q)'
  <2>1. run'[o].pc \in {"idle", "open"} /\ \A q \in Operators \ {o} : run'[q] = run[q]
    BY <1>t, <1>10 DEF Start
  <2>2. QED
    BY <1>3, <1>10, <2>1
<1>11. CASE UNCHANGED <<run, content>>
  BY <1>3, <1>11
<1>12. ASSUME NEW o \in Operators, Restart(o) \/ Complete(o) \/ Fail(o)
       PROVE  \A q \in Operators : Fine(q)'
  BY <1>10, <1>12 DEF Restart, Complete, Fail, Report, EndRun, dataVars
<1>13. ASSUME NEW o \in Operators, NEW t \in DbRestores, Start(o, t)
       PROVE  \A q \in Operators : Fine(q)'
  BY <1>10, <1>13 DEF Start, dataVars
<1>14. QED
  BY <1>6, <1>7, <1>8, <1>9, <1>11, <1>12, <1>13
     DEF Next, Reconcile, vars, dataVars, CreateDbRestore, EditDbRestore, DeleteDbRestore, Deliver,
     Elect, Resync, Skip, StartRefused, StartUnheard

LEMMA InvStep == TypeInv /\ IInv /\ [Next]_vars => (TypeInv /\ IInv)'
BY TypeStep, CacheStep, HeldStep, OneWorksStep, PlayedStep DEF IInv, Held, TypeInv

(* IInv is inductive: whatever processes lead, restart or read old caches. *)
THEOREM Invariance == Spec => []IInv
BY InitInv, InvStep, PTL DEF Spec

(* A dump is played back at most once for each DbRestore: the version check*)
(* of the first update decides who plays it.                               *)
THEOREM PlayedAtMostOnce == Spec => []PlayedOnce
<1>1. IInv => PlayedOnce
  BY DEF IInv
<1>2. QED
  BY <1>1, Invariance, PTL

(* While no two processes lead at once, a DbRestore that becomes Completed *)
(* has its dump in its database, in full, wherever errors are reported.    *)
THEOREM CompletedPlayed == Spec => CompletedIsPlayed
<1> DEFINE Step == used["lapse"] = 0 =>
             \A t \in DbRestores :
               Phase(t)' = "Completed" /\ Phase(t) # "Completed" /\ Faithful(t)
                 => content[Into[t]] = <<"whole", t>>
<1>1. ASSUME TypeInv, IInv, [Next]_vars PROVE [Step]_vars
  <2> SUFFICES ASSUME used["lapse"] = 0, NEW t \in DbRestores,
                      Phase(t)' = "Completed", Phase(t) # "Completed", Faithful(t)
               PROVE  content[Into[t]] = <<"whole", t>>
    OBVIOUS
  <2>t. /\ TypeOK /\ ItemOK
        /\ {"New", "InProgress", "Completed", "Failed", "Gone"} = PhaseName \ {"Absent"}
    BY <1>1 DEF TypeInv, PhaseName
  <2>1. \A q \in DbRestores, p \in PhaseName \ {"Absent"} :
          Write(q, p) => q = t /\ p = "Completed"
    BY <2>t, WriteEffect
  <2>2. versions' # versions
    BY DEF Phase
  <2>3. \A q \in DbRestores :
          ~CreateDbRestore(q) /\ ~EditDbRestore(q) /\ ~DeleteDbRestore(q)
    BY <2>t, <2>1, PhaseType
       DEF CreateDbRestore, EditDbRestore, DeleteDbRestore, Exists, NoObject
  <2>4. \A o \in Operators, q \in DbRestores : ~Start(o, q) /\ ~StartUnheard(o, q)
    BY <2>t, <2>1 DEF Start, StartUnheard
  <2>5. \A o \in Operators : ~Fail(o)
    BY <2>t, <2>1, <2>2 DEF Fail, Report, ItemOK, Working
  <2>6. PICK o \in Operators : Complete(o)
    BY <1>1, <2>2, <2>3, <2>4, <2>5
       DEF Next, Reconcile, vars, dataVars, Deliver, Elect, Resync, Restart, Skip, StartRefused,
       Open, OpenFails, Play, Unreadable, PlayEnds, PlayFails
  <2>7. run[o].item = t
    BY <2>t, <2>1, <2>2, <2>6 DEF Complete, Report, ItemOK, Working
  <2>8. QED
    BY <1>1, <2>6, <2>7 DEF Complete, IInv, PlayedSoFar
<1>2. QED
  BY <1>1, InitInv, InvStep, PTL DEF Spec, CompletedIsPlayed
-----------------------------------------------------------------------------
(* The reconciler implements SnapshotTask.                                 *)
LEMMA TaskWrite ==
  ASSUME TypeInv, NEW t \in DbRestores, NEW p \in PhaseName \ {"Absent"}, Write(t, p)
  PROVE  TaskPhase' = [TaskPhase EXCEPT ![t] =
                         IF p \in {"New", "InProgress"} THEN "Pending" ELSE p]
BY WriteEffect DEF TypeInv, TaskPhase

LEMMA TaskStep ==
  ASSUME TypeInv, CacheHonest, RunsHold, [Next]_vars
  PROVE  [Task!Next]_TaskPhase
<1> DEFINE Step == [Task!Next]_TaskPhase
<1>t. /\ TypeOK /\ ItemOK
      /\ {"New", "InProgress", "Completed", "Failed", "Gone"} = PhaseName \ {"Absent"}
      /\ \A t \in DbRestores : TaskPhase[t] =
           IF Phase(t) \in {"New", "InProgress"} THEN "Pending" ELSE Phase(t)
  BY DEF TypeInv, PhaseName, TaskPhase
<1>1. CASE UNCHANGED versions
  BY <1>1 DEF TaskPhase, Phase
<1>2. ASSUME NEW t \in DbRestores, CreateDbRestore(t) PROVE Step
  <2>1. Phase(t) = "Absent" /\ TaskPhase' = [TaskPhase EXCEPT ![t] = "Pending"]
    BY <1>t, <1>2, TaskWrite DEF CreateDbRestore, Phase
  <2>2. Task!Create(t)
    BY <1>t, <2>1 DEF Task!Create, Task!Move
  <2>3. QED
    BY <2>2 DEF Task!Next
<1>3. ASSUME NEW t \in DbRestores, EditDbRestore(t) PROVE Step
  <2>1. Phase(t) \in PhaseName \ {"Absent"}
    BY <1>t, <1>3, PhaseType DEF EditDbRestore, Exists, NoObject
  <2>2. TaskPhase' = [TaskPhase EXCEPT ![t] = TaskPhase[t]]
    BY <1>t, <1>3, <2>1, TaskWrite DEF EditDbRestore
  <2>3. QED
    BY <2>2 DEF TaskPhase
<1>4. ASSUME NEW t \in DbRestores, DeleteDbRestore(t) PROVE Step
  <2>1. /\ TaskPhase' = [TaskPhase EXCEPT ![t] = "Gone"]
        /\ TaskPhase[t] \in {"Pending", "Completed", "Failed"}
    BY <1>t, <1>4, TaskWrite, PhaseType DEF DeleteDbRestore, Exists, NoObject
  <2>2. Task!Remove(t)
    BY <2>1 DEF Task!Remove, Task!Move
  <2>3. QED
    BY <2>2 DEF Task!Next
<1>5. ASSUME NEW o \in Operators, NEW t \in DbRestores, Start(o, t) \/ StartUnheard(o, t)
      PROVE  Step
  <2>1. Phase(t) = "New" /\ Write(t, "InProgress")
    BY <1>t, <1>5, StartIsFirst DEF Start, StartUnheard
  <2>2. TaskPhase' = [TaskPhase EXCEPT ![t] = TaskPhase[t]]
    BY <1>t, <2>1, TaskWrite
  <2>3. QED
    BY <2>2 DEF TaskPhase
<1>6. ASSUME NEW o \in Operators, Complete(o) \/ Fail(o) PROVE Step
  <2> DEFINE t == run[o].item
  <2>1. t \in DbRestores /\ Working(o)
    BY <1>t, <1>6 DEF Complete, Fail, Working, ItemOK
  <2>2. ASSUME NEW p \in {"Completed", "Failed"}, Write(t, p), Phase(t) = "InProgress" PROVE Step
    <3>1. TaskPhase' = [TaskPhase EXCEPT ![t] = p] /\ TaskPhase[t] = "Pending"
      BY <1>t, <2>1, <2>2, TaskWrite
    <3>2. Task!End(t)
      BY <3>1 DEF Task!End, Task!Move
    <3>3. QED
      BY <2>1, <3>2 DEF Task!Next
  <2>3. Holds(o) \/ Exists(t) => Phase(t) = "InProgress"
    BY <2>1 DEF RunsHold, RunHolds, Exists, NoObject
  <2>4. QED
    BY <1>1, <1>6, <2>2, <2>3 DEF Complete, Fail, Report
<1>7. QED
  BY <1>1, <1>2, <1>3, <1>4, <1>5, <1>6
     DEF Next, Reconcile, vars, Deliver, Elect, Resync, Restart, Skip, StartRefused,
     Open, OpenFails, Play, Unreadable, PlayEnds, PlayFails, dataVars

(* A DbRestore gets at most one outcome and keeps it until it is removed.  *)
THEOREM KeepsOutcome == Spec => OneOutcome
<1>1. Init => Task!Init
  BY DEF Init, Task!Init, TaskPhase, Phase
<1>2. TypeInv /\ IInv /\ [Next]_vars => [Task!Next]_TaskPhase
  BY TaskStep DEF IInv
<1>3. QED
  BY <1>1, <1>2, InitInv, InvStep, PTL DEF Spec, OneOutcome, Task!Spec
=============================================================================
