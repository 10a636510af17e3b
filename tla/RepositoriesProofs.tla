------------------------- MODULE RepositoriesProofs -------------------------
(***************************************************************************)
(* Proofs about Repositories, for any set of repositories and any number of*)
(* changes.                                                                *)
(***************************************************************************)
EXTENDS Repositories, FiniteSetTheorems, TLAPS

-----------------------------------------------------------------------------
(* Type correctness.                                                       *)
Phase   == Decided \cup {""}
Outcome == Decided \cup {"", "found", "late", "refused"}
Early   == {"get", "register", "create"}
Over    == {"forget", "close", "end"}

WaitRec    == [pc : Early \cup {"wait"} \cup Over, out : Outcome]
ChanRec    == [open : BOOLEAN, listed : BOOLEAN]
HandlerRec == [pc : {"idle", "lookup", "send"}, phase : Phase]
WatchRec   == [seen : Nat, gap : BOOLEAN]

TypeOK ==
  /\ phases \in [Repos -> Seq(Phase)]
  /\ wait \in [Repos -> WaitRec]
  /\ chan \in [Repos -> ChanRec]
  /\ handler \in [Repos -> HandlerRec]
  /\ watch \in [Repos -> WatchRec]
  /\ crashed \in BOOLEAN

-----------------------------------------------------------------------------
(* The inductive invariant. Velero decides whenever it writes, and whoever *)
(* compares two versions that differ has a change between them.            *)
History(r) ==
  /\ \A i \in 2 .. Len(phases[r]) : phases[r][i] \in Decided
  /\ \A i, j \in 1 .. Len(phases[r]) :
       i < j /\ phases[r][i] # phases[r][j] => \E c \in Changes(r) : i < c /\ c <= j

(* The run is after one repository at a time.                              *)
Busy(r) == wait[r].pc \notin {"get", "end"}
OneByOne == \A q, r \in Repos : Busy(q) /\ Busy(r) => q = r

(* How far it has come with a repository, and its channel.                 *)
Started(r) == phases[r] # <<>> /\ phases[r][1] = ""

RunOK(r) ==
  /\ watch[r].seen <= Len(phases[r])
  /\ wait[r].pc \in Early \cup {"wait"} <=> wait[r].out = ""
  /\ wait[r].out = "found" => wait[r].pc = "end"
  /\ wait[r].pc = "wait" => Started(r)
  /\ wait[r].pc \in {"create", "wait"} => chan[r].listed
  /\ chan[r].listed => wait[r].pc \notin {"get", "register", "close", "end"}
  /\ wait[r].pc \in {"create", "wait", "forget", "close"} => chan[r].open

(* What the handler has been given: a run that waits has not missed a      *)
(* decision, and each report is of a change of its own.                    *)
Reporting(r)  == handler[r].pc # "idle"
Answered(r)   == wait[r].out \in Decided
Undecided(r)  == \A i \in 1 .. watch[r].seen : phases[r][i] \notin Decided
SawChange(r)  == \E c \in Changes(r) : c <= watch[r].seen
TwoChanges(r) == \E b, c \in Changes(r) : b < c

Told(r) ==
  /\ Reporting(r) => handler[r].phase \in Decided
  /\ handler[r].pc = "send" => wait[r].pc \notin {"get", "register"} /\ wait[r].out # "found"
  /\ wait[r].pc = "wait" /\ ~Reporting(r) /\ ~watch[r].gap => Undecided(r)
  /\ Reporting(r) \/ Answered(r) => SawChange(r)
  /\ Reporting(r) /\ Answered(r) => TwoChanges(r)

IInv ==
  /\ TypeOK /\ OneByOne
  /\ \A r \in Repos : History(r) /\ RunOK(r) /\ Told(r)
  /\ CrashHasCause

-----------------------------------------------------------------------------
(* What the steps do to the variables, each on its own.                    *)
Growth(r) ==
  /\ phases[r] \in Seq(Phase) /\ phases'[r] \in Seq(Phase)
  /\ Len(phases'[r]) >= Len(phases[r])
  /\ \A i \in 1 .. Len(phases[r]) : phases'[r][i] = phases[r][i]

Untouched(r) ==
  /\ wait'[r] = wait[r] /\ chan'[r] = chan[r]
  /\ handler'[r] = handler[r] /\ watch'[r] = watch[r]

RunStep(r) ==
  \/ Get(r) \/ Register(r) \/ Create(r) \/ Receive(r) \/ TimeOut(r) \/ Forget(r) \/ Close(r)
  \/ Deliver(r) \/ LookUp(r)
CrashStep(r) == Panic(r) \/ \E q \in Repos : Collide(q, r)
WorldStep(r) == Appear(r) \/ Velero(r)

LEMMA NextSteps ==
  [Next]_vars => \/ \E r \in Repos : RunStep(r) \/ CrashStep(r) \/ WorldStep(r)
                 \/ UNCHANGED vars
BY DEF Next, RunStep, CrashStep, WorldStep

LEMMA NotCrashed ==
  ASSUME [Next]_vars, ~UNCHANGED vars
  PROVE  ~crashed
BY DEF Next

LEMMA PhaseType ==
  /\ "" \in Phase /\ "" \notin Decided /\ Decided \subseteq Phase
  /\ Silent \in HandlerRec /\ Silent.pc = "idle" /\ Silent.phase = ""
BY DEF Phase, Decided, Silent, HandlerRec

LEMMA GotoEffect ==
  ASSUME TypeOK, NEW r \in Repos, NEW c \in Early \cup {"wait"} \cup Over, Goto(r, c)
  PROVE  /\ wait' \in [Repos -> WaitRec]
         /\ wait'[r].pc = c /\ wait'[r].out = wait[r].out
         /\ \A q \in Repos \ {r} : wait'[q] = wait[q]
BY DEF Goto, TypeOK, WaitRec

LEMMA FinishEffect ==
  ASSUME TypeOK, NEW r \in Repos, NEW o \in Outcome, Finish(r, o)
  PROVE  /\ wait' \in [Repos -> WaitRec]
         /\ wait'[r].pc = "forget" /\ wait'[r].out = o
         /\ \A q \in Repos \ {r} : wait'[q] = wait[q]
BY DEF Finish, TypeOK, WaitRec, Over

LEMMA Appended ==
  ASSUME NEW s \in Seq(Phase), NEW p \in Phase
  PROVE  /\ Append(s, p) \in Seq(Phase) /\ Len(Append(s, p)) = Len(s) + 1
         /\ \A i \in 1 .. Len(s) : Append(s, p)[i] = s[i]
         /\ Append(s, p)[Len(s) + 1] = p
OBVIOUS

LEMMA FirstPhase ==
  /\ <<>> \in Seq(Phase) /\ Len(<<>>) = 0
  /\ <<"">> \in Seq(Phase) /\ Len(<<"">>) = 1 /\ <<"">>[1] = "" /\ <<"">> # <<>>
<1>1. "" \in Phase
  BY DEF Phase
<1>2. <<>> \in Seq(Phase) /\ Len(<<>>) = 0
  OBVIOUS
<1>3. <<"">> \in Seq(Phase)
  <2>1. ASSUME NEW S, NEW x \in S
        PROVE  <<x>> \in Seq(S)
    OBVIOUS
  <2>2. QED
    BY <1>1, <2>1
<1>4. Len(<<"">>) = 1
  OBVIOUS
<1>5. <<"">>[1] = ""
  OBVIOUS
<1>6. <<"">> # <<>>
  OBVIOUS
<1>7. QED
  BY <1>2, <1>3, <1>4, <1>5, <1>6

LEMMA TypeInit == Init => TypeOK
<1> SUFFICES ASSUME Init PROVE TypeOK
  OBVIOUS
<1>1. [pc |-> "get", out |-> ""] \in WaitRec
  BY DEF WaitRec, Early, Outcome
<1>2. [open |-> FALSE, listed |-> FALSE] \in ChanRec
  BY DEF ChanRec
<1>3. phases \in [Repos -> Seq(Phase)]
  <2>1. ASSUME NEW p \in Phase
        PROVE  <<p>> \in Seq(Phase)
    OBVIOUS
  <2>2. "Ready" \in Phase /\ "NotReady" \in Phase
    BY DEF Phase, Decided
  <2>3. {<<>>, <<"">>, <<"Ready">>, <<"NotReady">>} \subseteq Seq(Phase)
    BY <2>1, <2>2, FirstPhase, PhaseType, Zenon
  <2>4. QED
    BY <2>3 DEF Init
<1>4. ASSUME NEW r \in Repos
      PROVE  [seen |-> Len(phases[r]), gap |-> FALSE] \in WatchRec
  BY <1>3 DEF WatchRec
<1>5. QED
  BY <1>1, <1>2, <1>3, <1>4, PhaseType, FirstPhase DEF Init, TypeOK

(* What a step of a run does to wait[r].                                   *)
LEMMA WaitMoves ==
  ASSUME TypeOK, \A q \in Repos : Told(q), NEW r \in Repos, RunStep(r)
  PROVE  /\ wait' \in [Repos -> WaitRec]
         /\ \A q \in Repos \ {r} : wait'[q] = wait[q]
<1> DEFINE Goal == /\ wait' \in [Repos -> WaitRec]
                   /\ \A q \in Repos \ {r} : wait'[q] = wait[q]
<1>1. CASE Get(r)
  <2>1. CASE Goto(r, After("get"))
    BY <2>1, GotoEffect DEF After, Early
  <2>2. CASE wait' = [wait EXCEPT ![r] = [pc |-> "end", out |-> "found"]]
    BY <2>2 DEF TypeOK, WaitRec, Over, Outcome
  <2>3. QED
    BY <1>1, <2>1, <2>2 DEF Get
<1>2. CASE Register(r)
  BY <1>2, GotoEffect DEF Register, After, Early
<1>3. CASE Create(r)
  <2>1. CASE Goto(r, After("create"))
    BY <2>1, GotoEffect DEF After
  <2>2. CASE Finish(r, "refused")
    BY <2>2, FinishEffect DEF Outcome
  <2>3. QED
    BY <1>3, <2>1, <2>2 DEF Create
<1>4. CASE Receive(r)
  <2>1. handler[r].phase \in Outcome
    BY <1>4 DEF Receive, Told, Reporting, Outcome
  <2>2. QED
    BY <1>4, <2>1, FinishEffect DEF Receive
<1>5. CASE TimeOut(r)
  BY <1>5, FinishEffect DEF TimeOut, Outcome
<1>6. CASE Forget(r) \/ Close(r)
  BY <1>6, GotoEffect DEF Forget, Close, Over
<1>7. CASE Deliver(r) \/ LookUp(r)
  BY <1>7 DEF Deliver, LookUp, TypeOK
<1>8. QED
  BY <1>1, <1>2, <1>3, <1>4, <1>5, <1>6, <1>7 DEF RunStep

(* A step leaves the phases of a repository as they are, begins or goes on *)
(* with them.                                                              *)
Same(r)   == phases'[r] = phases[r]
Begun(r)  == phases[r] = <<>> /\ phases'[r] = <<"">>
Longer(r) == phases[r] # <<>> /\ \E p \in Decided : phases'[r] = Append(phases[r], p)

LEMMA PhasesSteps ==
  ASSUME TypeOK, [Next]_vars, NEW r \in Repos
  PROVE  Same(r) \/ Begun(r) \/ Longer(r)
<1>1. UNCHANGED phases => Same(r)
  BY DEF Same
<1>2. ASSUME NEW q \in Repos, phases[q] = <<>>, Made(q)
      PROVE  Same(r) \/ Begun(r)
  BY <1>2 DEF Made, TypeOK, Same, Begun
<1>3. ASSUME NEW q \in Repos, Velero(q)
      PROVE  Same(r) \/ Longer(r)
  BY <1>3 DEF Velero, TypeOK, Same, Longer
<1>4. ASSUME NEW q \in Repos, RunStep(q) \/ CrashStep(q), ~Create(q)
      PROVE  UNCHANGED phases
  BY <1>4 DEF RunStep, CrashStep, Get, Register, Receive, TimeOut, Forget, Close,
              Deliver, LookUp, Panic, Collide
<1>5. ASSUME NEW q \in Repos, Create(q) \/ Appear(q)
      PROVE  UNCHANGED phases \/ (phases[q] = <<>> /\ Made(q))
  BY <1>5 DEF Create, Appear
<1>6. QED
  BY <1>1, <1>2, <1>3, <1>4, <1>5, NextSteps DEF WorldStep, vars

LEMMA PhasesMove ==
  ASSUME TypeOK, [Next]_vars, NEW r \in Repos
  PROVE  Growth(r)
<1>1. phases[r] \in Seq(Phase) /\ Len(phases[r]) \in Nat
  BY DEF TypeOK
<1>2. CASE Same(r)
  BY <1>1, <1>2 DEF Growth, Same
<1>3. CASE Begun(r)
  <2>1. Len(phases[r]) = 0 /\ phases'[r] \in Seq(Phase) /\ Len(phases'[r]) = 1
    BY <1>3, FirstPhase DEF Begun
  <2>2. QED
    BY <1>1, <2>1 DEF Growth
<1>4. CASE Longer(r)
  <2>1. PICK p \in Phase : phases'[r] = Append(phases[r], p)
    BY <1>4, PhaseType DEF Longer
  <2>2. QED
    BY <1>1, <2>1, Appended DEF Growth
<1>5. QED
  BY <1>2, <1>3, <1>4, PhasesSteps

LEMMA PhasesType ==
  ASSUME TypeOK, [Next]_vars
  PROVE  phases' \in [Repos -> Seq(Phase)]
<1>1. \A r \in Repos : phases'[r] \in Seq(Phase)
  BY PhasesMove DEF Growth
<1>2. phases' = phases \/ \E r \in Repos : \E s : phases' = [phases EXCEPT ![r] = s]
  BY NextSteps DEF RunStep, CrashStep, WorldStep, Get, Register, Create, Made, Receive, TimeOut,
                   Forget, Close, Deliver, LookUp, Panic, Collide, Appear, Velero, vars
<1>3. QED
  BY <1>1, <1>2 DEF TypeOK

LEMMA RestMoves ==
  ASSUME TypeOK, \A q \in Repos : Told(q), NEW r \in Repos, RunStep(r)
  PROVE  /\ chan' \in [Repos -> ChanRec] /\ handler' \in [Repos -> HandlerRec]
         /\ watch' \in [Repos -> WatchRec]
         /\ \A q \in Repos \ {r} : Untouched(q)
         /\ crashed' = crashed
<1> DEFINE Goal == /\ chan' \in [Repos -> ChanRec] /\ handler' \in [Repos -> HandlerRec]
                   /\ watch' \in [Repos -> WatchRec]
                   /\ \A q \in Repos \ {r} : Untouched(q)
                   /\ crashed' = crashed
<1>1. \A q \in Repos \ {r} : wait'[q] = wait[q]
  BY WaitMoves
<1>2. CASE Get(r) \/ Create(r) \/ TimeOut(r)
  BY <1>1, <1>2 DEF Get, Create, TimeOut, TypeOK, Untouched
<1>3. CASE Register(r)
  BY <1>1, <1>3 DEF Register, TypeOK, ChanRec, Untouched
<1>4. CASE Forget(r)
  <2>1. [chan[r] EXCEPT !.listed = FALSE] \in ChanRec
    BY DEF TypeOK, ChanRec
  <2>2. QED
    BY <1>1, <1>4, <2>1 DEF Forget, TypeOK, Untouched
<1>5. CASE Close(r)
  <2>1. [chan[r] EXCEPT !.open = FALSE] \in ChanRec
    BY DEF TypeOK, ChanRec
  <2>2. QED
    BY <1>1, <1>5, <2>1 DEF Close, TypeOK, Untouched
<1>6. CASE Receive(r)
  BY <1>1, <1>6, PhaseType DEF Receive, TypeOK, Untouched
<1>7. CASE LookUp(r)
  <2>1. [handler[r] EXCEPT !.pc = "send"] \in HandlerRec
    BY DEF TypeOK, HandlerRec
  <2>2. QED
    BY <1>1, <1>7, <2>1, PhaseType DEF LookUp, TypeOK, Untouched
<1>8. CASE Deliver(r)
  <2> DEFINE s == watch[r].seen
  <2>1. PICK v \in {s + 1, Len(phases[r])} :
          /\ watch' = [watch EXCEPT ![r] = [seen |-> v, gap |-> @.gap \/ v # s + 1]]
          /\ handler' = IF s > 0 /\ Reports(phases[r][s], phases[r][v])
                          THEN [handler EXCEPT ![r] = [pc |-> "lookup", phase |-> phases[r][v]]]
                          ELSE handler
    BY <1>8 DEF Deliver
  <2>2. s \in Nat /\ v \in 1 .. Len(phases[r])
    BY <1>8 DEF Deliver, TypeOK, WatchRec
  <2>3. phases[r][v] \in Phase
    BY <2>2 DEF TypeOK
  <2>4. [pc |-> "lookup", phase |-> phases[r][v]] \in HandlerRec
    BY <2>3 DEF HandlerRec
  <2>5. (watch[r].gap \/ v # s + 1) \in BOOLEAN
    OBVIOUS
  <2>6. [seen |-> v, gap |-> watch[r].gap \/ v # s + 1] \in WatchRec
    BY <2>2, <2>5 DEF WatchRec
  <2>7. watch' \in [Repos -> WatchRec] /\ \A q \in Repos \ {r} : watch'[q] = watch[q]
    BY <2>1, <2>6 DEF TypeOK
  <2>8. handler' \in [Repos -> HandlerRec] /\ \A q \in Repos \ {r} : handler'[q] = handler[q]
    BY <2>1, <2>4 DEF TypeOK
  <2>9. QED
    BY <1>1, <1>8, <2>7, <2>8 DEF Deliver, TypeOK, Untouched
<1>9. QED
  BY <1>2, <1>3, <1>4, <1>5, <1>6, <1>7, <1>8 DEF RunStep

LEMMA TypeStep ==
  ASSUME TypeOK, \A q \in Repos : Told(q), [Next]_vars
  PROVE  TypeOK'
<1>1. phases' \in [Repos -> Seq(Phase)]
  BY PhasesType
<1>2. ASSUME NEW r \in Repos, RunStep(r)
      PROVE  TypeOK'
  BY <1>1, <1>2, WaitMoves, RestMoves DEF TypeOK
<1>3. ASSUME NEW r \in Repos, CrashStep(r)
      PROVE  TypeOK'
  BY <1>3 DEF CrashStep, Panic, Collide, TypeOK
<1>4. ASSUME NEW r \in Repos, WorldStep(r)
      PROVE  TypeOK'
  BY <1>1, <1>4 DEF WorldStep, Appear, Velero, TypeOK
<1>5. CASE UNCHANGED vars
  BY <1>5 DEF vars, TypeOK
<1>6. QED
  BY <1>2, <1>3, <1>4, <1>5, NextSteps

-----------------------------------------------------------------------------
(* The changes of the repository stay, and a new phase that differs from   *)
(* an older one comes after a change that came after that one.             *)
LEMMA ChangesKept ==
  ASSUME NEW r \in Repos, Growth(r)
  PROVE  /\ Changes(r) \subseteq 2 .. Len(phases[r])
         /\ Changes(r) \subseteq Changes(r)'
<1>1. Len(phases[r]) \in Nat /\ Len(phases'[r]) \in Nat
  BY DEF Growth
<1>2. Changes(r) \subseteq 2 .. Len(phases[r])
  BY DEF Changes
<1>3. ASSUME NEW c \in Changes(r)
      PROVE  c \in Changes(r)'
  <2>1. c \in 2 .. Len(phases[r]) /\ phases[r][c] # phases[r][c - 1] /\ phases[r][c] \in Decided
    BY <1>3 DEF Changes
  <2>2. c \in 2 .. Len(phases'[r]) /\ c \in 1 .. Len(phases[r]) /\ c - 1 \in 1 .. Len(phases[r])
    BY <1>1, <2>1 DEF Growth
  <2>3. phases'[r][c] = phases[r][c] /\ phases'[r][c - 1] = phases[r][c - 1]
    BY <2>2 DEF Growth
  <2>4. QED
    BY <2>1, <2>2, <2>3 DEF Changes
<1>4. QED
  BY <1>2, <1>3

LEMMA LongerHistory ==
  ASSUME TypeOK, NEW r \in Repos, History(r), Longer(r)
  PROVE  History(r)'
<1> DEFINE n == Len(phases[r])
<1>1. PICK p \in Decided : phases'[r] = Append(phases[r], p)
  BY DEF Longer
<1>2. p \in Phase /\ phases[r] \in Seq(Phase) /\ n \in Nat /\ n >= 1
  <2>1. phases[r] \in Seq(Phase) /\ phases[r] # <<>>
    BY DEF TypeOK, Longer
  <2>2. p \in Phase
    BY PhaseType
  <2>3. QED
    BY <2>1, <2>2
<1>3. /\ phases'[r] \in Seq(Phase) /\ Len(phases'[r]) = n + 1 /\ phases'[r][n + 1] = p
      /\ \A i \in 1 .. n : phases'[r][i] = phases[r][i]
  BY <1>1, <1>2, Appended
<1>4. Growth(r)
  BY <1>2, <1>3 DEF Growth
<1>5. Changes(r) \subseteq 2 .. n /\ Changes(r) \subseteq Changes(r)'
  BY <1>4, ChangesKept
<1> HIDE DEF n
<1>6. \A i \in 2 .. n : phases[r][i] \in Decided
  BY DEF History, n
<1>7. ASSUME NEW i \in 2 .. Len(phases'[r])
      PROVE  phases'[r][i] \in Decided
  <2>1. i = n + 1 \/ i \in 2 .. n
    BY <1>2, <1>3, <1>7
  <2>2. i \in 2 .. n => i \in 1 .. n
    BY <1>2
  <2>3. QED
    BY <1>1, <1>3, <1>6, <2>1, <2>2
<1>8. phases[r][n] # p => n + 1 \in Changes(r)'
  <2>1. n + 1 \in 2 .. Len(phases'[r]) /\ (n + 1) - 1 = n /\ n \in 1 .. n
    BY <1>2, <1>3
  <2>2. QED
    BY <1>3, <2>1 DEF Changes
<1>9. ASSUME NEW i \in 1 .. Len(phases'[r]), NEW j \in 1 .. Len(phases'[r]),
              i < j, phases'[r][i] # phases'[r][j]
       PROVE  \E c \in Changes(r)' : i < c /\ c <= j
  <2>1. i \in 1 .. n
    BY <1>2, <1>3, <1>9
  <2>2. \A k \in 1 .. n : i < k /\ phases[r][i] # phases[r][k] => \E c \in Changes(r)' : i < c /\ c <= k
    BY <1>5, <2>1 DEF History, n
  <2>3. CASE j \in 1 .. n
    BY <1>3, <1>9, <2>1, <2>2, <2>3
  <2>4. CASE j \notin 1 .. n
    <3>1. j = n + 1 /\ n \in 1 .. n /\ i \in Nat
      BY <1>2, <1>3, <2>1, <2>4
    <3>2. CASE phases[r][n] # p
      <4>1. i < n + 1 /\ n + 1 <= j
        BY <1>2, <2>1, <3>1
      <4>2. QED
        BY <1>8, <3>2, <4>1
    <3>3. CASE phases[r][n] = p
      <4>1. phases[r][i] # phases[r][n]
        BY <1>3, <1>9, <2>1, <3>1, <3>3
      <4>2. i < n
        BY <1>2, <2>1, <4>1
      <4>3. PICK c \in Changes(r)' : i < c /\ c <= n
        BY <2>2, <3>1, <4>1, <4>2
      <4>4. c \in Nat
        BY <1>3 DEF Changes
      <4>5. i < c /\ c <= j
        BY <1>2, <3>1, <4>3, <4>4
      <4>6. QED
        BY <4>5
    <3>4. QED
      BY <3>2, <3>3
  <2>5. QED
    BY <2>3, <2>4
<1>10. QED
  BY <1>7, <1>9 DEF History

LEMMA OneElement ==
  /\ 2 .. 1 = {} /\ \A i, j \in 1 .. 1 : ~(i < j)
  /\ 1 .. 0 = {} /\ 2 .. 0 = {} /\ 0 <= 0
OBVIOUS

LEMMA HistoryStep ==
  ASSUME TypeOK, [Next]_vars, NEW r \in Repos, History(r)
  PROVE  History(r)'
<1>1. CASE Same(r)
  BY <1>1 DEF Same, History, Changes
<1>2. CASE Begun(r)
  <2>1. Len(phases'[r]) = 1
    BY <1>2, FirstPhase DEF Begun
  <2>2. 2 .. Len(phases'[r]) = {} /\ \A i, j \in 1 .. Len(phases'[r]) : ~(i < j)
    BY <2>1, OneElement, Zenon
  <2>3. QED
    BY <2>2, Zenon DEF History
<1>3. QED
  BY <1>1, <1>2, LongerHistory, PhasesSteps

-----------------------------------------------------------------------------
(* The run turns to a repository only when it is free.                     *)
LEMMA BusyStep ==
  ASSUME TypeOK, \A q \in Repos : Told(q), [Next]_vars, NEW r \in Repos, ~Busy(r), Busy(r)'
  PROVE  /\ \A q \in Repos : ~Busy(q)
         /\ \A q \in Repos \ {r} : ~Busy(q)'
<1>1. wait'[r] # wait[r]
  BY DEF Busy
<1>2. ~UNCHANGED wait
  BY <1>1
<1>3. PICK q \in Repos : RunStep(q)
  BY <1>2, NextSteps DEF CrashStep, WorldStep, Panic, Collide, Appear, Velero, vars
<1>4. q = r /\ \A p \in Repos \ {r} : wait'[p] = wait[p]
  BY <1>1, <1>3, WaitMoves
<1>5. Get(r)
  BY <1>2, <1>3, <1>4 DEF RunStep, Busy, Register, Create, Receive, TimeOut, Forget, Close,
                          Deliver, LookUp
<1>6. \A p \in Repos : ~Busy(p)
  BY <1>5 DEF Get, Free, Busy
<1>7. QED
  BY <1>4, <1>6 DEF Busy

LEMMA OneByOneStep ==
  ASSUME TypeOK, \A q \in Repos : Told(q), OneByOne, [Next]_vars
  PROVE  OneByOne'
<1> SUFFICES ASSUME NEW q \in Repos, NEW r \in Repos, Busy(q)', Busy(r)', q # r
             PROVE  FALSE
  BY DEF OneByOne
<1>1. Busy(q) /\ Busy(r)
  BY BusyStep
<1>2. QED
  BY <1>1 DEF OneByOne

-----------------------------------------------------------------------------
(* How far a run has come.                                                 *)
LEMMA SeenKept ==
  ASSUME TypeOK, NEW r \in Repos, Growth(r), RunOK(r)
  PROVE  /\ watch[r].seen \in Nat /\ watch[r].seen <= Len(phases[r])
         /\ watch[r].seen <= Len(phases'[r])
         /\ Started(r) => Started(r)'
<1>1. watch[r].seen \in Nat /\ Len(phases[r]) \in Nat /\ Len(phases'[r]) \in Nat
  BY DEF TypeOK, WatchRec, Growth
<1>2. watch[r].seen <= Len(phases[r]) /\ Len(phases[r]) <= Len(phases'[r])
  BY DEF RunOK, Growth
<1>3. phases[r] # <<>> => Len(phases[r]) > 0
  BY DEF TypeOK
<1>4. ASSUME NEW s \in Seq(Phase), Len(s) > 0
      PROVE  s # <<>>
  BY <1>4
<1>5. phases[r] # <<>> => Len(phases'[r]) > 0
  BY <1>1, <1>2, <1>3
<1>6. watch[r].seen <= Len(phases'[r])
  BY <1>1, <1>2
<1>7. phases[r] # <<>> => phases'[r] # <<>> /\ phases'[r][1] = phases[r][1]
  <2>1. phases[r] # <<>> => 1 \in 1 .. Len(phases[r])
    BY <1>1, <1>3
  <2>2. QED
    BY <1>4, <1>5, <2>1 DEF Growth
<1>8. QED
  BY <1>1, <1>2, <1>6, <1>7 DEF Started

LEMMA SameRunOK ==
  ASSUME TypeOK, NEW r \in Repos, Growth(r), RunOK(r), Untouched(r)
  PROVE  RunOK(r)'
<1>1. watch'[r].seen <= Len(phases'[r])
  BY SeenKept, Zenon DEF Untouched
<1>2. QED
  BY <1>1, SeenKept, Zenon DEF RunOK, Untouched

LEMMA RunOKStep ==
  ASSUME TypeOK, [Next]_vars, NEW r \in Repos, RunOK(r), Told(r), RunStep(r)
  PROVE  RunOK(r)'
<1> USE DEF Early, Over
<1>1. Growth(r)
  BY PhasesMove
<1>2. UNCHANGED watch => watch'[r].seen <= Len(phases'[r])
  BY <1>1, SeenKept
<1>3. wait[r] \in WaitRec
  BY DEF TypeOK
<1>4. CASE Get(r)
  <2>1. wait[r].pc = "get" /\ UNCHANGED <<chan, watch>>
    BY <1>4 DEF Get
  <2>2. CASE Goto(r, "register")
    <3>1. wait'[r].pc = "register" /\ wait'[r].out = wait[r].out
      BY <2>2, GotoEffect
    <3>2. QED
      BY <1>2, <2>1, <3>1 DEF RunOK
  <2>3. CASE wait' = [wait EXCEPT ![r] = [pc |-> "end", out |-> "found"]]
    <3>1. wait'[r].pc = "end" /\ wait'[r].out = "found"
      BY <2>3 DEF TypeOK
    <3>2. QED
      BY <1>2, <2>1, <3>1 DEF RunOK
  <2>4. QED
    BY <1>4, <2>2, <2>3 DEF Get, After
<1>5. CASE Register(r)
  <2>1. wait'[r].pc = "create" /\ wait'[r].out = wait[r].out
    BY <1>5, GotoEffect DEF Register, After
  <2>2. chan'[r].open = TRUE /\ chan'[r].listed = TRUE
    BY <1>5 DEF Register, TypeOK
  <2>3. QED
    BY <1>2, <1>5, <2>1, <2>2 DEF Register, RunOK
<1>6. CASE Create(r)
  <2>1. wait[r].pc = "create" /\ UNCHANGED <<chan, watch>>
    BY <1>6 DEF Create
  <2>2. CASE Finish(r, "refused")
    <3>1. wait'[r].pc = "forget" /\ wait'[r].out = "refused"
      BY <2>2, FinishEffect DEF Outcome
    <3>2. QED
      BY <1>2, <2>1, <3>1 DEF RunOK
  <2>3. CASE phases'[r] = <<"">> /\ Goto(r, "wait")
    <3>1. wait'[r].pc = "wait" /\ wait'[r].out = wait[r].out
      BY <2>3, GotoEffect
    <3>2. Started(r)'
      BY <2>3, FirstPhase DEF Started
    <3>3. QED
      BY <1>2, <2>1, <3>1, <3>2 DEF RunOK
  <2>4. QED
    BY <1>6, <2>2, <2>3 DEF Create, Made, TypeOK, After
<1>7. CASE Receive(r) \/ TimeOut(r)
  <2>1. wait[r].pc = "wait" /\ UNCHANGED <<chan, watch>>
    BY <1>7 DEF Receive, TimeOut
  <2>2. PICK o \in Decided \cup {"late"} : Finish(r, o)
    BY <1>7 DEF Receive, TimeOut, Told, Reporting
  <2>3. wait'[r].pc = "forget" /\ wait'[r].out = o
    BY <2>2, FinishEffect DEF Outcome
  <2>4. QED
    BY <1>2, <2>1, <2>3 DEF RunOK, Decided
<1>8. CASE Forget(r) \/ Close(r)
  <2>1. PICK c \in {"close", "end"} :
          /\ Goto(r, c) /\ UNCHANGED watch
          /\ wait[r].pc = IF c = "close" THEN "forget" ELSE "close"
    BY <1>8 DEF Forget, Close
  <2>2. wait'[r].pc = c /\ wait'[r].out = wait[r].out
    BY <2>1, GotoEffect
  <2>3. /\ ~chan'[r].listed
        /\ c = "close" => chan'[r].open
    BY <1>8, <2>1 DEF Forget, Close, TypeOK, ChanRec, RunOK
  <2>4. QED
    BY <1>2, <2>1, <2>2, <2>3 DEF RunOK
<1>9. CASE LookUp(r)
  BY <1>2, <1>9 DEF LookUp, RunOK, Started
<1>10. CASE Deliver(r)
  <2>1. watch'[r].seen <= Len(phases'[r])
    <3>1. PICK v \in {watch[r].seen + 1, Len(phases[r])} : watch'[r].seen = v
      BY <1>10 DEF Deliver, TypeOK
    <3>2. watch[r].seen \in Nat /\ watch[r].seen < Len(phases[r]) /\ Len(phases[r]) \in Nat
      BY <1>10 DEF Deliver, TypeOK, WatchRec
    <3>3. v <= Len(phases[r]) /\ UNCHANGED phases
      BY <1>10, <3>2 DEF Deliver
    <3>4. QED
      BY <3>1, <3>3, Zenon
  <2>2. QED
    BY <1>10, <2>1, Zenon DEF Deliver, RunOK, Started
<1>11. QED
  BY <1>4, <1>5, <1>6, <1>7, <1>8, <1>9, <1>10 DEF RunStep

-----------------------------------------------------------------------------
(* What the handler has been given.                                        *)
SameWatch(r) == watch'[r] = watch[r]

LEMMA SeenStays ==
  ASSUME TypeOK, NEW r \in Repos, Growth(r), RunOK(r), SameWatch(r)
  PROVE  /\ Undecided(r) => Undecided(r)'
         /\ SawChange(r) => SawChange(r)'
         /\ TwoChanges(r) => TwoChanges(r)'
<1>1. watch[r].seen \in Nat /\ watch[r].seen <= Len(phases[r]) /\ Len(phases[r]) \in Nat
  BY SeenKept DEF TypeOK
<1>2. ASSUME Undecided(r), NEW i \in 1 .. watch[r].seen
      PROVE  phases'[r][i] \notin Decided
  <2>1. i \in 1 .. Len(phases[r])
    BY <1>1
  <2>2. QED
    BY <1>2, <2>1 DEF Undecided, Growth
<1>3. Undecided(r) => Undecided(r)'
  BY <1>2, Zenon DEF Undecided, SameWatch
<1>4. SawChange(r) => SawChange(r)'
  BY ChangesKept, Zenon DEF SawChange, SameWatch
<1>5. TwoChanges(r) => TwoChanges(r)'
  BY ChangesKept, Zenon DEF TwoChanges
<1>6. QED
  BY <1>3, <1>4, <1>5

LEMMA SameTold ==
  ASSUME TypeOK, NEW r \in Repos, Growth(r), RunOK(r), Told(r), Untouched(r)
  PROVE  Told(r)'
<1>1. SameWatch(r)
  BY DEF Untouched, SameWatch
<1>2. QED
  BY <1>1, SeenStays, Zenon DEF Told, Reporting, Answered, Untouched

(* The steps of EnsureRepo before and after its waiting.                   *)
LEMMA WaitTold ==
  ASSUME TypeOK, NEW r \in Repos, Growth(r), RunOK(r), Told(r),
         UNCHANGED <<handler, watch>>,
         wait'[r].out = wait[r].out \/ wait'[r].out \notin Decided,
         wait'[r].pc = "wait" => Undecided(r),
         handler[r].pc = "send" => wait'[r].pc \notin {"get", "register"} /\ wait'[r].out # "found"
  PROVE  Told(r)'
<1>1. SameWatch(r)
  BY DEF SameWatch
<1>2. Answered(r)' => Answered(r)
  BY DEF Answered
<1>3. Reporting(r)' <=> Reporting(r)
  BY DEF Reporting
<1>4. QED
  BY <1>1, <1>2, <1>3, SeenStays DEF Told

LEMMA ReceiveTold ==
  ASSUME TypeOK, NEW r \in Repos, Growth(r), RunOK(r), Told(r), Receive(r)
  PROVE  Told(r)'
<1>1. SameWatch(r) /\ Reporting(r)
  BY DEF Receive, SameWatch, Reporting
<1>2. wait'[r].pc = "forget"
  BY <1>1, FinishEffect DEF Receive, Told, Outcome
<1>3. handler'[r].pc = "idle"
  BY PhaseType DEF Receive, TypeOK
<1>4. SawChange(r)'
  BY <1>1, SeenStays DEF Told
<1>5. QED
  BY <1>2, <1>3, <1>4 DEF Told, Reporting

LEMMA LookUpTold ==
  ASSUME TypeOK, NEW r \in Repos, Growth(r), RunOK(r), Told(r), LookUp(r)
  PROVE  Told(r)'
<1>1. SameWatch(r) /\ Reporting(r) /\ wait' = wait
  BY DEF LookUp, SameWatch, Reporting
<1>2. SawChange(r)' /\ (Answered(r)' => TwoChanges(r)')
  BY <1>1, SeenStays DEF Told, Answered
<1>3. CASE chan[r].listed
  <2>1. handler'[r].pc = "send" /\ handler'[r].phase = handler[r].phase
    BY <1>3 DEF LookUp, TypeOK, HandlerRec
  <2>2. wait[r].pc \notin {"get", "register"} /\ wait[r].out # "found"
    BY <1>3 DEF RunOK
  <2>3. QED
    BY <1>1, <1>2, <2>1, <2>2 DEF Told, Reporting
<1>4. CASE ~chan[r].listed
  <2>1. handler'[r].pc = "idle"
    BY <1>4, PhaseType DEF LookUp, TypeOK
  <2>2. wait[r].pc # "wait"
    BY <1>4 DEF RunOK
  <2>3. QED
    BY <1>1, <1>2, <2>1, <2>2 DEF Told, Reporting
<1>5. QED
  BY <1>3, <1>4

LEMMA DeliverTold ==
  ASSUME TypeOK, NEW r \in Repos, History(r), RunOK(r), Told(r), Deliver(r)
  PROVE  Told(r)'
<1> DEFINE s == watch[r].seen
<1>1. PICK v \in {s + 1, Len(phases[r])} :
        /\ watch' = [watch EXCEPT ![r] = [seen |-> v, gap |-> @.gap \/ v # s + 1]]
        /\ handler' = IF s > 0 /\ Reports(phases[r][s], phases[r][v])
                        THEN [handler EXCEPT ![r] = [pc |-> "lookup", phase |-> phases[r][v]]]
                        ELSE handler
  BY DEF Deliver
<1>2. /\ s \in Nat /\ s < Len(phases[r]) /\ Len(phases[r]) \in Nat
      /\ ~Reporting(r) /\ UNCHANGED <<phases, wait>>
  BY DEF Deliver, TypeOK, WatchRec, Reporting
<1>3. v \in Nat /\ s < v /\ v \in 1 .. Len(phases[r])
  BY <1>2
<1>4. watch'[r].seen = v /\ watch'[r].gap = (watch[r].gap \/ v # s + 1)
  BY <1>1 DEF TypeOK
<1>5. Changes(r)' = Changes(r) /\ Changes(r) \subseteq Nat
  BY <1>2 DEF Changes
<1>6. SawChange(r) => SawChange(r)'
  <2>1. ASSUME NEW c \in Changes(r), c <= s
        PROVE  c <= v
    BY <1>2, <1>3, <1>5, <2>1
  <2>2. QED
    BY <1>4, <1>5, <2>1, Zenon DEF SawChange
<1> HIDE DEF s
<1>7. CASE s > 0 /\ Reports(phases[r][s], phases[r][v])
  <2>1. handler'[r].pc = "lookup" /\ handler'[r].phase = phases[r][v]
    BY <1>1, <1>7 DEF TypeOK
  <2>2. phases[r][v] \in Decided /\ phases[r][s] # phases[r][v]
    BY <1>7 DEF Reports
  <2>3. s \in 1 .. Len(phases[r])
    BY <1>2, <1>7
  <2>4. PICK c \in Changes(r) : s < c /\ c <= v
    BY <1>3, <2>2, <2>3 DEF History
  <2>5. SawChange(r)'
    BY <1>4, <1>5, <2>4, Zenon DEF SawChange
  <2>6. Answered(r)' => TwoChanges(r)'
    <3>1. Answered(r)' => Answered(r)
      BY <1>2 DEF Answered
    <3>2. Answered(r) => \E b \in Changes(r) : b <= s
      BY DEF Told, SawChange, s
    <3>3. ASSUME NEW b \in Changes(r), b <= s
          PROVE  b < c
      BY <1>2, <1>5, <2>4, <3>3
    <3>4. QED
      BY <1>5, <3>1, <3>2, <3>3 DEF TwoChanges
  <2>7. QED
    BY <2>1, <2>2, <2>5, <2>6 DEF Told, Reporting
<1>8. CASE ~(s > 0 /\ Reports(phases[r][s], phases[r][v]))
  <2>1. handler' = handler
    BY <1>1, <1>8
  <2>2. ASSUME wait'[r].pc = "wait", ~watch'[r].gap
        PROVE  Undecided(r)'
    <3>1. v = s + 1 /\ ~watch[r].gap /\ wait[r].pc = "wait"
      BY <1>2, <1>4, <2>2
    <3>2. \A i \in 1 .. s : phases[r][i] \notin Decided
      BY <1>2, <3>1 DEF Told, Undecided, s
    <3>3. phases[r][v] \notin Decided
      <4>1. CASE s > 0
        <5>1. s \in 1 .. s
          BY <1>2, <4>1
        <5>2. QED
          BY <1>8, <3>2, <4>1, <5>1 DEF Reports
      <4>2. CASE ~(s > 0)
        <5>1. v = 1
          BY <1>2, <3>1, <4>2
        <5>2. wait[r].pc = "wait"
          BY <3>1
        <5>3. phases[r][1] = ""
          BY <5>2, Zenon DEF RunOK, Started
        <5>4. QED
          BY <5>1, <5>3, PhaseType
      <4>3. QED
        BY <4>1, <4>2
    <3>4. ASSUME NEW i \in 1 .. v
          PROVE  phases'[r][i] \notin Decided
      <4>1. i \in 1 .. s \/ i = v
        BY <1>2, <3>1
      <4>2. QED
        BY <1>2, <3>2, <3>3, <4>1
    <3>5. QED
      BY <1>4, <3>4, Zenon DEF Undecided
  <2>3. ~Reporting(r)' /\ (Answered(r)' => Answered(r))
    BY <1>2, <2>1 DEF Reporting, Answered
  <2>4. handler'[r].pc # "send"
    BY <2>3 DEF Reporting
  <2>5. QED
    BY <1>6, <2>2, <2>3, <2>4 DEF Told
<1>9. QED
  BY <1>7, <1>8

LEMMA ToldStep ==
  ASSUME TypeOK, [Next]_vars, NEW r \in Repos, History(r), RunOK(r), Told(r), RunStep(r)
  PROVE  Told(r)'
<1>1. Growth(r)
  BY PhasesMove
<1>2. CASE Get(r)
  <2>1. CASE Goto(r, "register")
    <3>1. wait'[r].pc = "register" /\ wait'[r].out = wait[r].out
      BY <2>1, GotoEffect DEF Early
    <3>2. QED
      BY <1>1, <1>2, <3>1, WaitTold DEF Get, Told
  <2>2. CASE wait' = [wait EXCEPT ![r] = [pc |-> "end", out |-> "found"]]
    <3>1. wait'[r].pc = "end" /\ wait'[r].out = "found"
      BY <2>2 DEF TypeOK
    <3>2. QED
      BY <1>1, <1>2, <3>1, WaitTold DEF Get, Told, Decided
  <2>3. QED
    BY <1>2, <2>1, <2>2 DEF Get, After
<1>3. CASE Register(r)
  <2>1. wait'[r].pc = "create" /\ wait'[r].out = wait[r].out
    BY <1>3, GotoEffect DEF Register, After, Early
  <2>2. QED
    BY <1>1, <1>3, <2>1, WaitTold DEF Register, Told
<1>4. CASE Create(r)
  <2>1. CASE Finish(r, "refused")
    <3>1. wait'[r].pc = "forget" /\ wait'[r].out = "refused"
      BY <2>1, FinishEffect DEF Outcome
    <3>2. QED
      BY <1>1, <1>4, <3>1, WaitTold DEF Create, Decided
  <2>2. CASE phases[r] = <<>> /\ Goto(r, "wait")
    <3>1. wait'[r].pc = "wait" /\ wait'[r].out = wait[r].out
      BY <2>2, GotoEffect
    <3>2. wait[r].out = ""
      BY <1>4 DEF Create, RunOK, Early
    <3>3. Undecided(r)
      <4>1. watch[r].seen \in Nat /\ watch[r].seen <= Len(phases[r])
        BY <1>1, SeenKept
      <4>2. Len(phases[r]) = 0
        BY <2>2, FirstPhase
      <4>3. 1 .. watch[r].seen = {}
        BY <4>1, <4>2
      <4>4. QED
        BY <4>3, Zenon DEF Undecided
    <3>4. QED
      BY <1>1, <1>4, <3>1, <3>2, <3>3, WaitTold DEF Create
  <2>3. QED
    BY <1>4, <2>1, <2>2 DEF Create, After
<1>5. CASE Receive(r)
  BY <1>1, <1>5, ReceiveTold
<1>6. CASE TimeOut(r)
  <2>1. wait'[r].pc = "forget" /\ wait'[r].out = "late"
    BY <1>6, FinishEffect DEF TimeOut, Outcome
  <2>2. QED
    BY <1>1, <1>6, <2>1, WaitTold DEF TimeOut, Decided
<1>7. CASE Forget(r) \/ Close(r)
  <2>1. wait'[r].pc \in {"close", "end"} /\ wait'[r].out = wait[r].out
    BY <1>7, GotoEffect DEF Forget, Close, Over
  <2>2. QED
    BY <1>1, <1>7, <2>1, WaitTold DEF Forget, Close, Told
<1>8. CASE Deliver(r)
  BY <1>8, DeliverTold
<1>9. CASE LookUp(r)
  BY <1>1, <1>9, LookUpTold
<1>10. QED
  BY <1>2, <1>3, <1>4, <1>5, <1>6, <1>7, <1>8, <1>9 DEF RunStep

LEMMA RunsStep ==
  ASSUME TypeOK, [Next]_vars, \A q \in Repos : History(q) /\ RunOK(q) /\ Told(q), NEW r \in Repos
  PROVE  RunOK(r)' /\ Told(r)'
<1>1. Growth(r)
  BY PhasesMove
<1>2. Untouched(r) => RunOK(r)' /\ Told(r)'
  BY <1>1, SameRunOK, SameTold
<1>3. ASSUME RunStep(r)
      PROVE  RunOK(r)' /\ Told(r)'
  BY <1>3, RunOKStep, ToldStep
<1>4. ASSUME NEW q \in Repos, RunStep(q), q # r
      PROVE  Untouched(r)
  BY <1>4, RestMoves
<1>5. ASSUME NEW q \in Repos, CrashStep(q) \/ WorldStep(q)
      PROVE  Untouched(r)
  BY <1>5 DEF CrashStep, Panic, Collide, WorldStep, Appear, Velero, Untouched
<1>6. ASSUME UNCHANGED vars
      PROVE  Untouched(r)
  BY <1>6 DEF vars, Untouched
<1>7. QED
  BY <1>2, <1>3, <1>4, <1>5, <1>6, NextSteps

-----------------------------------------------------------------------------
(* What brings the process down.                                           *)
LEMMA TwoMembers ==
  ASSUME NEW S, IsFiniteSet(S), NEW a \in S, NEW b \in S, a # b
  PROVE  Cardinality(S) > 1
<1>1. IsFiniteSet({a}) /\ Cardinality({a}) = 1
  BY FS_Singleton
<1>2. IsFiniteSet({a} \cup {b}) /\ Cardinality({a} \cup {b}) = Cardinality({a}) + 1
  BY <1>1, FS_AddElement
<1>3. {a} \cup {b} \subseteq S
  OBVIOUS
<1>4. Cardinality({a} \cup {b}) <= Cardinality(S)
  BY <1>3, FS_Subset
<1>5. Cardinality(S) \in Nat
  BY FS_CardinalityType
<1>6. QED
  BY <1>1, <1>2, <1>4, <1>5

Cause(r) ==
  /\ Changes(r) # {}
  /\ ~Own(r) \/ wait[r].out = "late" \/ Cardinality(Changes(r)) > 1

LEMMA TwoChangesCount ==
  ASSUME TypeOK, NEW r \in Repos, TwoChanges(r)
  PROVE  Cardinality(Changes(r)) > 1
<1>1. Len(phases[r]) \in Nat
  BY DEF TypeOK
<1>2. IsFiniteSet(2 .. Len(phases[r])) /\ Changes(r) \subseteq 2 .. Len(phases[r])
  BY <1>1, FS_Interval DEF Changes
<1>3. IsFiniteSet(Changes(r))
  BY <1>2, FS_Subset
<1>4. PICK b \in Changes(r) : \E c \in Changes(r) : b < c
  BY DEF TwoChanges
<1>5. PICK c \in Changes(r) : b < c
  BY <1>4
<1>6. b # c
  BY <1>2, <1>5
<1>7. QED
  BY <1>3, <1>6, TwoMembers

(* A report of a repository that the run does not wait for has a cause.    *)
LEMMA ReportsHaveCause ==
  ASSUME TypeOK, NEW r \in Repos, RunOK(r), Told(r), Reporting(r), wait[r].pc # "wait"
  PROVE  Cause(r)
<1>1. Changes(r) # {}
  BY DEF Told, SawChange
<1>2. CASE wait[r].pc \in Early
  BY <1>1, <1>2 DEF Cause, Own, Early
<1>3. CASE wait[r].pc \in Over
  <2>1. wait[r].out \in Decided \cup {"found", "late", "refused"}
    BY <1>3 DEF TypeOK, WaitRec, Outcome, RunOK, Over, Early
  <2>2. Answered(r) => Cardinality(Changes(r)) > 1
    BY TwoChangesCount DEF Told
  <2>3. QED
    BY <1>1, <2>1, <2>2 DEF Cause, Own, Answered
<1>4. QED
  BY <1>2, <1>3 DEF TypeOK, WaitRec

LEMMA CrashCause ==
  ASSUME IInv, NEW r \in Repos, CrashStep(r)
  PROVE  \E q \in Repos : Cause(q)
<1>1. TypeOK /\ \A q \in Repos : RunOK(q) /\ Told(q)
  BY DEF IInv
<1>2. CASE Panic(r)
  <2>1. Reporting(r) /\ wait[r].pc # "wait"
    BY <1>1, <1>2 DEF Panic, Reporting, RunOK
  <2>2. QED
    BY <1>1, <2>1, ReportsHaveCause
<1>3. ASSUME NEW q \in Repos, Collide(q, r)
      PROVE  Cause(q)
  <2>1. Reporting(q) /\ Busy(r) /\ wait[r].pc # "wait"
    BY <1>3 DEF Collide, Reporting, Busy
  <2>2. Busy(q) => q = r
    BY <2>1 DEF IInv, OneByOne
  <2>3. wait[q].pc # "wait"
    BY <2>1, <2>2 DEF Busy
  <2>4. QED
    BY <1>1, <2>1, <2>3, ReportsHaveCause
<1>4. QED
  BY <1>2, <1>3 DEF CrashStep

LEMMA CauseStep ==
  ASSUME IInv, [Next]_vars
  PROVE  CrashHasCause'
<1>1. CASE UNCHANGED vars
  BY <1>1 DEF vars, IInv, CrashHasCause, Own, Changes
<1>2. CASE ~UNCHANGED vars
  <2>1. ~crashed
    BY <1>2, NotCrashed
  <2>2. ASSUME NEW r \in Repos, CrashStep(r)
        PROVE  CrashHasCause'
    <3>1. PICK q \in Repos : Cause(q)
      BY <2>2, CrashCause
    <3>2. UNCHANGED <<wait, phases>>
      BY <2>2 DEF CrashStep, Panic, Collide
    <3>3. Cause(q)'
      BY <3>1, <3>2 DEF Cause, Own, Changes
    <3>4. QED
      BY <3>3 DEF Cause, CrashHasCause
  <2>3. ASSUME NEW r \in Repos, RunStep(r)
        PROVE  ~crashed'
    BY <2>1, <2>3, RestMoves DEF IInv
  <2>4. ASSUME NEW r \in Repos, WorldStep(r)
        PROVE  ~crashed'
    BY <2>1, <2>4 DEF WorldStep, Appear, Velero
  <2>5. QED
    BY <1>2, <2>2, <2>3, <2>4, NextSteps DEF CrashHasCause
<1>3. QED
  BY <1>1, <1>2

-----------------------------------------------------------------------------
LEMMA IInvInit == Init => IInv
<1> SUFFICES ASSUME Init PROVE IInv
  OBVIOUS
<1>1. TypeOK
  BY TypeInit
<1>2. ASSUME NEW r \in Repos
      PROVE  History(r) /\ RunOK(r) /\ Told(r)
  <2>1. handler[r].pc = "idle"
    BY PhaseType DEF Init
  <2>2. wait[r].pc = "get" /\ wait[r].out = "" /\ ~chan[r].listed
    BY DEF Init
  <2>3. watch[r].seen <= Len(phases[r])
    <3>1. watch[r].seen = Len(phases[r])
      BY DEF Init
    <3>2. Len(phases[r]) \in Nat
      BY <1>1 DEF TypeOK
    <3>3. QED
      BY <3>1, <3>2
  <2>4. RunOK(r)
    BY <2>2, <2>3 DEF RunOK, Early
  <2>5. Told(r)
    BY <2>1, <2>2, PhaseType DEF Told, Reporting, Answered
  <2>6. History(r)
    <3>1. Len(phases[r]) = 0 \/ Len(phases[r]) = 1
      <4>1. phases[r] \in {<<>>, <<"">>, <<"Ready">>, <<"NotReady">>}
        BY DEF Init
      <4>2. \A p \in Phase : Len(<<p>>) = 1
        OBVIOUS
      <4>3. QED
        BY <4>1, <4>2, FirstPhase DEF Phase, Decided
    <3>2. 2 .. Len(phases[r]) = {} /\ \A i, j \in 1 .. Len(phases[r]) : ~(i < j)
      BY <3>1, OneElement, Zenon
    <3>3. QED
      BY <3>2, Zenon DEF History
  <2>7. QED
    BY <2>4, <2>5, <2>6
<1>3. OneByOne
  BY DEF Init, OneByOne, Busy
<1>4. QED
  BY <1>1, <1>2, <1>3 DEF IInv, Init, CrashHasCause

(* The inductive invariant: the run is after one repository at a time; when*)
(* it waits, its channel is in place and it has missed no decision; every  *)
(* report that the handler makes is of a change of its own.                *)
THEOREM Invariance == Spec => []IInv
<1>1. IInv /\ [Next]_vars => IInv'
  <2> SUFFICES ASSUME IInv, [Next]_vars PROVE IInv'
    OBVIOUS
  <2>1. TypeOK' /\ OneByOne' /\ \A r \in Repos : History(r)'
    BY TypeStep, OneByOneStep, HistoryStep DEF IInv
  <2>2. \A r \in Repos : RunOK(r)' /\ Told(r)'
    BY RunsStep DEF IInv
  <2>3. CrashHasCause'
    BY CauseStep
  <2>4. QED
    BY <2>1, <2>2, <2>3 DEF IInv
<1>2. QED
  BY <1>1, IInvInit, PTL DEF Spec

(* EnsureRepo does not miss its answer: when the informer has seen every   *)
(* version of the repository that the run waits for one by one, and velero *)
(* has just decided, the handler is about to tell the run.                 *)
THEOREM AnswersArrive == Spec => []Notified
<1>1. IInv => Notified
  <2> SUFFICES ASSUME IInv, NEW r \in Repos, wait[r].pc = "wait", handler[r].pc = "idle",
                      ~watch[r].gap, watch[r].seen = Len(phases[r])
               PROVE  phases[r][Len(phases[r])] \notin Decided
    BY DEF Notified
  <2>1. Undecided(r) /\ phases[r] # <<>> /\ phases[r] \in Seq(Phase)
    BY DEF IInv, Told, RunOK, Started, Reporting, TypeOK
  <2>2. ASSUME NEW s \in Seq(Phase), s # <<>>
        PROVE  Len(s) \in 1 .. Len(s)
    BY <2>2
  <2>3. Len(phases[r]) \in 1 .. watch[r].seen
    BY <2>1, <2>2, Zenon
  <2>4. QED
    BY <2>1, <2>3, Zenon DEF Undecided
<1>2. QED
  BY <1>1, Invariance, PTL

(* A run does not bring the process down by its own repositories alone,    *)
(* however many it needs and whatever else the informer reports: it takes  *)
(* one whose phase changes and that is not the run's, as far as it knows,  *)
(* or that it was not told of in time, or that changes again.              *)
THEOREM CrashedWithCause == Spec => []CrashHasCause
<1>1. IInv => CrashHasCause
  BY DEF IInv
<1>2. QED
  BY <1>1, Invariance, PTL
=============================================================================
