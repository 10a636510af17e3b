--------------------------- MODULE PlatformProofs ---------------------------
(***************************************************************************)
(* Proofs about the components of MCPlatform, for every value of their     *)
(* constants: those of Startup and ApiObjects in full, those of            *)
(* Repositories and DbController from the proof modules of their own.      *)
(***************************************************************************)
EXTENDS MCPlatform, TLAPS

RP == INSTANCE RepositoriesProofs WITH Repos <- RepoNames
DP == INSTANCE DbControllerProofs WITH Dbs <- ServedDbs, server <- granted, cache <- dbCache,
                                       queued <- dbQueued, faults <- dbFaults

-----------------------------------------------------------------------------
(* Type correctness. A process that serves is past the last object.        *)
ObjectRec == [rev : Nat, right : BOOLEAN, kept : BOOLEAN]
ProcRec   == [pc : {"down", "read", "write", "serving"},
              at : 1 .. ST!Bsl + NumRepos + 1, read : [ST!Objects -> ObjectRec]]

StartTypes ==
  /\ server \in [ST!Objects -> ObjectRec] /\ keys \in BOOLEAN
  /\ proc \in [Processes -> ProcRec]
  /\ \A p \in Processes : proc[p].at \in ST!Objects <=> proc[p].pc # "serving"
  /\ startFaults \in Nat

(* An object is as it should be when it is there and right; of a location  *)
(* no more than the first is asked when the pods have no keys.             *)
Sound(k, x) == x # ST!Absent /\ (x.right \/ (k = ST!Bsl /\ ~keys))

(* What a start relies on: an object stays as it should be once it is, so  *)
(* what has been read of it still holds, and what has been passed too.     *)
Passed ==
  \A p \in Processes, k \in ST!Objects :
    /\ Sound(k, proc[p].read[k]) => Sound(k, server[k])
    /\ k < proc[p].at => Sound(k, server[k])

StartInv == StartTypes /\ Passed

LEMMA ObjectTypes ==
  /\ ST!Bsl \in Nat /\ ST!Bsl > 0 /\ ST!Bsl + NumRepos \in Nat
  /\ 1 \in ST!Objects /\ ST!Repos \subseteq ST!Objects
  /\ ST!Absent \in ObjectRec /\ \A k : ~Sound(k, ST!Absent)
  /\ keys \in BOOLEAN => \A k : ST!Created(k) \in ObjectRec /\ Sound(k, ST!Created(k))
  /\ \A x \in ObjectRec : \A k : ST!Better(x) \in ObjectRec /\ Sound(k, ST!Better(x))
<1>1. /\ ST!Bsl \in Nat /\ ST!Bsl > 0 /\ ST!Bsl + NumRepos \in Nat
      /\ 1 \in ST!Objects /\ ST!Repos \subseteq ST!Objects
  BY PlatformAssumption DEF ST!Bsl, ST!Objects, ST!Repos
<1>2. ST!Absent \in ObjectRec /\ \A k : ~Sound(k, ST!Absent)
  BY DEF ST!Absent, Sound, ObjectRec
<1>3. ASSUME keys \in BOOLEAN, NEW k
      PROVE  ST!Created(k) \in ObjectRec /\ Sound(k, ST!Created(k))
  <2> DEFINE right == k # ST!Bsl \/ keys
  <2>1. right \in BOOLEAN /\ (right \/ (k = ST!Bsl /\ ~keys))
    OBVIOUS
  <2>2. ST!Created(k) = [rev |-> 1, right |-> right, kept |-> FALSE]
    BY DEF ST!Created
  <2> HIDE DEF right
  <2>3. /\ ST!Created(k) \in ObjectRec /\ ST!Created(k) # ST!Absent
        /\ ST!Created(k).right = right
    BY <2>1, <2>2 DEF ST!Absent, ObjectRec
  <2>4. QED
    BY <2>1, <2>3 DEF Sound
<1>4. ASSUME NEW x \in ObjectRec, NEW k
      PROVE  ST!Better(x) \in ObjectRec /\ Sound(k, ST!Better(x))
  BY DEF ST!Better, ST!Absent, Sound, ObjectRec
<1>5. QED
  BY <1>1, <1>2, <1>3, <1>4

LEMMA DownType ==
  /\ ST!Down \in ProcRec /\ ST!Down.pc = "down" /\ ST!Down.at = 1 /\ 1 \in ST!Objects
  /\ \A k \in ST!Objects : ~Sound(k, ST!Down.read[k])
BY ObjectTypes DEF ST!Down, ProcRec

LEMMA StartInit ==
  ASSUME ST!Init
  PROVE  StartInv
<1> PICK here \in {{1}, {1, ST!Bsl}} :
       server = [k \in ST!Objects |-> IF k \in here \cup ST!Repos
                  THEN [rev |-> 1, right |-> FALSE, kept |-> ST!IsCrd(k)] ELSE ST!Absent]
  BY DEF ST!Init
<1>1. ASSUME NEW k \in ST!Objects
      PROVE  server[k] \in ObjectRec
  <2>1. [rev |-> 1, right |-> FALSE, kept |-> ST!IsCrd(k)] \in ObjectRec
    BY DEF ST!IsCrd, ObjectRec
  <2>2. QED
    BY <2>1, ObjectTypes
<1>2. server \in [ST!Objects -> ObjectRec]
  BY <1>1
<1>3. \A p \in Processes : proc[p] = ST!Down
  BY DEF ST!Init
<1>4. StartTypes
  BY <1>2, <1>3, DownType DEF ST!Init, StartTypes
<1>5. Passed
  BY <1>3, DownType DEF Passed, ST!Objects
<1>6. QED
  BY <1>4, <1>5 DEF StartInv

(* The state of one process and the objects decide the invariant.          *)
Fits(s, x) ==
  /\ x \in ProcRec
  /\ x.at \in ST!Objects <=> x.pc # "serving"
  /\ \A k \in ST!Objects :
       /\ Sound(k, x.read[k]) => Sound(k, s[k])
       /\ k < x.at => Sound(k, s[k])

LEMMA Pointwise ==
  StartInv <=> /\ server \in [ST!Objects -> ObjectRec] /\ keys \in BOOLEAN /\ startFaults \in Nat
               /\ proc = [p \in Processes |-> proc[p]]
               /\ \A p \in Processes : Fits(server, proc[p])
BY DEF StartInv, StartTypes, Passed, Fits

(* Objects that only get better keep what every process relies on.         *)
Improves(s, t) ==
  /\ t \in [ST!Objects -> ObjectRec]
  /\ \A k \in ST!Objects : Sound(k, s[k]) => Sound(k, t[k])

LEMMA StepOfOne ==
  ASSUME StartInv, UNCHANGED keys, Improves(server, server'), startFaults' \in Nat,
         NEW p \in Processes, NEW x, proc' = [proc EXCEPT ![p] = x], Fits(server', x)
  PROVE  StartInv'
<1>1. \A q \in Processes : Fits(server, proc[q]) => Fits(server', proc[q])
  BY DEF Improves, Fits
<1>2. \A q \in Processes : Fits(server', proc'[q])
  BY <1>1, Pointwise DEF StartInv, StartTypes
<1>3. proc' = [q \in Processes |-> proc'[q]]
  BY DEF StartInv, StartTypes
<1>4. StartTypes'
  BY <1>2, <1>3 DEF Improves, Fits, StartInv, StartTypes
<1>5. Passed'
  BY <1>2 DEF Passed, Fits, Sound
<1>6. QED
  BY <1>4, <1>5 DEF StartInv

LEMMA ExitStep ==
  ASSUME StartInv, UNCHANGED <<server, keys>>, startFaults' \in Nat,
         NEW p \in Processes, ST!Exit(p)
  PROVE  StartInv'
<1>1. Improves(server, server')
  BY DEF Improves, StartInv, StartTypes
<1>2. Fits(server', ST!Down)
  BY DownType DEF Fits, ST!Objects
<1>3. QED
  BY <1>1, <1>2, StepOfOne DEF ST!Exit

(* A start goes on past an object that is as it should be.                 *)
LEMMA PassStep ==
  ASSUME StartInv, UNCHANGED keys, Improves(server, server'), startFaults' \in Nat,
         NEW p \in Processes, proc[p].pc = "write", ST!Pass(p),
         Sound(proc[p].at, server'[proc[p].at])
  PROVE  StartInv'
<1> DEFINE c == IF proc[p].at = ST!Bsl + NumRepos THEN "serving"
                ELSE IF proc[p].at \in ST!Repos THEN "write" ELSE "read"
           x == [proc[p] EXCEPT !.at = proc[p].at + 1, !.pc = c]
<1>1. /\ proc[p] \in ProcRec /\ proc[p].at \in 1 .. ST!Bsl + NumRepos
      /\ Fits(server, proc[p])
  BY Pointwise DEF StartInv, StartTypes, ST!Objects
<1>2. ST!Bsl + NumRepos \in Nat
  BY ObjectTypes
<1>3. /\ x \in ProcRec /\ x.at = proc[p].at + 1 /\ x.read = proc[p].read
      /\ x.pc = "serving" <=> proc[p].at = ST!Bsl + NumRepos
  <2>1. /\ proc[p].at + 1 \in 1 .. ST!Bsl + NumRepos + 1
        /\ c \in {"down", "read", "write", "serving"}
        /\ c = "serving" <=> proc[p].at = ST!Bsl + NumRepos
    <3>1. proc[p].at \in Nat
      BY <1>1, <1>2
    <3>2. ASSUME NEW n \in Nat, n \in 1 .. ST!Bsl + NumRepos
          PROVE  n + 1 \in 1 .. ST!Bsl + NumRepos + 1
      BY <1>2, <3>2
    <3>3. QED
      BY <1>1, <3>1, <3>2
  <2> HIDE DEF c
  <2>2. QED
    BY <1>1, <2>1 DEF ProcRec
<1>4. x.at \in ST!Objects <=> x.pc # "serving"
  BY <1>1, <1>2, <1>3 DEF ST!Objects
<1>5. ASSUME NEW k \in ST!Objects
      PROVE  /\ Sound(k, x.read[k]) => Sound(k, server'[k])
             /\ k < x.at => Sound(k, server'[k])
  <2>1. Sound(k, x.read[k]) => Sound(k, server'[k])
    BY <1>1, <1>3 DEF Fits, Improves
  <2>2. k < x.at => k < proc[p].at \/ k = proc[p].at
    BY <1>1, <1>2, <1>3 DEF ST!Objects
  <2>3. QED
    BY <1>1, <2>1, <2>2 DEF Fits, Improves
<1>6. Fits(server', x)
  BY <1>3, <1>4, <1>5 DEF Fits
<1>7. proc' = [proc EXCEPT ![p] = x]
  BY DEF ST!Pass
<1>8. QED
  BY <1>6, <1>7, StepOfOne

LEMMA WriteStep ==
  ASSUME StartInv, NEW p \in Processes, ST!Write(p)
  PROVE  StartInv'
<1> DEFINE k == proc[p].at
<1>1. k \in ST!Objects /\ proc[p].read[k] \in ObjectRec /\ server[k] \in ObjectRec
  BY DEF ST!Write, StartInv, StartTypes, ProcRec
<1>2. startFaults' \in Nat /\ UNCHANGED keys
  BY DEF ST!Write, StartInv, StartTypes
<1>3. CASE UNCHANGED server /\ ST!Exit(p)
  BY <1>2, <1>3, ExitStep
<1>4. ASSUME NEW y \in {ST!Created(k), ST!Better(server[k])},
             server' = [server EXCEPT ![k] = y], ST!Pass(p)
      PROVE  StartInv'
  <2>1. y \in ObjectRec /\ Sound(k, y)
    BY <1>1, ObjectTypes DEF StartInv, StartTypes
  <2>2. Improves(server, server') /\ Sound(k, server'[k])
    BY <1>1, <1>4, <2>1 DEF Improves, StartInv, StartTypes
  <2>3. QED
    BY <1>2, <1>4, <2>2, PassStep DEF ST!Write
<1>5. QED
  BY <1>3, <1>4 DEF ST!Write

LEMMA ReadStep ==
  ASSUME StartInv, NEW p \in Processes, NEW r \in [ST!Objects -> ObjectRec],
         \A k \in ST!Objects : Sound(k, r[k]) => Sound(k, server[k]),
         UNCHANGED <<server, keys>>, startFaults' \in Nat, proc[p].pc = "read",
         proc' = [proc EXCEPT ![p] = [@ EXCEPT !.pc = "write", !.read = r]]
  PROVE  StartInv'
<1> DEFINE x == [proc[p] EXCEPT !.pc = "write", !.read = r]
<1>1. proc[p] \in ProcRec /\ proc[p].at \in ST!Objects
  BY DEF StartInv, StartTypes
<1>2. x \in ProcRec /\ x.pc = "write" /\ x.at = proc[p].at /\ x.read = r
  BY <1>1 DEF ProcRec
<1>3. Fits(server', x)
  BY <1>1, <1>2, Pointwise DEF Fits
<1>4. Improves(server, server')
  BY DEF Improves, StartInv, StartTypes
<1>5. QED
  BY <1>3, <1>4, StepOfOne

LEMMA StartStep ==
  ASSUME StartInv, NEW p \in Processes, ST!Start(p)
  PROVE  StartInv'
<1>1. proc[p] \in ProcRec
  BY DEF StartInv, StartTypes
<1>2. CASE ST!Boot(p)
  <2> DEFINE x == [proc[p] EXCEPT !.pc = "read"]
  <2>1. x \in ProcRec /\ x.pc = "read" /\ x.at = proc[p].at /\ x.read = proc[p].read
    BY <1>1 DEF ProcRec
  <2>2. Fits(server', x)
    BY <1>2, <2>1, Pointwise DEF ST!Boot, Fits
  <2>3. Improves(server, server') /\ startFaults' \in Nat /\ UNCHANGED keys
    BY <1>2 DEF ST!Boot, Improves, StartInv, StartTypes
  <2>4. QED
    BY <1>2, <2>2, <2>3, StepOfOne DEF ST!Boot, ST!Goto
<1>3. CASE ST!Read(p)
  <2> DEFINE k == proc[p].at
             got == IF k \in ST!Repos THEN ST!Repos ELSE {k}
             r == [i \in ST!Objects |-> IF i \in got THEN server[i] ELSE proc[p].read[i]]
  <2>1. /\ r \in [ST!Objects -> ObjectRec]
        /\ \A i \in ST!Objects : Sound(i, r[i]) => Sound(i, server[i])
    BY <1>1 DEF StartInv, StartTypes, Passed, ProcRec
  <2>2. /\ UNCHANGED <<server, keys>> /\ startFaults' \in Nat /\ proc[p].pc = "read"
        /\ proc' = [proc EXCEPT ![p] = [@ EXCEPT !.pc = "write", !.read = r]]
    BY <1>3 DEF ST!Read, StartInv, StartTypes
  <2> HIDE DEF r
  <2>3. QED
    BY <2>1, <2>2, ReadStep
<1>4. CASE ST!Write(p)
  BY <1>4, WriteStep
<1>5. CASE ST!LeaveAlone(p)
  <2> DEFINE k == proc[p].at
  <2>1. k \in ST!Objects /\ ST!InPlace(k, proc[p].read[k]) /\ proc[p].pc = "write"
    BY <1>5 DEF ST!LeaveAlone, StartInv, StartTypes
  <2>2. Sound(k, proc[p].read[k])
    BY <2>1 DEF ST!InPlace, ST!Absent, Sound
  <2>3. Improves(server, server') /\ startFaults' \in Nat /\ UNCHANGED keys
    BY <1>5 DEF ST!LeaveAlone, Improves, StartInv, StartTypes
  <2>4. Sound(k, server'[k])
    BY <1>5, <2>1, <2>2 DEF ST!LeaveAlone, StartInv, Passed
  <2>5. QED
    BY <1>5, <2>1, <2>3, <2>4, PassStep DEF ST!LeaveAlone
<1>6. QED
  BY <1>2, <1>3, <1>4, <1>5 DEF ST!Start

LEMMA SpendType ==
  ASSUME StartInv, ST!Spend
  PROVE  startFaults' \in Nat
BY PlatformAssumption DEF StartInv, StartTypes, ST!Spend

LEMMA StartInvStep ==
  ASSUME StartInv, [ST!Next]_(ST!vars)
  PROVE  StartInv'
<1>1. ASSUME NEW p \in Processes, ST!Start(p)
      PROVE  StartInv'
  BY <1>1, StartStep
<1>2. ASSUME NEW p \in Processes, ST!ReadFails(p)
      PROVE  StartInv'
  <2> DEFINE r == [proc[p].read EXCEPT ![proc[p].at] = ST!Absent]
  <2>1. UNCHANGED <<server, keys>> /\ startFaults' \in Nat /\ proc[p].pc = "read"
    BY <1>2, SpendType DEF ST!ReadFails
  <2>2. CASE ST!Exit(p)
    BY <2>1, <2>2, ExitStep
  <2>3. CASE ~ST!Exit(p)
    <3>1. proc[p] \in ProcRec
      BY DEF StartInv, StartTypes
    <3>2. /\ r \in [ST!Objects -> ObjectRec]
          /\ \A k \in ST!Objects : Sound(k, r[k]) => Sound(k, server[k])
      BY <3>1, ObjectTypes DEF ProcRec, StartInv, Passed
    <3>3. proc' = [proc EXCEPT ![p] = [@ EXCEPT !.pc = "write", !.read = r]]
      BY <1>2, <2>3 DEF ST!ReadFails
    <3> HIDE DEF r
    <3>4. QED
      BY <2>1, <3>2, <3>3, ReadStep
  <2>4. QED
    BY <2>2, <2>3
<1>3. ASSUME NEW p \in Processes, ST!Die(p)
      PROVE  StartInv'
  BY <1>3, SpendType, ExitStep DEF ST!Die
<1>4. ASSUME NEW k \in ST!Objects, ST!Touch(k)
      PROVE  StartInv'
  <2>1. server[k] \in ObjectRec /\ startFaults' \in Nat
    BY <1>4, SpendType DEF ST!Touch, StartInv, StartTypes
  <2>2. /\ [server[k] EXCEPT !.rev = @ + 1] \in ObjectRec
        /\ Sound(k, server[k]) => Sound(k, [server[k] EXCEPT !.rev = @ + 1])
    BY <2>1 DEF ObjectRec, Sound, ST!Absent
  <2>3. server' = [server EXCEPT ![k] = [server[k] EXCEPT !.rev = @ + 1]]
    BY <1>4 DEF ST!Touch
  <2>4. /\ server' \in [ST!Objects -> ObjectRec]
        /\ \A i \in ST!Objects : Sound(i, server[i]) => Sound(i, server'[i])
    BY <2>2, <2>3 DEF StartInv, StartTypes
  <2>5. QED
    BY <1>4, <2>1, <2>4 DEF ST!Touch, StartInv, StartTypes, Passed, Sound
<1>5. CASE UNCHANGED ST!vars
  BY <1>5 DEF ST!vars, StartInv, StartTypes, Passed, Sound
<1>6. QED
  BY <1>1, <1>2, <1>3, <1>4, <1>5 DEF ST!Next

-----------------------------------------------------------------------------
(* Objects and their deep copies. The tables of ApiObjects, merged, keep   *)
(* their rows, for no two have one in common.                              *)
LEMMA MergedRows ==
  ASSUME NEW T, NEW x \in T, NEW t \in DOMAIN x, \A y \in T : t \in DOMAIN y => y = x
  PROVE  t \in DOMAIN AO!Merged(T) /\ AO!Merged(T)[t] = x[t]
<1>1. t \in UNION {DOMAIN y : y \in T}
  OBVIOUS
<1>2. (CHOOSE y \in T : t \in DOMAIN y) = x
  OBVIOUS
<1>3. QED
  BY <1>1, <1>2 DEF AO!Merged

TypeTables ==
  {AO!LibraryTypes, AO!BackupTypes, AO!RestoreTypes, AO!DbBackupTypes, AO!DbRestoreTypes,
   AO!DeleteBackupRequestTypes, AO!DbTypes, AO!DbServiceTypes, AO!GlobalDBTypes, AO!AccountTypes}

CopyTables ==
  {AO!CopiesLibrary, AO!CopiesAccount, AO!CopiesBackup, AO!CopiesDbBackup, AO!CopiesDbRestore,
   AO!CopiesDbService, AO!CopiesDb, AO!CopiesDeleteBackupRequest, AO!CopiesGlobalDB,
   AO!CopiesRestore, AO!CopiesValueSource}

LEMMA TypeRows ==
  /\ DOMAIN AO!LibraryTypes = {"leaf", "ObjectMeta"}
  /\ DOMAIN AO!BackupTypes = {"Backup", "BackupList", "BackupSpec", "BackupStatus", "Archive",
                              "DbRef"}
  /\ DOMAIN AO!RestoreTypes = {"Restore", "RestoreList", "RestoreSpec", "RestoreStatus"}
  /\ DOMAIN AO!DbBackupTypes = {"DbBackup", "DbBackupList", "DbBackupSpec", "DbBackupStatus"}
  /\ DOMAIN AO!DbRestoreTypes = {"DbRestore", "DbRestoreList", "DbRestoreSpec", "DbRestoreStatus"}
  /\ DOMAIN AO!DeleteBackupRequestTypes = {"DeleteBackupRequest", "DeleteBackupRequestList",
                                           "DeleteBackupRequestSpec", "DeleteBackupRequestStatus"}
  /\ DOMAIN AO!DbTypes = {"Db", "DbList", "DbSpec", "DbStatus"}
  /\ DOMAIN AO!DbServiceTypes = {"DbService", "DbServiceList", "DbServiceSpec", "DbServiceStatus"}
  /\ DOMAIN AO!GlobalDBTypes = {"GlobalDB", "GlobalDBList", "GlobalDBSpec", "GlobalDBStatus"}
  /\ DOMAIN AO!AccountTypes = {"Account", "AccountUser", "AccountPassword", "ValueSource"}
BY DEF AO!LibraryTypes, AO!BackupTypes, AO!RestoreTypes, AO!DbBackupTypes, AO!DbRestoreTypes,
       AO!DeleteBackupRequestTypes, AO!DbTypes, AO!DbServiceTypes, AO!GlobalDBTypes,
       AO!AccountTypes

LEMMA CopyRows ==
  /\ DOMAIN AO!CopiesLibrary = {"leaf", "ObjectMeta"}
  /\ DOMAIN AO!CopiesAccount = {"Account", "AccountPassword", "AccountUser", "Archive"}
  /\ DOMAIN AO!CopiesBackup = {"Backup", "BackupList", "BackupSpec", "BackupStatus"}
  /\ DOMAIN AO!CopiesDbBackup = {"Db", "DbBackup", "DbBackupList", "DbBackupSpec",
                                 "DbBackupStatus"}
  /\ DOMAIN AO!CopiesDbRestore = {"DbList", "DbRef", "DbRestore", "DbRestoreList",
                                  "DbRestoreSpec", "DbRestoreStatus"}
  /\ DOMAIN AO!CopiesDbService = {"DbService", "DbServiceList", "DbServiceSpec",
                                  "DbServiceStatus"}
  /\ DOMAIN AO!CopiesDb = {"DbSpec", "DbStatus"}
  /\ DOMAIN AO!CopiesDeleteBackupRequest = {"DeleteBackupRequest", "DeleteBackupRequestList",
                                            "DeleteBackupRequestSpec",
                                            "DeleteBackupRequestStatus"}
  /\ DOMAIN AO!CopiesGlobalDB = {"GlobalDB", "GlobalDBList", "GlobalDBSpec", "GlobalDBStatus"}
  /\ DOMAIN AO!CopiesRestore = {"Restore", "RestoreList", "RestoreSpec", "RestoreStatus"}
  /\ DOMAIN AO!CopiesValueSource = {"ValueSource"}
BY DEF AO!CopiesLibrary, AO!CopiesAccount, AO!CopiesBackup, AO!CopiesDbBackup, AO!CopiesDbRestore,
       AO!CopiesDbService, AO!CopiesDb, AO!CopiesDeleteBackupRequest, AO!CopiesGlobalDB,
       AO!CopiesRestore, AO!CopiesValueSource

(* The types and what is copied of them, one by one.                       *)
LEMMA TypeFields ==
  /\ AO!Types["leaf"] = {}
  /\ AO!Types["ObjectMeta"] = AO!Refs({"Labels", "Annotations"})
  /\ AO!Types["Backup"] = AO!Object("BackupSpec", "BackupStatus")
  /\ AO!Types["BackupList"] = AO!List("Backup")
  /\ AO!Types["BackupSpec"] = AO!Refs({"Selector"})
  /\ AO!Types["BackupStatus"] = AO!Refs(AO!Times) \cup {AO!Field("Archives", TRUE, "Archive")}
  /\ AO!Types["Archive"] = {AO!Field("DbRef", TRUE, "DbRef")}
  /\ AO!Types["DbRef"] = {}
  /\ AO!Types["Restore"] = AO!Object("RestoreSpec", "RestoreStatus")
  /\ AO!Types["RestoreList"] = AO!List("Restore")
  /\ AO!Types["RestoreSpec"] = {}
  /\ AO!Types["RestoreStatus"] = AO!Refs(AO!Times)
  /\ AO!Types["DbBackup"] = AO!Object("DbBackupSpec", "DbBackupStatus")
  /\ AO!Types["DbBackupList"] = AO!List("DbBackup")
  /\ AO!Types["DbBackupSpec"] = {}
  /\ AO!Types["DbBackupStatus"] = AO!Refs(AO!Times \cup {"Size"})
  /\ AO!Types["DbRestore"] = AO!Object("DbRestoreSpec", "DbRestoreStatus")
  /\ AO!Types["DbRestoreList"] = AO!List("DbRestore")
  /\ AO!Types["DbRestoreSpec"] = {}
  /\ AO!Types["DbRestoreStatus"] = AO!Refs(AO!Times)
  /\ AO!Types["DeleteBackupRequest"] =
       AO!Object("DeleteBackupRequestSpec", "DeleteBackupRequestStatus")
  /\ AO!Types["DeleteBackupRequestList"] = AO!List("DeleteBackupRequest")
  /\ AO!Types["DeleteBackupRequestSpec"] = {}
  /\ AO!Types["DeleteBackupRequestStatus"] = AO!Refs(AO!Times)
  /\ AO!Types["Db"] = AO!Object("DbSpec", "DbStatus")
  /\ AO!Types["DbList"] = AO!List("Db")
  /\ AO!Types["DbSpec"] =
       AO!Refs({"Config", "ReclaimPolicy"}) \cup {AO!Field("Account", FALSE, "Account")}
  /\ AO!Types["DbStatus"] = AO!Refs({"Network", "Auth", "Ready"})
  /\ AO!Types["DbService"] = AO!Object("DbServiceSpec", "DbServiceStatus")
  /\ AO!Types["DbServiceList"] = AO!List("DbService")
  /\ AO!Types["DbServiceSpec"] = {AO!Field("Account", FALSE, "Account")}
  /\ AO!Types["DbServiceStatus"] = AO!Refs({"Network", "Auth", "Ready", "Global"})
  /\ AO!Types["GlobalDB"] = AO!Object("GlobalDBSpec", "GlobalDBStatus")
  /\ AO!Types["GlobalDBList"] = AO!List("GlobalDB")
  /\ AO!Types["GlobalDBSpec"] = {}
  /\ AO!Types["GlobalDBStatus"] = {}
  /\ AO!Types["Account"] =
       {AO!Field("User", FALSE, "AccountUser"), AO!Field("Password", FALSE, "AccountPassword")}
  /\ AO!Types["AccountUser"] = {AO!Field("ValueFrom", TRUE, "ValueSource")}
  /\ AO!Types["AccountPassword"] = {AO!Field("ValueFrom", TRUE, "ValueSource")}
  /\ AO!Types["ValueSource"] = AO!Refs({"ConfigMapKeyRef", "SecretKeyRef"})
<1>1. ASSUME NEW x \in TypeTables, NEW t \in DOMAIN x
      PROVE  AO!Types[t] = x[t]
  <2>1. \A y \in TypeTables : t \in DOMAIN y => y = x
    BY TypeRows DEF TypeTables
  <2>2. AO!Types = AO!Merged(TypeTables)
    BY DEF AO!Types, TypeTables
  <2>3. QED
    BY <2>1, <2>2, MergedRows
<1>2. /\ \A t \in DOMAIN AO!LibraryTypes : AO!Types[t] = AO!LibraryTypes[t]
      /\ \A t \in DOMAIN AO!BackupTypes : AO!Types[t] = AO!BackupTypes[t]
      /\ \A t \in DOMAIN AO!RestoreTypes : AO!Types[t] = AO!RestoreTypes[t]
      /\ \A t \in DOMAIN AO!DbBackupTypes : AO!Types[t] = AO!DbBackupTypes[t]
      /\ \A t \in DOMAIN AO!DbRestoreTypes : AO!Types[t] = AO!DbRestoreTypes[t]
      /\ \A t \in DOMAIN AO!DeleteBackupRequestTypes : AO!Types[t] = AO!DeleteBackupRequestTypes[t]
      /\ \A t \in DOMAIN AO!DbTypes : AO!Types[t] = AO!DbTypes[t]
      /\ \A t \in DOMAIN AO!DbServiceTypes : AO!Types[t] = AO!DbServiceTypes[t]
      /\ \A t \in DOMAIN AO!GlobalDBTypes : AO!Types[t] = AO!GlobalDBTypes[t]
      /\ \A t \in DOMAIN AO!AccountTypes : AO!Types[t] = AO!AccountTypes[t]
  BY <1>1 DEF TypeTables
<1>3. QED
  BY <1>2, TypeRows DEF AO!LibraryTypes, AO!BackupTypes, AO!RestoreTypes, AO!DbBackupTypes,
                        AO!DbRestoreTypes, AO!DeleteBackupRequestTypes, AO!DbTypes,
                        AO!DbServiceTypes, AO!GlobalDBTypes, AO!AccountTypes

LEMMA CopiedFields ==
  /\ AO!Copied["leaf"] = {}
  /\ AO!Copied["ObjectMeta"] = {"Labels", "Annotations"}
  /\ AO!Copied["Account"] = {"User", "Password"}
  /\ AO!Copied["AccountPassword"] = {"ValueFrom"}
  /\ AO!Copied["AccountUser"] = {"ValueFrom"}
  /\ AO!Copied["Archive"] = {"DbRef"}
  /\ AO!Copied["Backup"] = {"ObjectMeta", "Spec", "Status"}
  /\ AO!Copied["BackupList"] = {"Items"}
  /\ AO!Copied["BackupSpec"] = {"Selector"}
  /\ AO!Copied["BackupStatus"] = AO!Times \cup {"Archives"}
  /\ AO!Copied["Db"] = {"ObjectMeta", "Spec", "Status"}
  /\ AO!Copied["DbBackup"] = {"ObjectMeta", "Status"}
  /\ AO!Copied["DbBackupList"] = {"Items"}
  /\ AO!Copied["DbBackupSpec"] = {}
  /\ AO!Copied["DbBackupStatus"] = AO!Times \cup {"Size"}
  /\ AO!Copied["DbList"] = {"Items"}
  /\ AO!Copied["DbRef"] = {}
  /\ AO!Copied["DbRestore"] = {"ObjectMeta", "Status"}
  /\ AO!Copied["DbRestoreList"] = {"Items"}
  /\ AO!Copied["DbRestoreSpec"] = {}
  /\ AO!Copied["DbRestoreStatus"] = AO!Times
  /\ AO!Copied["DbService"] = {"ObjectMeta", "Spec", "Status"}
  /\ AO!Copied["DbServiceList"] = {"Items"}
  /\ AO!Copied["DbServiceSpec"] = {"Account"}
  /\ AO!Copied["DbServiceStatus"] = {"Network", "Auth", "Ready", "Global"}
  /\ AO!Copied["DbSpec"] = {"Account", "Config", "ReclaimPolicy"}
  /\ AO!Copied["DbStatus"] = {"Network", "Auth", "Ready"}
  /\ AO!Copied["DeleteBackupRequest"] = {"ObjectMeta"}
  /\ AO!Copied["DeleteBackupRequestList"] = {"Items"}
  /\ AO!Copied["DeleteBackupRequestSpec"] = {}
  /\ AO!Copied["DeleteBackupRequestStatus"] = {}
  /\ AO!Copied["GlobalDB"] = {"ObjectMeta"}
  /\ AO!Copied["GlobalDBList"] = {"Items"}
  /\ AO!Copied["GlobalDBSpec"] = {}
  /\ AO!Copied["GlobalDBStatus"] = {}
  /\ AO!Copied["Restore"] = {"ObjectMeta", "Status"}
  /\ AO!Copied["RestoreList"] = {"Items"}
  /\ AO!Copied["RestoreSpec"] = {}
  /\ AO!Copied["RestoreStatus"] = AO!Times
  /\ AO!Copied["ValueSource"] = {"ConfigMapKeyRef", "SecretKeyRef"}
<1>1. ASSUME NEW x \in CopyTables, NEW t \in DOMAIN x
      PROVE  AO!Copied[t] = x[t]
  <2>1. \A y \in CopyTables : t \in DOMAIN y => y = x
    BY CopyRows DEF CopyTables
  <2>2. AO!Copied = AO!Merged(CopyTables)
    BY DEF AO!Copied, CopyTables
  <2>3. QED
    BY <2>1, <2>2, MergedRows
<1>2. /\ \A t \in DOMAIN AO!CopiesLibrary : AO!Copied[t] = AO!CopiesLibrary[t]
      /\ \A t \in DOMAIN AO!CopiesAccount : AO!Copied[t] = AO!CopiesAccount[t]
      /\ \A t \in DOMAIN AO!CopiesBackup : AO!Copied[t] = AO!CopiesBackup[t]
      /\ \A t \in DOMAIN AO!CopiesDbBackup : AO!Copied[t] = AO!CopiesDbBackup[t]
      /\ \A t \in DOMAIN AO!CopiesDbRestore : AO!Copied[t] = AO!CopiesDbRestore[t]
      /\ \A t \in DOMAIN AO!CopiesDbService : AO!Copied[t] = AO!CopiesDbService[t]
      /\ \A t \in DOMAIN AO!CopiesDb : AO!Copied[t] = AO!CopiesDb[t]
      /\ \A t \in DOMAIN AO!CopiesDeleteBackupRequest :
           AO!Copied[t] = AO!CopiesDeleteBackupRequest[t]
      /\ \A t \in DOMAIN AO!CopiesGlobalDB : AO!Copied[t] = AO!CopiesGlobalDB[t]
      /\ \A t \in DOMAIN AO!CopiesRestore : AO!Copied[t] = AO!CopiesRestore[t]
      /\ \A t \in DOMAIN AO!CopiesValueSource : AO!Copied[t] = AO!CopiesValueSource[t]
  BY <1>1 DEF CopyTables
<1>3. QED
  BY <1>2, CopyRows DEF AO!CopiesLibrary, AO!CopiesAccount, AO!CopiesBackup, AO!CopiesDbBackup,
                        AO!CopiesDbRestore, AO!CopiesDbService, AO!CopiesDb,
                        AO!CopiesDeleteBackupRequest, AO!CopiesGlobalDB, AO!CopiesRestore,
                        AO!CopiesValueSource

(* Types nest seven deep: those of Depth1 hold nothing, the others only    *)
(* what is not as deep as themselves. So the recursion over the fields of  *)
(* a type ends.                                                            *)
Depth1 == {"leaf", "DbRef", "RestoreSpec", "DbBackupSpec", "DbRestoreSpec",
           "DeleteBackupRequestSpec", "GlobalDBSpec", "GlobalDBStatus"}
Depth2 == {"ObjectMeta", "BackupSpec", "Archive", "RestoreStatus", "DbBackupStatus",
           "DbRestoreStatus", "DeleteBackupRequestStatus", "DbStatus", "DbServiceStatus",
           "ValueSource"}
Depth3 == {"BackupStatus", "AccountUser", "AccountPassword", "Restore", "DbBackup",
           "DbRestore", "DeleteBackupRequest", "GlobalDB"}
Depth4 == {"Backup", "Account", "RestoreList", "DbBackupList", "DbRestoreList",
           "DeleteBackupRequestList", "GlobalDBList"}
Depth5 == {"BackupList", "DbSpec", "DbServiceSpec"}
Depth6 == {"Db", "DbService"}
Depth7 == {"DbList", "DbServiceList"}

Upto2 == Depth1 \cup Depth2
Upto3 == Upto2 \cup Depth3
Upto4 == Upto3 \cup Depth4
Upto5 == Upto4 \cup Depth5
Upto6 == Upto5 \cup Depth6
Upto7 == Upto6 \cup Depth7

LEMMA AllDepths == DOMAIN AO!Types = Upto7
<1>1. DOMAIN AO!Types = UNION {DOMAIN x : x \in TypeTables}
  BY DEF AO!Types, TypeTables, AO!Merged
<1>2. QED
  BY <1>1, TypeRows DEF TypeTables, Depth1, Depth2, Depth3, Depth4, Depth5, Depth6, Depth7, Upto2,
                        Upto3, Upto4, Upto5, Upto6, Upto7

Over(S) == {t \in DOMAIN AO!Types : \A f \in AO!Types[t] : f.type \in S}

LEMMA Nesting ==
  /\ Depth1 \subseteq Over({})
  /\ Upto2 \subseteq Over(Depth1)
  /\ Upto3 \subseteq Over(Upto2)
  /\ Upto4 \subseteq Over(Upto3)
  /\ Upto5 \subseteq Over(Upto4)
  /\ Upto6 \subseteq Over(Upto5)
  /\ Upto7 \subseteq Over(Upto6)
<1> USE AllDepths, TypeFields
    DEF Over, AO!Field, AO!Refs, AO!Object, AO!List, AO!Times, Depth1, Depth2, Depth3, Depth4,
        Depth5, Depth6, Depth7, Upto2, Upto3, Upto4, Upto5, Upto6, Upto7
<1>1. Depth1 \subseteq Over({})
  OBVIOUS
<1>2. Depth2 \subseteq Over(Depth1)
  OBVIOUS
<1>3. Depth3 \subseteq Over(Upto2)
  OBVIOUS
<1>4. Depth4 \subseteq Over(Upto3)
  OBVIOUS
<1>5. Depth5 \subseteq Over(Upto4)
  OBVIOUS
<1>6. Depth6 \subseteq Over(Upto5)
  OBVIOUS
<1>7. Depth7 \subseteq Over(Upto6)
  OBVIOUS
<1>8. QED
  BY ONLY <1>1, <1>2, <1>3, <1>4, <1>5, <1>6, <1>7
     DEF Over, Upto2, Upto3, Upto4, Upto5, Upto6, Upto7

(* A definition of a set of paths by recursion over the fields of a type   *)
(* has a solution: what it gives for a type, applied seven times, does not *)
(* change any more.                                                        *)
LEMMA RecursionOnTypes ==
  ASSUME NEW own, NEW deep, \A t \in DOMAIN AO!Types : deep[t] \subseteq AO!Types[t]
  PROVE  \E g : /\ g = [t \in DOMAIN AO!Types |-> g[t]]
                /\ \A t \in DOMAIN AO!Types : \A p :
                     p \in g[t] <=> p \in own[t] \/ \E f \in deep[t] : p \in AO!Below(f, g[f.type])
<1> DEFINE F(g) == [t \in DOMAIN AO!Types |->
                     own[t] \cup UNION {AO!Below(f, g[f.type]) : f \in deep[t]}]
           Same(S, g, h) == \A t \in S : g[t] = h[t]
           g1 == F(own)
           g2 == F(g1)
           g3 == F(g2)
           g4 == F(g3)
           g5 == F(g4)
           g6 == F(g5)
           g7 == F(g6)
           g8 == F(g7)
<1>a. ASSUME NEW S, NEW g, NEW h, Same(S, g, h)
      PROVE  Same(Over(S), F(g), F(h))
  <2>1. ASSUME NEW t \in Over(S)
        PROVE  F(g)[t] = F(h)[t]
    <3>1. t \in DOMAIN AO!Types /\ \A f \in deep[t] : g[f.type] = h[f.type]
      BY <1>a DEF Over
    <3>2. QED
      BY <3>1
  <2>2. QED
    BY <2>1
<1> HIDE DEF F
<1>1. Same(Depth1, g1, g2)
  BY <1>a, Nesting
<1>2. Same(Upto2, g2, g3)
  BY <1>a, <1>1, Nesting
<1>3. Same(Upto3, g3, g4)
  BY <1>a, <1>2, Nesting
<1>4. Same(Upto4, g4, g5)
  BY <1>a, <1>3, Nesting
<1>5. Same(Upto5, g5, g6)
  BY <1>a, <1>4, Nesting
<1>6. Same(Upto6, g6, g7)
  BY <1>a, <1>5, Nesting
<1>7. Same(Upto7, g7, g8)
  BY <1>a, <1>6, Nesting
<1>8. g7 = F(g7)
  BY <1>7, AllDepths DEF F
<1> HIDE DEF g7
<1>9. g7 = [t \in DOMAIN AO!Types |-> g7[t]]
  BY <1>8 DEF F
<1>10. ASSUME NEW g, NEW t \in DOMAIN AO!Types, NEW p
       PROVE  p \in F(g)[t] <=> p \in own[t] \/ \E f \in deep[t] : p \in AO!Below(f, g[f.type])
  <2>1. F(g)[t] = own[t] \cup UNION {AO!Below(f, g[f.type]) : f \in deep[t]}
    BY DEF F
  <2>2. QED
    BY <2>1
<1>11. \A t \in DOMAIN AO!Types : \A p :
         p \in g7[t] <=> p \in own[t] \/ \E f \in deep[t] : p \in AO!Below(f, g7[f.type])
  BY <1>8, <1>10
<1>12. QED
  BY <1>9, <1>11

(* So Cells and Shared are what their definitions say.                     *)
LEMMA CellsOf ==
  \A t \in DOMAIN AO!Types :
    AO!Cells[t] = UNION {AO!Itself(f) \cup AO!Below(f, AO!Cells[f.type]) : f \in AO!Types[t]}
<1> DEFINE G(g) == [t \in DOMAIN AO!Types |->
                     UNION {AO!Itself(f) \cup AO!Below(f, g[f.type]) : f \in AO!Types[t]}]
           own == [t \in DOMAIN AO!Types |-> UNION {AO!Itself(f) : f \in AO!Types[t]}]
<1>1. PICK g : /\ g = [t \in DOMAIN AO!Types |-> g[t]]
               /\ \A t \in DOMAIN AO!Types : \A p :
                    p \in g[t] <=> \/ p \in own[t]
                                   \/ \E f \in AO!Types[t] : p \in AO!Below(f, g[f.type])
  <2> HIDE DEF own
  <2>1. \A t \in DOMAIN AO!Types : AO!Types[t] \subseteq AO!Types[t]
    OBVIOUS
  <2>2. QED
    BY <2>1, RecursionOnTypes
<1>2. ASSUME NEW t \in DOMAIN AO!Types
      PROVE  g[t] = G(g)[t]
  <2> DEFINE In(p, f) == p \in AO!Itself(f) \/ p \in AO!Below(f, g[f.type])
  <2>1. \A p : p \in g[t] <=> \E f \in AO!Types[t] : In(p, f)
    BY <1>1
  <2>2. \A p : p \in G(g)[t] <=> \E f \in AO!Types[t] : In(p, f)
    OBVIOUS
  <2> HIDE DEF G, In
  <2>3. QED
    BY <2>1, <2>2
<1>3. g = G(g)
  BY <1>1, <1>2
<1>4. AO!Cells = CHOOSE h : h = G(h)
  BY DEF AO!Cells
<1> HIDE DEF G
<1>5. AO!Cells = G(AO!Cells)
  BY <1>3, <1>4
<1>6. QED
  BY <1>5 DEF G

Clones(t) == {f \in AO!Types[t] : f.name \in AO!Copied[t]}

LEMMA SharedOf ==
  \A t \in DOMAIN AO!Types :
    AO!Shared[t] =
      UNION {IF f.name \in AO!Copied[t] THEN AO!Below(f, AO!Shared[f.type])
             ELSE AO!Itself(f) \cup AO!Below(f, AO!Cells[f.type]) : f \in AO!Types[t]}
<1> DEFINE G(g) == [t \in DOMAIN AO!Types |->
                     UNION {IF f.name \in AO!Copied[t] THEN AO!Below(f, g[f.type])
                            ELSE AO!Itself(f) \cup AO!Below(f, AO!Cells[f.type])
                              : f \in AO!Types[t]}]
           own == [t \in DOMAIN AO!Types |->
                     UNION {AO!Itself(f) \cup AO!Below(f, AO!Cells[f.type])
                              : f \in AO!Types[t] \ Clones(t)}]
           deep == [t \in DOMAIN AO!Types |-> Clones(t)]
<1>1. PICK g : /\ g = [t \in DOMAIN AO!Types |-> g[t]]
               /\ \A t \in DOMAIN AO!Types : \A p :
                    p \in g[t] <=> p \in own[t] \/ \E f \in deep[t] : p \in AO!Below(f, g[f.type])
  <2>1. \A t \in DOMAIN AO!Types : deep[t] \subseteq AO!Types[t]
    BY DEF Clones
  <2> HIDE DEF own, deep
  <2>2. QED
    BY <2>1, RecursionOnTypes
<1>2. ASSUME NEW t \in DOMAIN AO!Types
      PROVE  g[t] = G(g)[t]
  <2> DEFINE In(p, f) == IF f.name \in AO!Copied[t] THEN p \in AO!Below(f, g[f.type])
                         ELSE p \in AO!Itself(f) \/ p \in AO!Below(f, AO!Cells[f.type])
  <2>1. \A p : p \in g[t] <=> \E f \in AO!Types[t] : In(p, f)
    BY <1>1 DEF Clones
  <2>2. \A p : p \in G(g)[t] <=> \E f \in AO!Types[t] : In(p, f)
    OBVIOUS
  <2> HIDE DEF G, In
  <2>3. QED
    BY <2>1, <2>2
<1>3. g = G(g)
  BY <1>1, <1>2
<1>4. AO!Shared = CHOOSE h : h = G(h)
  BY DEF AO!Shared
<1> HIDE DEF G
<1>5. AO!Shared = G(AO!Shared)
  BY <1>3, <1>4
<1>6. QED
  BY <1>5 DEF G

(* The types of whose copies nothing is shared: all of them but those of   *)
(* DeleteBackupRequest whose copies were not generated anew.               *)
Clean ==
  DOMAIN AO!Types \ {"DeleteBackupRequest", "DeleteBackupRequestList", "DeleteBackupRequestStatus"}

LEMMA CleanFields ==
  \A t \in Clean : \A f \in AO!Types[t] :
    IF f.name \in AO!Copied[t] THEN f.type \in Clean ELSE ~f.ref /\ f.type \in Depth1
<1> DEFINE Fine(t) == \A f \in AO!Types[t] :
             IF f.name \in AO!Copied[t] THEN f.type \in Clean ELSE ~f.ref /\ f.type \in Depth1
<1>1. \A t \in Clean : Fine(t)
  <2> USE TypeFields, CopiedFields, AllDepths
      DEF Clean, AO!Field, AO!Refs, AO!Object, AO!List, AO!Times, Depth1, Depth2, Depth3,
          Depth4, Depth5, Depth6, Depth7, Upto2, Upto3, Upto4, Upto5, Upto6, Upto7
  <2>1. \A t \in Depth1 \cap Clean : Fine(t)
    OBVIOUS
  <2>2. \A t \in Depth2 \cap Clean : Fine(t)
    OBVIOUS
  <2>3. \A t \in Depth3 \cap Clean : Fine(t)
    OBVIOUS
  <2>4. \A t \in Depth4 \cap Clean : Fine(t)
    OBVIOUS
  <2>5. \A t \in Depth5 \cap Clean : Fine(t)
    OBVIOUS
  <2>6. \A t \in Depth6 \cap Clean : Fine(t)
    OBVIOUS
  <2>7. \A t \in Depth7 \cap Clean : Fine(t)
    OBVIOUS
  <2> HIDE DEF Fine
  <2>8. QED
    BY ONLY <2>1, <2>2, <2>3, <2>4, <2>5, <2>6, <2>7, AllDepths
       DEF Clean, Upto2, Upto3, Upto4, Upto5, Upto6, Upto7
<1>2. QED
  BY <1>1

(* A type of Depth1 has no references below it.                            *)
LEMMA NoCells == \A t \in Depth1 : AO!Cells[t] = {}
BY CellsOf, Nesting, AllDepths DEF Over

(* Depth by depth: the copies of these types share nothing.                *)
LEMMA NothingShared == \A t \in Clean : AO!Shared[t] = {}
<1>1. ASSUME NEW S, \A t \in S \cap Clean : AO!Shared[t] = {}
      PROVE  \A t \in Over(S) \cap Clean : AO!Shared[t] = {}
  <2>1. ASSUME NEW t \in Over(S) \cap Clean, NEW f \in AO!Types[t]
        PROVE  (IF f.name \in AO!Copied[t] THEN AO!Below(f, AO!Shared[f.type])
                ELSE AO!Itself(f) \cup AO!Below(f, AO!Cells[f.type])) = {}
    <3>1. CASE f.name \in AO!Copied[t]
      <4>1. AO!Shared[f.type] = {}
        BY <1>1, <2>1, <3>1, CleanFields DEF Over
      <4>2. QED
        BY <3>1, <4>1 DEF AO!Below
    <3>2. CASE f.name \notin AO!Copied[t]
      <4>1. ~f.ref /\ AO!Cells[f.type] = {}
        BY <3>2, CleanFields, NoCells
      <4>2. QED
        BY <3>2, <4>1 DEF AO!Below, AO!Itself
    <3>3. QED
      BY <3>1, <3>2
  <2>2. QED
    BY <2>1, SharedOf DEF Over
<1>2. \A t \in Depth1 \cap Clean : AO!Shared[t] = {}
  BY <1>1, Nesting
<1>3. \A t \in Upto2 \cap Clean : AO!Shared[t] = {}
  BY <1>1, <1>2, Nesting
<1>4. \A t \in Upto3 \cap Clean : AO!Shared[t] = {}
  BY <1>1, <1>3, Nesting
<1>5. \A t \in Upto4 \cap Clean : AO!Shared[t] = {}
  BY <1>1, <1>4, Nesting
<1>6. \A t \in Upto5 \cap Clean : AO!Shared[t] = {}
  BY <1>1, <1>5, Nesting
<1>7. \A t \in Upto6 \cap Clean : AO!Shared[t] = {}
  BY <1>1, <1>6, Nesting
<1>8. \A t \in Upto7 \cap Clean : AO!Shared[t] = {}
  BY <1>1, <1>7, Nesting
<1>9. QED
  BY <1>8, AllDepths DEF Clean

LEMMA TwoNames ==
  ASSUME NEW S, NEW a \in S, NEW b \in S
  PROVE  <<a>> \o <<b>> = <<a, b>>
<1> DEFINE c == <<a>> \o <<b>>
           d == <<a, b>>
<1>1. <<a>> \in Seq(S) /\ <<b>> \in Seq(S)
  OBVIOUS
<1>2. c \in Seq(S) /\ Len(c) = 2
  BY <1>1
<1>3. c[1] = a /\ c[2] = b
  BY <1>1
<1>4. d \in Seq(S) /\ Len(d) = 2 /\ d[1] = a /\ d[2] = b
  OBVIOUS
<1> HIDE DEF c, d
<1>5. /\ c = [i \in 1 .. 2 |-> c[i]]
      /\ d = [i \in 1 .. 2 |-> d[i]]
  BY <1>2, <1>4
<1>6. \A i \in 1 .. 2 : c[i] = d[i]
  <2>1. \A i \in 1 .. 2 : i = 1 \/ i = 2
    OBVIOUS
  <2>2. QED
    BY <1>3, <1>4, <2>1
<1>7. c = d
  BY <1>5, <1>6
<1>8. QED
  BY <1>7 DEF c, d

(* Their status is copied as a value, with the references of its times.    *)
LEMMA RequestsShareTimes ==
  AO!Shared["DeleteBackupRequest"] \subseteq {<<"Status", n>> : n \in AO!Times}
<1> DEFINE D == "DeleteBackupRequest"
           T == "DeleteBackupRequestStatus"
<1>1. /\ {D, T} \subseteq DOMAIN AO!Types /\ "ObjectMeta" \in Clean
      /\ {"leaf", "DeleteBackupRequestSpec"} \subseteq Depth1
  BY AllDepths DEF Clean, Depth1, Depth2, Depth3, Depth4, Depth5, Depth6, Depth7, Upto2, Upto3,
                   Upto4, Upto5, Upto6, Upto7
<1>2. AO!Cells[T] \subseteq {<<n>> : n \in AO!Times}
  <2>1. ASSUME NEW f \in AO!Types[T]
        PROVE  AO!Itself(f) \cup AO!Below(f, AO!Cells[f.type]) \subseteq {<<n>> : n \in AO!Times}
    <3>1. f.ref /\ f.name \in AO!Times /\ f.type = "leaf"
      BY TypeFields DEF AO!Refs, AO!Field
    <3>2. QED
      BY <1>1, <3>1, NoCells DEF AO!Itself, AO!Below
  <2>2. QED
    BY <1>1, <2>1, CellsOf
<1>3. ASSUME NEW f \in AO!Types[D]
      PROVE  (IF f.name \in AO!Copied[D] THEN AO!Below(f, AO!Shared[f.type])
              ELSE AO!Itself(f) \cup AO!Below(f, AO!Cells[f.type]))
               \subseteq {<<"Status", n>> : n \in AO!Times}
  <2>1. /\ AO!Types[D] = AO!Object("DeleteBackupRequestSpec", T)
        /\ AO!Copied[D] = {"ObjectMeta"}
    BY TypeFields, CopiedFields
  <2>2. CASE f.name = "ObjectMeta"
    <3>1. f.type = "ObjectMeta"
      BY <2>1, <2>2 DEF AO!Object, AO!Field
    <3>2. QED
      BY <1>1, <2>1, <2>2, <3>1, NothingShared DEF AO!Below
  <2>3. CASE f.name = "Spec"
    <3>1. f.type = "DeleteBackupRequestSpec" /\ ~f.ref
      BY <2>1, <2>3 DEF AO!Object, AO!Field
    <3>2. QED
      BY <1>1, <2>1, <2>3, <3>1, NoCells DEF AO!Below, AO!Itself
  <2>4. CASE f.name = "Status"
    <3>1. f.type = T /\ ~f.ref
      BY <2>1, <2>4 DEF AO!Object, AO!Field
    <3>2. ASSUME NEW n \in AO!Times
          PROVE  <<"Status">> \o <<n>> = <<"Status", n>>
      <4> DEFINE S == AO!Times \cup {"Status"}
      <4>1. n \in S /\ "Status" \in S
        OBVIOUS
      <4> HIDE DEF S
      <4>2. QED
        BY <4>1, TwoNames
    <3>3. \A p \in AO!Below(f, AO!Cells[T]) : \E n \in AO!Times : p = <<"Status">> \o <<n>>
      BY <1>2, <2>4 DEF AO!Below
    <3>4. AO!Below(f, AO!Cells[T]) \subseteq {<<"Status", n>> : n \in AO!Times}
      BY <3>2, <3>3
    <3>5. QED
      BY <2>1, <2>4, <3>1, <3>4 DEF AO!Itself
  <2>5. QED
    BY <2>1, <2>2, <2>3, <2>4 DEF AO!Object, AO!Field
<1>4. QED
  BY <1>1, <1>3, SharedOf

(* What a handler fills is not shared, so the base of a patch stays what   *)
(* the handler started from.                                               *)
LEMMA FillsItsOwn ==
  ASSUME write \in AO!Writes, NEW c \in write.changes
  PROVE  ~AO!Common(c)
<1>1. /\ write.kind \in {"DeleteBackupRequest", "Backup", "Restore", "DbBackup", "DbRestore", "Db",
                         "DbService", "GlobalDB"}
      /\ c.way = "fill" => c.path = <<"ObjectMeta", "Labels">>
  BY DEF AO!Writes, AO!BackupWrites, AO!RestoreWrites, AO!DbBackupWrites, AO!DbRestoreWrites,
         AO!DeletionWrites, AO!DbWrites, AO!DbServiceWrites, AO!GlobalDBWrites, AO!Send, AO!Set,
         AO!Labels, AO!Spec
<1>2. write.kind # "DeleteBackupRequest" => AO!Shared[write.kind] = {}
  BY <1>1, NothingShared, AllDepths
     DEF Clean, Depth1, Depth2, Depth3, Depth4, Depth5, Depth6, Depth7,
         Upto2, Upto3, Upto4, Upto5, Upto6, Upto7
<1>3. <<"ObjectMeta", "Labels">> \notin {<<"Status", n>> : n \in AO!Times}
  OBVIOUS
<1>4. QED
  BY <1>1, <1>2, <1>3, RequestsShareTimes DEF AO!Common

(* The base of a patch stays what the handler started from; so all it      *)
(* changed differs from the base when it sends.                            *)
ObjectInv ==
  /\ write \in AO!Writes
  /\ writePc \in {"get", "change", "send", "done", "refused"}
  /\ base = AO!Old
  /\ {held, stored, mine} \subseteq [AO!Paths -> {"old", "new"}]
  /\ writePc = "get" => stored = AO!Old /\ ~same
  /\ writePc # "done" => held = AO!Old
  /\ writePc = "send" => \A p \in AO!Paths : mine[p] = "new"
  /\ writePc = "done" => \A p \in AO!Paths : AO!InPart(p) => held[p] = "new"
  /\ ~write.listed => ~same /\ stored \in {AO!Old, held}

LEMMA ObjectInit ==
  ASSUME AO!Init
  PROVE  ObjectInv
BY DEF AO!Init, ObjectInv, AO!Old

LEMMA ObjectStep ==
  ASSUME ObjectInv, [AO!Next]_(AO!vars)
  PROVE  ObjectInv'
<1> USE DEF ObjectInv
<1>1. /\ AO!Paths' = AO!Paths /\ AO!Old' = AO!Old /\ write' = write
      /\ \A p : AO!InPart(p)' <=> AO!InPart(p)
  BY DEF AO!Next, AO!Get, AO!Change, AO!Accept, AO!Refuse, AO!Deliver, AO!vars, AO!Paths, AO!Old,
         AO!InPart
<1>2. CASE AO!Get
  BY <1>1, <1>2 DEF AO!Get
<1>3. ASSUME NEW c \in write.changes, AO!Change(c)
      PROVE  ObjectInv'
  <2>1. base' = base /\ stored' \in {stored, AO!Put(stored, c)} /\ (~same => stored' = stored)
    BY <1>3, FillsItsOwn DEF AO!Change
  <2>2. c.path \in AO!Paths
    BY DEF AO!Paths
  <2>3. /\ AO!Put(stored, c) \in [AO!Paths -> {"old", "new"}]
        /\ mine' \in [AO!Paths -> {"old", "new"}]
    BY <1>3, <2>2 DEF AO!Change, AO!Put
  <2>4. /\ writePc' \in {"change", "send"}
        /\ writePc' = "send" => \A p \in AO!Paths : mine'[p] = "new"
    <3>1. writePc' \in {"change", "send"}
      BY <1>3 DEF AO!Change
    <3>2. ASSUME writePc' = "send", NEW p \in AO!Paths
          PROVE  mine'[p] = "new"
      <4>1. PICK d \in write.changes : p = d.path
        BY DEF AO!Paths
      <4>2. p = c.path \/ mine[p] = "new"
        BY <1>3, <3>2, <4>1 DEF AO!Change
      <4>3. QED
        BY <1>3, <2>2, <4>2 DEF AO!Change, AO!Put
    <3>3. QED
      BY <3>1, <3>2
  <2>5. QED
    BY <1>1, <1>3, <2>1, <2>3, <2>4 DEF AO!Change
<1>4. CASE AO!Accept
  <2>1. held' \in [AO!Paths -> {"old", "new"}]
    BY <1>4 DEF AO!Accept
  <2>2. ASSUME NEW p \in AO!Paths, AO!InPart(p)
        PROVE  held'[p] = "new"
    <3>1. mine[p] = "new" /\ base[p] = "old"
      BY <1>4 DEF AO!Accept, AO!Old
    <3>2. QED
      BY <1>4, <2>2, <3>1 DEF AO!Accept, AO!Sent
  <2>3. QED
    BY <1>1, <1>4, <2>1, <2>2 DEF AO!Accept
<1>5. CASE AO!Refuse
  BY <1>1, <1>5 DEF AO!Refuse
<1>6. CASE AO!Deliver
  BY <1>1, <1>6 DEF AO!Deliver
<1>7. CASE UNCHANGED AO!vars
  BY <1>1, <1>7 DEF AO!vars
<1>8. QED
  BY <1>2, <1>3, <1>4, <1>5, <1>6, <1>7 DEF AO!Next

LEMMA ObjectsSafe ==
  ASSUME ObjectInv
  PROVE  AO!OnlyTimesAreShared /\ AO!ChangesArrive /\ AO!CacheIsKept
<1>1. write.kind \in {"DeleteBackupRequest", "Backup", "Restore", "DbBackup", "DbRestore", "Db",
                      "DbService", "GlobalDB"}
  BY DEF ObjectInv, AO!Writes, AO!BackupWrites, AO!RestoreWrites, AO!DbBackupWrites,
         AO!DbRestoreWrites, AO!DeletionWrites, AO!DbWrites, AO!DbServiceWrites,
         AO!GlobalDBWrites, AO!Send
<1>2. write.kind # "DeleteBackupRequest" => AO!Shared[write.kind] = {}
  BY <1>1, NothingShared, AllDepths
     DEF Clean, Depth1, Depth2, Depth3, Depth4, Depth5, Depth6, Depth7,
         Upto2, Upto3, Upto4, Upto5, Upto6, Upto7
<1>3. AO!OnlyTimesAreShared
  BY <1>2, RequestsShareTimes DEF AO!OnlyTimesAreShared
<1>4. QED
  BY <1>3 DEF ObjectInv, AO!ChangesArrive, AO!CacheIsKept

-----------------------------------------------------------------------------
(* GlobalDb: copies are versions of the object, though maybe old ones, and *)
(* a version that is marked is never followed by one that is not.          *)
GlobalDBRec == [state : {"new", "exist"}, ready : BOOLEAN]

ReadyIsMarked == gdb.ready => gdb.state = "exist"

GlobalDBInv ==
  /\ gdb \in GlobalDBRec /\ up \in BOOLEAN
  /\ \A x \in {cached, gdbSeen} :
       /\ x \in [object : GlobalDBRec, fresh : BOOLEAN]
       /\ x.fresh => x.object = gdb
       /\ x.object.state = "exist" => gdb.state = "exist"
  /\ gdbPc = "check" => gdbSeen.object.state = "exist"
  /\ \/ done \/ old
     \/ gdbPc # "mark" /\ install # "complete" /\ listed # "complete"
  /\ ReadyIsMarked

LEMMA GlobalDBInit ==
  ASSUME GD!Init
  PROVE  GlobalDBInv
<1> DEFINE new == [object |-> GD!New, fresh |-> TRUE]
<1>1. /\ GD!New \in GlobalDBRec /\ GD!New.state = "new" /\ ~GD!New.ready
      /\ new \in [object : GlobalDBRec, fresh : BOOLEAN]
  BY DEF GD!New, GlobalDBRec
<1>2. /\ gdb = GD!New /\ cached = new /\ gdbSeen = new /\ up \in BOOLEAN /\ gdbPc = "idle"
      /\ install = "none" /\ listed = "none"
  BY DEF GD!Init, GD!Fresh
<1>3. QED
  BY <1>1, <1>2 DEF GlobalDBInv, ReadyIsMarked

(* A write makes both copies old and keeps what they show.                 *)
LEMMA GlobalDBWritten ==
  ASSUME GlobalDBInv, NEW x \in GlobalDBRec, GD!Write(x), gdbPc' = "idle",
         UNCHANGED <<up, done, old, install, listed>>,
         gdb.state = "exist" => x.state = "exist", x.ready => x.state = "exist"
  PROVE  GlobalDBInv'
<1>1. /\ cached' \in [object : GlobalDBRec, fresh : BOOLEAN]
      /\ ~cached'.fresh /\ cached'.object = cached.object
      /\ gdbSeen' \in [object : GlobalDBRec, fresh : BOOLEAN]
      /\ ~gdbSeen'.fresh /\ gdbSeen'.object = gdbSeen.object
  BY DEF GD!Write, GlobalDBInv
<1>2. QED
  BY <1>1 DEF GD!Write, GlobalDBInv, ReadyIsMarked

(* It is marked when a Job of it has completed, or when it is old.         *)
GlobalDBMoves == gdb'.state # gdb.state => gdb'.state = "exist" /\ (done \/ old)

LEMMA GlobalDBStep ==
  ASSUME GlobalDBInv, [GD!Next]_(GD!vars)
  PROVE  GlobalDBInv' /\ GlobalDBMoves
<1>1. CASE GD!Take
  BY <1>1 DEF GD!Take, GlobalDBInv, GlobalDBRec, ReadyIsMarked, GlobalDBMoves
<1>2. CASE GD!CreateJob
  BY <1>2 DEF GD!CreateJob, GD!GoOn, GD!IsDue, GlobalDBInv, ReadyIsMarked, GlobalDBMoves
<1>3. CASE GD!LookAtJob
  BY <1>3 DEF GD!LookAtJob, GD!GoOn, GD!IsDue, GlobalDBInv, ReadyIsMarked, GlobalDBMoves
<1>4. CASE GD!Mark
  <2>1. ASSUME GD!Write([gdb EXCEPT !.state = "exist"])
        PROVE  GlobalDBInv' /\ GlobalDBMoves
    <3> DEFINE x == [gdb EXCEPT !.state = "exist"]
    <3>1. x \in GlobalDBRec /\ x.state = "exist"
      BY DEF GlobalDBInv, GlobalDBRec
    <3>2. gdb' = x /\ gdbPc' = "idle" /\ UNCHANGED <<up, done, old, install, listed>>
      BY <1>4, <2>1 DEF GD!Mark, GD!Write
    <3> HIDE DEF x
    <3>3. GlobalDBInv'
      BY <2>1, <3>1, <3>2, GlobalDBWritten DEF x
    <3>4. done \/ old
      BY <1>4 DEF GD!Mark, GlobalDBInv
    <3>5. QED
      BY <3>1, <3>2, <3>3, <3>4 DEF GlobalDBMoves
  <2>2. CASE UNCHANGED <<gdb, cached, gdbSeen>>
    BY <1>4, <2>2 DEF GD!Mark, GlobalDBInv, ReadyIsMarked, GlobalDBMoves
  <2>3. QED
    BY <1>4, <2>1, <2>2 DEF GD!Mark
<1>5. CASE GD!Check
  <2>1. ASSUME GD!Write([gdb EXCEPT !.ready = up]), gdbSeen.fresh
        PROVE  GlobalDBInv' /\ GlobalDBMoves
    <3> DEFINE x == [gdb EXCEPT !.ready = up]
    <3>1. gdb.state = "exist"
      BY <1>5, <2>1 DEF GD!Check, GlobalDBInv
    <3>2. x \in GlobalDBRec /\ x.state = "exist"
      BY <3>1 DEF GlobalDBInv, GlobalDBRec
    <3>3. gdb' = x /\ gdbPc' = "idle" /\ UNCHANGED <<up, done, old, install, listed>>
      BY <1>5, <2>1 DEF GD!Check, GD!Write
    <3> HIDE DEF x
    <3>4. GlobalDBInv'
      BY <2>1, <3>2, <3>3, GlobalDBWritten DEF x
    <3>5. QED
      BY <3>1, <3>2, <3>3, <3>4 DEF GlobalDBMoves
  <2>2. CASE UNCHANGED <<gdb, cached, gdbSeen>>
    BY <1>5, <2>2 DEF GD!Check, GlobalDBInv, ReadyIsMarked, GlobalDBMoves
  <2>3. QED
    BY <1>5, <2>1, <2>2 DEF GD!Check
<1>6. CASE GD!JobMoves
  BY <1>6 DEF GD!JobMoves, GlobalDBInv, ReadyIsMarked, GlobalDBMoves
<1>7. CASE GD!Age \/ GD!ServerMoves \/ GD!Resync
  BY <1>7 DEF GD!Age, GD!ServerMoves, GD!Resync, GlobalDBInv, ReadyIsMarked, GlobalDBMoves
<1>8. CASE GD!Edit
  BY <1>8 DEF GD!Edit, GD!Write, GlobalDBInv, ReadyIsMarked, GlobalDBMoves
<1>9. CASE GD!Deliver
  BY <1>9 DEF GD!Deliver, GD!Fresh, GlobalDBInv, ReadyIsMarked, GlobalDBMoves
<1>10. CASE GD!DeliverJob
  BY <1>10 DEF GD!DeliverJob, GlobalDBInv, ReadyIsMarked, GlobalDBMoves
<1>11. CASE UNCHANGED GD!vars
  BY <1>11 DEF GD!vars, GlobalDBInv, ReadyIsMarked, GlobalDBMoves
<1>12. QED
  BY <1>1, <1>2, <1>3, <1>4, <1>5, <1>6, <1>7, <1>8, <1>9, <1>10, <1>11 DEF GD!Next, GD!Reconcile

-----------------------------------------------------------------------------
(* A component takes only steps of its own, whichever component has its    *)
(* part.                                                                   *)
LEMMA Parts ==
  ASSUME [PlatformNext]_allVars
  PROVE  /\ [ST!Next]_startVars /\ [RE!Next]_repoVars /\ [DC!Next]_dbVars
         /\ [GD!Next]_globalDbVars /\ [AO!Next]_objectVars
<1>1. CASE Only("start") /\ ST!Next
  BY <1>1 DEF Only
<1>2. CASE Only("repositories") /\ RE!Next
  BY <1>2 DEF Only
<1>3. CASE Only("db") /\ DC!Next
  BY <1>3 DEF Only
<1>4. CASE Only("global db") /\ GD!Next
  BY <1>4 DEF Only
<1>5. CASE Only("objects") /\ AO!Next
  BY <1>5 DEF Only
<1>6. ASSUME \E p \in {"restore", "db service", "syncer"} : Only(p)
      PROVE  UNCHANGED <<startVars, repoVars, dbVars, globalDbVars, objectVars>>
  BY <1>6 DEF Only
<1>7. CASE UNCHANGED allVars
  BY <1>7 DEF allVars
<1>8. QED
  BY <1>1, <1>2, <1>3, <1>4, <1>5, <1>6, <1>7 DEF PlatformNext

(* The component and the module its proofs are about are the same.         *)
LEMMA SameRepositories == (RE!Init <=> RP!Init) /\ (RE!Next <=> RP!Next)
BY DEF RE!Decided, RP!Decided, RE!Silent, RP!Silent, RE!Init, RP!Init,
       RE!After, RP!After, RE!Goto, RP!Goto, RE!Finish, RP!Finish, RE!Free, RP!Free,
       RE!Get, RP!Get, RE!Register, RP!Register, RE!Made, RP!Made,
       RE!Create, RP!Create, RE!Receive, RP!Receive, RE!TimeOut, RP!TimeOut,
       RE!Forget, RP!Forget, RE!Close, RP!Close, RE!Reports, RP!Reports,
       RE!Deliver, RP!Deliver, RE!LookUp, RP!LookUp, RE!Panic, RP!Panic,
       RE!Collide, RP!Collide, RE!Appear, RP!Appear, RE!Writes, RP!Writes,
       RE!Cardinality, RP!Cardinality, RE!Velero, RP!Velero, RE!Next, RP!Next

LEMMA SameDbController == (DC!Init <=> DP!Init) /\ (DC!Next <=> DP!Next)
BY DEF DC!objectVars, DP!objectVars, DC!Engines, DP!Engines, DC!Unborn, DP!Unborn,
       DC!Idle, DP!Idle, DC!Spend, DP!Spend, DC!Init, DP!Init, DC!CreateDb, DP!CreateDb,
       DC!DeleteDb, DP!DeleteDb, DC!DeleteSecret, DP!DeleteSecret, DC!Observe, DP!Observe,
       DC!Notify, DP!Notify, DC!Resync, DP!Resync, DC!Restart, DP!Restart, DC!Goto, DP!Goto,
       DC!Begin, DP!Begin, DC!Take, DP!Take, DC!HasAccount, DP!HasAccount,
       DC!Creating, DP!Creating, DC!Recycling, DP!Recycling, DC!Parse, DP!Parse,
       DC!Stop, DP!Stop, DC!ParseFails, DP!ParseFails, DC!Usable, DP!Usable,
       DC!Check, DP!Check, DC!CheckFails, DP!CheckFails, DC!Accepts, DP!Accepts,
       DC!Result, DP!Result, DC!Advance, DP!Advance, DC!Execute, DP!Execute,
       DC!GiveUp, DP!GiveUp, DC!ExecuteFails, DP!ExecuteFails, DC!Report, DP!Report,
       DC!Ready, DP!Ready, DC!NotReady, DP!NotReady, DC!Return, DP!Return, DC!Next, DP!Next

-----------------------------------------------------------------------------
(* A process that serves (main) found every definition, location and       *)
(* repository as it should be, whatever the starts of others, failed       *)
(* calls and kills did in between.                                         *)
THEOREM ReadyWhenServing == PlatformSpec => []ServingIsReady
<1>1. PlatformInit => StartInv
  BY StartInit DEF PlatformInit
<1>2. StartInv /\ [PlatformNext]_allVars => StartInv'
  BY Parts, StartInvStep DEF startVars, ST!vars
<1>3. StartInv => ServingIsReady
  BY ObjectTypes DEF StartInv, StartTypes, Passed, ProcRec, Sound, ServingIsReady,
                     ST!ServingIsReady, ST!Objects
<1>4. QED
  BY <1>1, <1>2, <1>3, PTL DEF PlatformSpec

LEMMA RepositoriesRun == PlatformSpec => RP!Spec
<1>1. PlatformInit => RP!Init
  BY SameRepositories DEF PlatformInit
<1>2. [PlatformNext]_allVars => [RP!Next]_(RP!vars)
  BY Parts, SameRepositories DEF repoVars, RP!vars
<1>3. QED
  BY <1>1, <1>2, PTL DEF PlatformSpec, RP!Spec

(* EnsureRepo does not miss its answer: when the informer of a run that    *)
(* waits has seen every version one by one, and velero has just decided,   *)
(* the handler is about to tell the run.                                   *)
THEOREM AnswersArrive == PlatformSpec => []Notified
<1>1. RP!Spec => []RP!Notified
  BY PlatformAssumption, RP!AnswersArrive
<1>2. RP!Notified => Notified
  BY DEF Notified, RE!Decided, RP!Decided, RE!Notified, RP!Notified
<1>3. QED
  BY <1>1, <1>2, RepositoriesRun, PTL

(* A run does not bring the process down by its own repositories alone: it *)
(* takes one whose phase changes and that is not the run's, as far as it   *)
(* knows, or that it was not told of in time, or that changes again.       *)
THEOREM CrashedWithCause == PlatformSpec => []CrashHasCause
<1>1. RP!Spec => []RP!CrashHasCause
  BY PlatformAssumption, RP!CrashedWithCause
<1>2. RP!CrashHasCause => CrashHasCause
  BY DEF CrashHasCause, RE!Cardinality, RP!Cardinality, RE!Decided, RP!Decided,
         RE!Changes, RP!Changes, RE!Own, RP!Own,
         RE!CrashHasCause, RP!CrashHasCause
<1>3. QED
  BY <1>1, <1>2, RepositoriesRun, PTL

LEMMA DbControllerRuns == PlatformSpec => DP!Spec
<1>1. PlatformInit => DP!Init
  BY SameDbController DEF PlatformInit
<1>2. [PlatformNext]_allVars => [DP!Next]_(DP!vars)
  BY Parts, SameDbController DEF dbVars, DP!vars
<1>3. QED
  BY <1>1, <1>2, PTL DEF PlatformSpec, DP!Spec

(* A Db that is Ready, and was not made again, can be used, however many   *)
(* creations were cut short, failed or repeated.                           *)
THEOREM ServesWhenReady == PlatformSpec => []ReadyIsUsable
<1>1. DP!Spec => []DP!ReadyIsUsable
  BY PlatformAssumption, DP!ServesWhenReady
<1>2. DP!ReadyIsUsable => ReadyIsUsable
  BY DEF ReadyIsUsable, DC!Usable, DP!Usable, DC!ReadyIsUsable, DP!ReadyIsUsable
<1>3. QED
  BY <1>1, <1>2, DbControllerRuns, PTL

(* When a Db has gone undisturbed and its events are handled, nothing of   *)
(* it is left on the server, also when its Secret went first.              *)
THEOREM RecycledAtTheEnd == PlatformSpec => []Recycled
<1>1. DP!Spec => []DP!Recycled
  BY PlatformAssumption, DP!RecycledAtTheEnd
<1>2. DP!Recycled => Recycled
  BY DEF Recycled, DC!Recycled, DP!Recycled
<1>3. QED
  BY <1>1, <1>2, DbControllerRuns, PTL

LEMMA ObjectsAlways == PlatformSpec => []ObjectInv
<1>1. PlatformInit => ObjectInv
  BY ObjectInit DEF PlatformInit
<1>2. ObjectInv /\ [PlatformNext]_allVars => ObjectInv'
  BY Parts, ObjectStep DEF objectVars, AO!vars
<1>3. QED
  BY <1>1, <1>2, PTL DEF PlatformSpec

(* A deep copy of what a handler writes (zz_generated.deepcopy.go) has no  *)
(* reference in common with its original, but for the times of a           *)
(* DeleteBackupRequest.                                                    *)
THEOREM CopiesAreDeep == PlatformSpec => []OnlyTimesAreShared
<1>1. ObjectInv => OnlyTimesAreShared
  BY ObjectsSafe DEF OnlyTimesAreShared
<1>2. QED
  BY <1>1, ObjectsAlways, PTL

(* What a handler changes in the part it writes to is on the server once   *)
(* the write is accepted, whatever the informer delivered meanwhile.       *)
THEOREM ChangesReachServer == PlatformSpec => []ChangesArrive
<1>1. ObjectInv => ChangesArrive
  BY ObjectsSafe DEF ChangesArrive
<1>2. QED
  BY <1>1, ObjectsAlways, PTL

(* No handler that works on a copy changes the informer's object: that is  *)
(* the one the handler began with, or the server's.                        *)
THEOREM CachesKept == PlatformSpec => []CacheIsKept
<1>1. ObjectInv => CacheIsKept
  BY ObjectsSafe DEF CacheIsKept
<1>2. QED
  BY <1>1, ObjectsAlways, PTL

LEMMA GlobalDBAlways == PlatformSpec => []GlobalDBInv /\ [][GlobalDBMoves]_gdb
<1>1. PlatformInit => GlobalDBInv
  BY GlobalDBInit DEF PlatformInit
<1>2. GlobalDBInv /\ [PlatformNext]_allVars => GlobalDBInv' /\ GlobalDBMoves
  BY Parts, GlobalDBStep DEF globalDbVars, GD!vars
<1>3. QED
  BY <1>1, <1>2, PTL DEF PlatformSpec

(* A GlobalDB is ready only when it is marked as existing: passes over old *)
(* copies, failed Jobs and edits do not make a new one ready.              *)
THEOREM ReadyWhenMarked == PlatformSpec => []ReadyIsMarked
<1>1. GlobalDBInv => ReadyIsMarked
  BY DEF GlobalDBInv
<1>2. QED
  BY <1>1, GlobalDBAlways, PTL

(* It is marked only when a Job of it has completed or its time is up,     *)
(* though the pass may know the Job from an old cache or have just created *)
(* it; and a mark is never taken back.                                     *)
THEOREM MarkedWhenDue == PlatformSpec => [][GlobalDBMoves]_gdb
BY GlobalDBAlways, PTL
=============================================================================
