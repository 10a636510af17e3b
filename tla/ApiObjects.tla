----------------------------- MODULE ApiObjects -----------------------------
(***************************************************************************)
(* The objects the controllers share with their informers: the types of    *)
(* apis/qucheng/v1beta1, the deep copies generated for them, and how every *)
(* handler gets its object, changes it and sends it to the API server. What*)
(* a copy shares with its original matters because a patch is made of what *)
(* differs between the two, and because the original may be the informer's.*)
(***************************************************************************)
EXTENDS Sequences

VARIABLES
  write,    \* the write of a handler this behaviour is about
  pc,       \* how far the handler is
  server,   \* server[p]: the value of the path p on the API server
  stored,   \* the same in the object of the informer
  mine,     \* in the object of the handler
  base,     \* in the copy a patch is made against
  same      \* the handler works on the informer's own object

vars == <<write, pc, server, stored, mine, base, same>>

-----------------------------------------------------------------------------
(* A type is the set of its fields that hold others: by reference (pointer,*)
(* map or slice) or as a part.                                             *)
Field(n, r, t) == [name |-> n, ref |-> r, type |-> t]
Refs(N) == {Field(n, TRUE, "leaf") : n \in N}
Object(s, t) == {Field("ObjectMeta", FALSE, "ObjectMeta"),
                 Field("Spec", FALSE, s), Field("Status", FALSE, t)}
List(t) == {Field("Items", TRUE, t)}
Times == {"StartTimestamp", "CompletionTimestamp"}

LibraryTypes == [leaf |-> {}, ObjectMeta |-> Refs({"Labels", "Annotations"})]

BackupTypes ==
  [Backup |-> Object("BackupSpec", "BackupStatus"), BackupList |-> List("Backup"),
   BackupSpec |-> Refs({"Selector"}),
   BackupStatus |-> Refs(Times) \cup {Field("Archives", TRUE, "Archive")},
   Archive |-> {Field("DbRef", TRUE, "DbRef")}, DbRef |-> {}]

RestoreTypes ==
  [Restore |-> Object("RestoreSpec", "RestoreStatus"), RestoreList |-> List("Restore"),
   RestoreSpec |-> {}, RestoreStatus |-> Refs(Times)]

DbBackupTypes ==
  [DbBackup |-> Object("DbBackupSpec", "DbBackupStatus"), DbBackupList |-> List("DbBackup"),
   DbBackupSpec |-> {}, DbBackupStatus |-> Refs(Times \cup {"Size"})]

DbRestoreTypes ==
  [DbRestore |-> Object("DbRestoreSpec", "DbRestoreStatus"), DbRestoreList |-> List("DbRestore"),
   DbRestoreSpec |-> {}, DbRestoreStatus |-> Refs(Times)]

DeleteBackupRequestTypes ==
  [DeleteBackupRequest |-> Object("DeleteBackupRequestSpec", "DeleteBackupRequestStatus"),
   DeleteBackupRequestList |-> List("DeleteBackupRequest"),
   DeleteBackupRequestSpec |-> {}, DeleteBackupRequestStatus |-> Refs(Times)]

DbTypes ==
  [Db |-> Object("DbSpec", "DbStatus"), DbList |-> List("Db"),
   DbSpec |-> Refs({"Config", "ReclaimPolicy"}) \cup {Field("Account", FALSE, "Account")},
   DbStatus |-> Refs({"Network", "Auth", "Ready"})]

DbServiceTypes ==
  [DbService |-> Object("DbServiceSpec", "DbServiceStatus"), DbServiceList |-> List("DbService"),
   DbServiceSpec |-> {Field("Account", FALSE, "Account")},
   DbServiceStatus |-> Refs({"Network", "Auth", "Ready", "Global"})]

GlobalDBTypes ==
  [GlobalDB |-> Object("GlobalDBSpec", "GlobalDBStatus"), GlobalDBList |-> List("GlobalDB"),
   GlobalDBSpec |-> {}, GlobalDBStatus |-> {}]

AccountTypes ==
  [Account |-> {Field("User", FALSE, "AccountUser"), Field("Password", FALSE, "AccountPassword")},
   AccountUser |-> {Field("ValueFrom", TRUE, "ValueSource")},
   AccountPassword |-> {Field("ValueFrom", TRUE, "ValueSource")},
   ValueSource |-> Refs({"ConfigMapKeyRef", "SecretKeyRef"})]

(* Tables as one; no two have a row in common.                             *)
Merged(T) == [t \in UNION {DOMAIN x : x \in T} |-> (CHOOSE x \in T : t \in DOMAIN x)[t]]

Types ==
  Merged({LibraryTypes, BackupTypes, RestoreTypes, DbBackupTypes, DbRestoreTypes,
          DeleteBackupRequestTypes, DbTypes, DbServiceTypes, GlobalDBTypes, AccountTypes})

-----------------------------------------------------------------------------
(* DeepCopyInto of every type (zz_generated.deepcopy.go): after *out = *in *)
(* it makes the references named here anew, and copies these parts deeply. *)
CopiesLibrary == [leaf |-> {}, ObjectMeta |-> {"Labels", "Annotations"}]
CopiesAccount ==
  [Account |-> {"User", "Password"}, AccountPassword |-> {"ValueFrom"},
   AccountUser |-> {"ValueFrom"}, Archive |-> {"DbRef"}]
MutCopiesBackup ==
  [Backup |-> {"ObjectMeta", "Spec", "Status"}, BackupList |-> {"Items"},
   BackupSpec |-> {}, BackupStatus |-> Times \cup {"Archives"}]
CopiesBackup ==
  [Backup |-> {"ObjectMeta", "Spec", "Status"}, BackupList |-> {"Items"},
   BackupSpec |-> {"Selector"}, BackupStatus |-> Times \cup {"Archives"}]
CopiesDbBackup ==
  [Db |-> {"ObjectMeta", "Spec", "Status"}, DbBackup |-> {"ObjectMeta", "Status"},
   DbBackupList |-> {"Items"}, DbBackupSpec |-> {}, DbBackupStatus |-> Times \cup {"Size"}]
CopiesDbRestore ==
  [DbList |-> {"Items"}, DbRef |-> {}, DbRestore |-> {"ObjectMeta", "Status"},
   DbRestoreList |-> {"Items"}, DbRestoreSpec |-> {}, DbRestoreStatus |-> Times]
CopiesDbService ==
  [DbService |-> {"ObjectMeta", "Spec", "Status"}, DbServiceList |-> {"Items"},
   DbServiceSpec |-> {"Account"}, DbServiceStatus |-> {"Network", "Auth", "Ready", "Global"}]
CopiesDb ==
  [DbSpec |-> {"Account", "Config", "ReclaimPolicy"}, DbStatus |-> {"Network", "Auth", "Ready"}]
CopiesDeleteBackupRequest ==
  [DeleteBackupRequest |-> {"ObjectMeta"}, DeleteBackupRequestList |-> {"Items"},
   DeleteBackupRequestSpec |-> {}, DeleteBackupRequestStatus |-> {}]
CopiesGlobalDB ==
  [GlobalDB |-> {"ObjectMeta"}, GlobalDBList |-> {"Items"}, GlobalDBSpec |-> {}, GlobalDBStatus |-> {}]
CopiesRestore ==
  [Restore |-> {"ObjectMeta", "Status"}, RestoreList |-> {"Items"},
   RestoreSpec |-> {}, RestoreStatus |-> Times]
CopiesValueSource == [ValueSource |-> {"ConfigMapKeyRef", "SecretKeyRef"}]

Copied ==
  Merged({CopiesLibrary, CopiesAccount, CopiesBackup, CopiesDbBackup, CopiesDbRestore,
          CopiesDbService, CopiesDb, CopiesDeleteBackupRequest, CopiesGlobalDB,
          CopiesRestore, CopiesValueSource})

(* The references below a value of type t, as paths; and those which a deep*)
(* copy of it has in common with its original.                             *)
Below(f, P) == {<<f.name>> \o p : p \in P}
Itself(f) == IF f.ref THEN {<<f.name>>} ELSE {}

Cells[t \in DOMAIN Types] == UNION {Itself(f) \cup Below(f, Cells[f.type]) : f \in Types[t]}

Shared[t \in DOMAIN Types] ==
  UNION {IF f.name \in Copied[t] THEN Below(f, Shared[f.type])
                                 ELSE Itself(f) \cup Below(f, Cells[f.type]) : f \in Types[t]}

-----------------------------------------------------------------------------
(* The writes of the handlers: whether the object is the one of the lister,*)
(* what is changed ("set": the field is given another value or reference;  *)
(* "fill": something is put into what it refers to), and what is sent, to  *)
(* the object or to its status. Fields that are no references are one.     *)
Set(N)  == {[path |-> <<"Status", n>>, way |-> "set"] : n \in N \cup {"fields"}}
Labels  == [path |-> <<"ObjectMeta", "Labels">>, way |-> "fill"]
Spec    == [path |-> <<"Spec", "fields">>, way |-> "set"]
Send(k, l, C, how, to) == [kind |-> k, listed |-> l, changes |-> C, how |-> how, to |-> to]

BackupWrites ==
  {Send("Backup", TRUE, Set({}), "patch", "object"),
   Send("Backup", TRUE, Set({"CompletionTimestamp"}), "update", "status"),
   Send("Backup", TRUE, Set({"CompletionTimestamp"}), "patch", "status")}

RestoreWrites ==
  {Send("Restore", TRUE, Set({}), "update", "status"),
   Send("Restore", TRUE, Set({"CompletionTimestamp"}), "patch", "status")}

DbBackupWrites ==
  {Send("DbBackup", FALSE, Set({"StartTimestamp"}), "update", "status"),
   Send("DbBackup", FALSE, Set({"CompletionTimestamp", "Size"}), "update", "status"),
   Send("DbBackup", FALSE, Set({"CompletionTimestamp"}), "patch", "status")}

DbRestoreWrites ==
  {Send("DbRestore", FALSE, Set({"StartTimestamp"}), "update", "status"),
   Send("DbRestore", FALSE, Set({"CompletionTimestamp"}), "update", "status"),
   Send("DbRestore", FALSE, Set({"CompletionTimestamp"}), "patch", "status")}

MutDeletionWrites ==
  {Send("DeleteBackupRequest", FALSE,
        {[path |-> <<"Status", "CompletionTimestamp">>, way |-> "fill"]}, "patch", "status")}
DeletionWrites ==
  {Send("DeleteBackupRequest", FALSE, Set({}), "patch", "status"),
   Send("DeleteBackupRequest", FALSE, Set({}) \cup {Labels}, "patch", "status"),
   Send("DeleteBackupRequest", FALSE, Set({"CompletionTimestamp"}), "patch", "status"),
   Send("Backup", FALSE, Set({}), "patch", "status")}

DbWrites == {Send("Db", FALSE, Set({"Network", "Auth", "Ready"}), "patch", "status")}

DbServiceWrites ==
  {Send("DbService", FALSE, Set({"Network", "Auth", "Ready", "Global"}), "patch", "status")}

GlobalDBWrites ==
  {Send("GlobalDB", FALSE, {Spec}, "update", "object"),
   Send("GlobalDB", FALSE, Set({}), "update", "status")}

Writes == BackupWrites \cup RestoreWrites \cup DbBackupWrites \cup DbRestoreWrites
            \cup DeletionWrites \cup DbWrites \cup DbServiceWrites \cup GlobalDBWrites

Paths == {c.path : c \in write.changes}
Old   == [p \in Paths |-> "old"]

Init ==
  /\ write \in Writes
  /\ pc = "get" /\ same = FALSE
  /\ server = Old /\ stored = Old /\ mine = Old /\ base = Old

-----------------------------------------------------------------------------
(* A lister hands out what the informer stored, the client a deep copy.    *)
MutGet ==
  /\ pc = "get"
  /\ pc' = "change" /\ mine' = stored /\ base' = stored /\ same' = TRUE
  /\ UNCHANGED <<write, server, stored>>
Get ==
  /\ pc = "get"
  /\ pc' = "change" /\ mine' = stored /\ base' = stored /\ same' = write.listed
  /\ UNCHANGED <<write, server, stored>>

(* What the change of a field reaches besides the handler's object: the    *)
(* informer's, if it is the same or has the cell in common; the base, a    *)
(* deep copy taken before, if it has.                                      *)
Common(c) == c.way = "fill" /\ c.path \in Shared[write.kind]
Put(o, c) == [o EXCEPT ![c.path] = "new"]

Change(c) ==
  /\ pc = "change" /\ c \in write.changes /\ mine[c.path] = "old"
  /\ mine' = Put(mine, c)
  /\ stored' = IF same \/ Common(c) THEN Put(stored, c) ELSE stored
  /\ base' = IF Common(c) THEN Put(base, c) ELSE base
  /\ pc' = IF \A d \in write.changes \ {c} : mine[d.path] = "new" THEN "send" ELSE pc
  /\ UNCHANGED <<write, server, same>>

(* The server takes from a write the part it is addressed to, from a patch *)
(* what differs from the base. What it answers replaces the handler's copy,*)
(* which is not used any more here.                                        *)
InPart(p) == (p[1] = "Status") = (write.to = "status")
Sent(p) == InPart(p) /\ (write.how = "patch" => mine[p] # base[p])

Accept ==
  /\ pc = "send" /\ pc' = "done"
  /\ server' = [p \in Paths |-> IF Sent(p) THEN mine[p] ELSE server[p]]
  /\ UNCHANGED <<write, stored, mine, base, same>>

Refuse ==
  /\ pc = "send" /\ pc' = "refused"
  /\ UNCHANGED <<write, server, stored, mine, base, same>>

(* The informer puts the server's object in the place of its own.          *)
Deliver ==
  /\ stored # server \/ same
  /\ stored' = server /\ same' = FALSE
  /\ UNCHANGED <<write, pc, server, mine, base>>

Next == Get \/ (\E c \in write.changes : Change(c)) \/ Accept \/ Refuse \/ Deliver

-----------------------------------------------------------------------------
(* A deep copy has nothing in common with its original: except the times   *)
(* of a DeleteBackupRequest, whose copies were generated before it had any.*)
OnlyTimesAreShared ==
  Shared[write.kind] \subseteq
    (IF write.kind = "DeleteBackupRequest" THEN {<<"Status", t>> : t \in Times} ELSE {})

(* What a handler changes in the part it writes to is sent, and stored: no *)
(* change gets into the copy that it has to differ from.                   *)
ChangesArrive ==
  pc = "done" => \A p \in Paths : InPart(p) => server[p] = "new"

(* The informer's object is a version the server had, whatever handlers do:*)
(* except where a Backup or a Restore of the lister is changed in place.   *)
CacheIsKept == ~write.listed => stored \in {Old, server}
=============================================================================
