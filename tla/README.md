# Models of qucheng-operator

The operator backs up the databases and volumes of applications in a
Kubernetes cluster. A user creates a `Backup`; the operator creates one
`DbBackup` per selected `Db` and one velero `PodVolumeBackup` per selected
PVC, waits for all of them and writes the outcome in the `Backup`. A
`DeleteBackupRequest` removes what a Backup saved, a `Restore` plays it back.
All state that survives a process is in API objects, in a restic repository
and in the files of dumps. Everything between two writes to the API server can
be lost, repeated, or done by two processes at once. That is what these
models are about.

Contents: [inventory](#inventory), [the modules](#the-modules-and-the-code),
[the runs](#the-runs), [fairness](#fairness), [the proofs](#the-proofs),
[what was found](#what-was-found), [what is left out](#what-is-left-out),
[the plan](#the-plan).

## Inventory

| Component (source) | State it keeps | Operations | Who it talks to | Correct when |
|---|---|---|---|---|
| Generic controller (`controllers/base`) | work queue, workers, context of the process | `Run`, `processNextItem` | sync handler of the Backup and Restore controllers | a key is with one worker at a time; a failed key comes back; it stops with the process |
| Backup controller (`backup_controller.go`) | the object of the lister, *changed in place*; a run per key | add handler, `process`, `updateStatusToFailed` | API server, both backuppers | Completed only with a snapshot of each target; run again only when nothing was reported; always reported in the end |
| Database backupper (`pkg/db/db_backup.go`) | names waited for (`tasks`), events of an informer | `NewBackupper`, `FindBackupDbs`, `AddTask`, `WaitSync` | creates DbBackups, hears their end | hears tasks of its own Backup only, waits for all of them |
| Volume backupper (`pkg/volume/volume_backup.go`) | the same for PodVolumeBackups; channels of `EnsureRepo` | `FindBackupPvcs`, `EnsureRepo`, `AddTask`, `WaitSync` | velero | the same; each PVC through one mounting pod; one repository per place |
| DbBackup reconciler (`dbbackup_controller.go`) | the manager's cache and queue; dump file | `Reconcile`, `genPersistentPath`, `processPersistent` | API server, database, store | one dump, one outcome, its file in place when Completed |
| BackupDeletion reconciler (`backup_delete_controller.go`) | the same | `Reconcile`, `deleteExistingDeletionRequests`, `deleteResticSnapshots` | API server, restic | marks the Backup first, forgets everything in the end, reports |
| Restore controller (`restore_controller.go`, `db_restore.go`, `volume_restore.go`) | as the Backup controller | add handler, `process` | creates DbRestores, PodVolumeRestores | plays back each task of its Backup once, Completed only when all are |
| DbRestore reconciler (`dbrestore_controller.go`) | as the DbBackup reconciler | `Reconcile` | store, database | plays the file of its DbBackup |
| Database managers (`pkg/db/manage`) | databases and accounts on a server; cache of database metadata | `CreateDB`, `RecycleDB`, `Dump`, `Restore`, `ParseDB` | MySQL, PostgreSQL | what failed half way can be repeated; the cache tells the truth |
| Storage (`pkg/storage`, `pkg/util/bsl`) | files, objects | `PutBackup`, `PullBackup`, `RemoveBackup` | file system, S3 | what was put is what is pulled |
| Db, DbService, GlobalDB, Syncer controllers | status of their objects | reconcilers, predicates | database managers | not registered at this commit (`controllers/controllers.go`) |
| Process start-up (`cmd/main.go`, `cmd/crd.go`) | leader lease | starts everything | API server | the Backup and Restore controllers run in *every* process, the reconcilers in the leader only |
| API types, generated clients, logging, value helpers | none | | | |

What is hard here, and hardly reached by a test (the repository has an empty
test harness, `controllers/qucheng/suite_test.go`): the order of tasks ending
and events arriving; names made of a clock in seconds; the store of the
informer changed by a run and by the informer; a deadline that also cancels
the report of its own expiry; the process dying between two writes; two
processes of a rolling update; old caches; a lease that does not fence. Each
of these is listed with its line in `PROJECT.json` under `hazards`.

## The modules and the code

| Module | Models | Kind |
|---|---|---|
| `BackupController` | Backup controller, generic controller, both backuppers, any number of processes | system |
| `BackupPromise` | what the phase of a Backup promises its readers | abstract |
| `DbBackupController` | DbBackup reconciler, its manager and store, any number of processes | system |
| `SnapshotTask` | what whoever waits for a DbBackup relies on | abstract |
| `BackupDeletion` | BackupDeletion reconciler, one process | system |
| `RestoreController` | Restore controller with both restorers, any number of processes | system |
| `DbRestoreController` | DbRestore reconciler, what its engine makes of a dump, any number of processes | system |
| `Startup` | `main` from the first call to serving, several processes | system |
| `Repositories` | `EnsureRepo`, its channels and the informer of restic repositories | system |
| `DbController` | Db controller, the managers and the pool of remembered databases | system |
| `GlobalDb`, `DbService`, `Syncer` | the three other reconcilers | system |
| `ApiObjects` | the API types, their generated deep copies, the writes of all handlers | data and system |
| `MC...` | bounds and constants for TLC; `MCPlatform` explores the small modules side by side | instances |
| `BackupProofs`, `DbBackupProofs`, `DeletionProofs`, `RestoreProofs`, `DbRestoreProofs` | theorems about the controllers of `Backup...` and `...Restore...` | proofs |
| `RepositoriesProofs`, `DbControllerProofs` | theorems about the module they are named for | proofs |
| `PlatformProofs` | theorems about `MCPlatform`: `Startup`, `ApiObjects` and `GlobalDb`, and the two above carried over | proofs |

**BackupController.** `versions[b]` is the history of a Backup's phase on the
API server, one entry per write, so its length is the resource version.
`tasks` is the set of DbBackups and PodVolumeBackups, indexed by name: a name
is a target and the second of its creation (`db_backup.go:115`), so two
creations in one second collide. For each process and Backup, `cache` is the
object in the informer's store and `run` is the control of `process()`:
`init` (a backupper is made and lists), `add` (`AddTask` for each target),
`wait` (`WaitSync`), for the stage `db` and then `volume`, then `complete` or
`fail`. `todo`, `waiting`, `watched` and `events` are what is between the
targets and the outcome: targets with no task yet, `backupper.tasks`, the
unfinished tasks the stage's informer knows, and its reports not yet received.
Four facts of the code shape the model:

- The first status write is a patch of the main resource of an object with
  the status subresource: it changes nothing on the server (`Start`).
- The object is the one of the lister, so the phase is also written in the
  store, unless the informer has replaced it (`WriteLocal`, field `linked`).
- A task is waited for whether it could be created or not (`Track`); its name
  may then be the name of another run's task.
- After the deadline the report of the failure is sent with the context that
  has expired, and fails (`CanReport`): the Backup stays new for its readers.

**DbBackupController.** `versions`, `path`, `files` are the API server and
the store; `cache[o]`, `queued[o]`, `run[o]` a process and its only worker;
`leads` the processes that believe they lead. A process that was suspended
with the lease keeps its run (`Elect` with the disturbance `lapse`).
`Reconcile` is `Start` (the update to InProgress, which only the newest
version gets), `Dump`, `Store`, `Complete`, or `Fail` from wherever something
failed. A copy to the file system that fails leaves a torn file; an object is
put as a whole. `dumps[d]` holds the second of each dump made for d, and a path
is `Slot[d]`, what it is made of besides the time, with that second. Two
DbBackups of one database have one slot and use different files unless they are
dumped in the same second (`SecondsApart`).

**BackupDeletion.** The reachable part of `Reconcile`: `Begin`, `Purge` (other
requests under velero's label, `Others`), `Find`, `Mark`, `Forget` for each snapshot,
`SomeFailed` or `Panic`, `Fail`. A patch holds the phase only if the object
had another one (`Report`). The caches of requests and Backups move on their
own. Its own status writes come back as events, so a Failed request is taken
again and again; the code has no predicate that would stop it. The label of the operator
is another one than velero's: `labels` are the requests that have it. `Begin` sends
it with the patch of the status, which does not store it.

**RestoreController.** Built like `BackupController`, with four differences
that are in the code. The first status write is an update of the status, with
the version of the cached object, so one run gets through (`Start`,
`Current`); nothing takes a Restore up again that was left InProgress. What is
played back is a list of snapshots with the label of the Backup, read from the
manager's cache (`Listed`, `Views`), whatever the phase of the Backup: a
snapshot without data becomes a task that can only fail (`TaskEnds`). Of
several PodVolumeBackups of a volume one is kept, of several DbBackups of a
database all are played (`Kept`). The name of a task is made of the second and
of the database or the snapshot ID (`Key`), which is empty for a
PodVolumeBackup that has not ended.

**DbRestoreController.** `content[d]` is what has been fed to a database: a
whole dump, a part of one, or what was there. The path through the engine is
`Open` (the store), `Play`, `PlayEnds` or `PlayFails`, then `Complete` or
`Fail`; `Dumped` and `Reads` say what a dump of a configuration looks like and
which of them the restore command can read, `ToldAs` what the command's end is
taken for (the expression of errors to ignore hides the error that it was
to filter).

**Startup.** `proc[p].pc` walks the objects `main` puts in place: definitions,
the default storage location, the labels of repositories. A read and the
write that follows are two steps; a conflict, a refused call or a panic ends
the process (`Die`), and Kubernetes starts it again (`Start`). `keys` says
whether the pods are given both `MINIO_ACCESS_KEY` and `MINIO_SECRET_KEY`. If
not, as in the manifests of the repository, a location that is there is left as
it is (`LeaveAlone`, `main.go:379`) and the start goes on, so a process may
serve with a location that is not of its release.

**Repositories.** One run of a Backup calls `EnsureRepo` for one repository after
the other (`Free`) and enters a channel for each in its map (`Register`, `Forget`).
Its informer has no filter: the handler hears of every repository of the
namespace, those of other Backups and those the run has dealt with included
(`Deliver`, `Appear`, `Velero`), and looks each up in the map. It looks a channel up
and sends on it in two steps (`LookUp`, then `Receive` or `Panic`), while the run may
take it out and `Close` it. A lookup of any repository while the run writes the
map may end the process (`Collide`), as the Go runtime does when it notices.

**DbController.** A worker and the handler of deletion events, which runs
`RecycleDB` in a predicate, walk statement by statement through the managers
(`Creating`, `Recycling`, `Execute`). `granted[d]` (`server` in the module) is
what the server has of a Db; `pool` the databases this process remembers.

**GlobalDb, DbService, Syncer.** One reconciler each, with the cache it reads
and the world it looks at. `GlobalDb` has the Job that installs a server, at the API server and in the
manager's cache (`install`, `listed`), and its removal at any time after its end. A
pass looks at the cached Job or creates one, and in both cases goes on to mark the
object if the Job is complete or thirty seconds have passed (`GoOn`); `DbService` the patch made of an object and an old copy of it;
`Syncer` a pass over labelled objects that any failing object ends.

**ApiObjects.** For every type the fields that are references, for every
generated `DeepCopyInto` what it makes anew, and for every handler what it
changes and how it sends it. From this `Shared` computes what a copy has in
common with its original. A patch is made against such a copy, so a change
in a shared place would be lost.

**How they fit.** `BackupController` abstracts a DbBackup to a task that is
Pending and then Completed or Failed, once. `SnapshotTask` is that contract, and
`DbBackupController` is shown to implement it, for any number of processes and
faults (`OneOutcome`, theorem `KeepsOutcome`). It may also be removed, which
`BackupController` does not follow. `BackupPromise` is what remains of a Backup
for its readers; `BackupController` implements it (`Promised`, theorem
`KeepsPromise`). The mark of `BackupDeletion` is `MarkDeleting` there. All
disturbances are bounded in TLC by `Allowed[k]` (`Spend`) and not bounded in
the proofs, where `Allowed` is any function to the naturals. `DbRestoreController`
keeps the contract of `SnapshotTask` too, and so does `RestoreController` for
the readers of a Restore. A Restore of a Backup that is Completed starts from
what theorem `CompletedIsSaved` of `BackupProofs` gives: a snapshot with data
of each target (`CreateRestore`, `sound`). `Mut...` definitions are wrong
versions of the definition after them. No action uses them; each shows that a
property notices that mistake.

## The runs

| Run | Instance | Question |
|---|---|---|
| `backup_faults` | 1 process, 1 Backup of a database and a volume, 2 seconds, 2 restarts, 1 each of failed call, lost answer, edit, deletion mark, missed event, re-opened watch | What does Completed promise when everything goes wrong at once (`CompletedHasSnapshots`, `Promised`, the inductive `IInv`)? Is a target saved once (`SnapshotOnce`) and an outcome kept (`CompletedIsFinal`) under the premises they name? |
| `backup_two` | 2 processes, 2 Backups of one database, one second, a stop or crash of one process | All four runs ask for the same task name. Does anyone take the report of another's task for a failure of its own (`FailureHasCause`)? |
| `backup_live` | 1 process, 1 worker, 2 Backups of two databases and a volume, restart, missed event | Does every handler return, and is every Backup reported if no deadline strikes? With two targets in a stage, is Completed still honest (`CompletedHasSnapshots`)? |
| `backup_inprogress` | 1 process, 1 Backup | Is a Backup that runs shown as running? No: see below. |
| `dbbackup_faults` | 2 processes, 1 DbBackup on the file system, 2 seconds, 1 of each disturbance | One dump, one outcome, its own file, started, reported. What several DbBackups at one place may do to each other is left to the theorem `StoredInFull`. |
| `deletion_faults` | 2 requests for one Backup, one made with the label of velero, the other with that of the operator, 2 snapshots, failed call, crash, removal | Marked first, forgotten in the end, no failure without a cause. |
| `deletion_completes` | the same without disturbances | Does a pass without errors complete its request? No: see below. |
| `deletion_label` | the same, none made with the operator's label | Does a request in progress carry the label it was given, by which it should be found? No: see below. |
| `restore_two` | 2 processes, 1 Restore of a Backup of a database and a volume, 2 seconds, any 2 of failed call, lost answer, restart, edit, removal, missed event | Does Completed mean that both were played back (`CompletedIsRestored`, the inductive `IInv`)? Is there one outcome (`OneOutcome`)? There is one snapshot of each target here; repeated ones and names that collide are in the theorem `CompletedRestored`. |
| `dbrestore_faults` | 2 processes, 2 DbRestores into one PostgreSQL database, one of a dump in the custom format and one in the plain format, any one disturbance | Played at most once (`PlayedOnce`, `IInv`), Completed only when the database holds the whole dump (`CompletedIsPlayed`), one outcome. |
| `dbrestore_format` | 1 process, no disturbance | Is a documented format played back when Completed says so? No: see below. |
| `platform` | eight components one by one: the Restore controller with two snapshots of its database and one disturbance of any kind; two processes that start with two definitions, a location and a repository to label; a run that needs two repositories, each new or made before, and two writes of velero; a Db made twice; a GlobalDB, a DbService, a pull secret and a config map; every write of every handler | Liveness of Restores (`HandlerReturns`, `Started`), of start-up (`Serves`), `ComesUp`, `TellsTruth`, `Synced`; safety of start-up, of the channels, of databases and of shared objects. |

*Why the bounds are enough.* Two seconds give every task name a collision and
a way out of it. One of each disturbance puts it at every point of a run; two
restarts let a run be repeated twice, so a third meets the tasks of two others.
Two processes are what a rolling update or a lost lease leaves. One worker is
the worst case for waiting, two Backups the smallest competition. Two
snapshots and two requests are the least with a pass that fails half way and
requests that remove each other. The safety properties are proved for all
values.

*Premises.* `SnapshotOnce` and `CompletedIsFinal` are about one process and no
edits (the first also: no restart); without these premises they do not hold,
because an edit replaces the object in the store while the run has only
written its own copy, and a second process has a store of its own.
`FailureHasCause` is about databases and no API errors. `Reported` is about
runs that nothing disturbs, since nothing takes an InProgress DbBackup up
again. `SnapshotsGo` is about requests made without velero's label: of two that have
it each may remove the other.

In the small modules two processes, two repositories or two writers are the
least that get in each other's way, one fault is enough to show what is not made
up for, and a Db that is made twice shows what the first one left behind. To keep
the number of starts small, the pods of `platform` have no keys only where
there is a location before (the case in which keys matter), and no repository
starts as NotReady (it is taken like a Ready one). `MCPlatform`
explores components that share no state one after the other, not their
product: a behaviour is one of a single component (`part`).

`CompletedIsRestored` leaves out runs that read an old list (`lag`): then a
target may be missing. `CompletedIsPlayed` leaves out two leaders, plain text
and the expression of errors to ignore, where errors go unnoticed. `Recycled`
leaves out failures and restarts, for which the code does not make up.
`CrashHasCause` says what it takes to end the process: a repository whose phase
changes and that is not the run's, or that the run was not told of within its
minute, or that changes once more. `ServingIsReady` leaves out a location that
was there before when the pods have no keys. `CompletedIsStored` and `FInv` leave
out DbBackups that were dumped to one place in the same second
(`SecondsApart`).
`OnlyTimesAreShared` and `CacheIsKept` name the places where the code does not
keep the rule (see below).

*Deadlock.* TLC's check is switched off for `BackupController`,
`RestoreController`, `DbRestoreController` and `MCPlatform`, where everything may
be done for good. `DbBackupController` and `BackupDeletion` always have a next
step (election or resync, the periodic source).

## Fairness

- `BackupController`: workers, watches and deadlines go on (`WF`), and a
  process whose manager failed ends. Nothing is assumed of tasks: they may never end.
- `DbBackupController`: if nobody leads, someone is elected. The worker
  goes on, and dump commands end (they have no deadline in the code: a hazard).
  A key at the head of a first-in-first-out queue gets its turn even though it
  is queued and taken repeatedly, hence `SF` per key.
- `RestoreController`: the same as `BackupController`.
- `Startup`: a process that ended is started again, and goes on.
- `GlobalDb`, `DbService`, `Syncer`: the reconciler runs while it has a key, the
  watch delivers, the manager resyncs (`GlobalDb`), Kubernetes makes the
  service account (`Syncer`). Servers, Jobs and users do as they like.
- `BackupDeletion`: the same `SF` for keys, `WF` for the worker, the watch and
  the fifteen-minute source. Nothing is assumed of calls: they fail as often
  as their bound allows, wherever they like.

## The proofs

`tlapm` checks the proof modules for every value of the constants under the
named assumptions of the modules (typing of the constants, `None` is no name,
`OperatorsAssumption`: there are finitely many processes, and
`PlatformAssumption`: bounds are naturals and there is at least one Db).
`DbController` is instantiated, not extended, so what the theorems of its
proof module need of the constants is a hypothesis: `Dbs # {}`. Nothing bounds
lives, faults, objects or versions in the proofs.

`BackupProofs`:
- `TypeCorrect`: every variable keeps its type. The types alone are inductive.
- `Invariance`: `IInv` is an invariant. `CompletedHasSnapshots` says nothing of
  runs, so it is not inductive. `IInv` follows a target through one: while a
  stage is on, each of its targets is to do, waited for or saved
  (`StageSound`); when the wait begins nothing is to do (`AllAdded`); when the
  last name is crossed off, all are saved, because a report that is not of a
  failure is of a completed task of this Backup (`EventsSound`, `WatchSound`)
  and so the name it crosses off stands for a saved target. `DbsBehind` and
  `AllBehind` carry this over the second stage to the final update, and
  `VersionsHonest` to all later readers. Saved targets stay saved because
  tasks keep their owner and outcome (lemma per action).
- `CompletedIsSaved`: `CompletedHasSnapshots` for any number of processes,
  Backups, targets, workers and disturbances.
- `KeepsPromise`: each step is a step of `BackupPromise` or a stutter.
- `FailedWithCause`: `FailureHasCause`. `CauseInv` says of a run on its way to
  `fail` that a task of its own Backup failed, and with it of the phase written;
  a second run that asks for the same name does not see the other's report.
- `CompletedStays`: `CompletedIsFinal`. With one process and no edits
  (`AloneInv`) only the run and the mark of a deletion change a Backup, a key
  is not handled again before the informer knows a phase (`RunsOnce`), and a
  run that goes on is of a Backup that is not over (`NotOver`).
- `SnapshottedOnce`: `SnapshotOnce`, from `AloneInv` and `OnceInv`: without a
  restart a Backup is run once, a target still ahead of that run has no task
  (`AheadIsNew`), and a target has one task at most (`OnePerTarget`). Here one
  process means one element, so `Operators` must be finite.

`DbBackupProofs`:
- `TypeCorrect`, `Invariance`.
- `DumpedOnce`: a cached phase is one the server had (`CacheHonest`), so the
  update that starts a run succeeds only where the server says New; hence runs
  hold different DbBackups, each InProgress or removed (`RunsHold`,
  `RunsApart`), and what is New was never dumped (`NotDumped`).
- `FilesInvariance`, `StoredInFull`: the file of a run lies where its dump was
  placed (`Placed`, `OwnPlace`) and is there in full before the outcome is written
  (`FileReady`). Another run writes to that place only if it was dumped from the
  same slot in the same second, which `SecondsApart`, the premise inside the
  properties, rules out. Dumps are only added to, so where the premise holds it
  held at every earlier step, and a database may be backed up any number of times.
- `KeepsOutcome`: it implements `SnapshotTask`.

`DeletionProofs`:
- `TypeCorrect`, `Invariance`. `IInv` adds to the types that a pass that
  forgets works on a Backup that is marked or gone (`Marked`), that what a
  cache or a pass has seen did exist (`KnownWasThere`), and that without a
  refused call or a removed Backup nobody has met an error (`NoFailure`).
- `FailedWithCause`: `FailureHasCause`. Passes are repeated on what was
  forgotten before, and a process that ends in the panic starts them again; none of
  that makes a request Failed.
- `MarkedBefore`: the action property `MarkedFirst`. The mark is a patch made
  against an old copy, so the proof rests on `Marked`: a Backup that is marked
  is never shown otherwise again.
- `DoneIsNotReported`: the run `deletion_completes` shows that one pass without
  errors does not complete its request. In general only a pass that finds no
  Backup in the cache does (`OnlyFindNone`), and a cache that knows a Backup
  knows it until that is removed, also after a restart. So a request for a
  Backup the operator knows is not reported as done.

`RestoreProofs`:
- `TypeCorrect`, `Invariance`. The argument has four layers, each inductive
  given those before it. `Held`: the first update needs the version on the
  server, so a run starts only from New and holds its Restore alone.
  `TasksInv`: a stage comes once in a run and lists a snapshot once, so a
  snapshot that is to do has no task yet (`TodoFresh`). `ReportsInv`: a report
  is of a task of the same Restore that has ended. `StageSound`: as in
  `BackupProofs`, what is due is to do, waited for or played back. Names do not
  say here which snapshot they stand for (two snapshots of a database in one
  second share one, and so do unfinished ones), so the last step is about what
  a report can stand for: only a task with data completes, and its name stands
  for one target (`Key`, `NamesAssumption`).
- `CompletedRestored`: `CompletedIsRestored` for any number of processes,
  snapshots and disturbances, also after runs of the Backup that were repeated.
- `PlayedAtMostOnce`: no snapshot gets two tasks from a Restore.
- `KeepsOutcome`: it implements `SnapshotTask`.

`DbRestoreProofs`:
- `TypeCorrect`, `Invariance`: as for DbBackups, the update that starts a run
  succeeds only where the server says New, so runs hold different DbRestores;
  a database that is being played into has one run behind it unless two lead.
- `PlayedAtMostOnce`: what is New was never played (a conjunct of `IInv`).
- `CompletedPlayed`: as long as nobody lost the lease without knowing, the
  leader's one worker is alone with a database from `Open` to `Complete`.
- `KeepsOutcome`: it implements `SnapshotTask`.

`RepositoriesProofs`:
- `Invariance`. Its parts: two versions that differ have a change between them
  (`History`); the run is after one repository at a time (`OneByOne`); where it is
  with each in `EnsureRepo`, and what it has then put in the map (`RunOK`); and
  what the handler has told it (`Told`): a run that waits, with an informer that
  missed nothing, has not been shown a decision yet unless the handler is
  about to send it, and each report is of a change of its own.
- `AnswersArrive` (`Notified`) and `CrashedWithCause` (`CrashHasCause`) follow. A
  run writes the map, or has closed a channel, only while it waits for
  nothing; by `OneByOne` a report made then is of a repository it is not waiting
  for, and that one is not its own, came too late, or changed twice
  (`ReportsHaveCause`).

`DbControllerProofs`:
- `ServesWhenReady`: `ReadyIsUsable`. `UsableInv` says what the rest of a
  creation is worth: each part that a user needs is on the server or still to come
  (`Building`), and no statement of a creation takes one away. Recycling does not
  interfere, because the handler is told of an end only when the first life
  is over (`Lives`).
- `RecycledAtTheEnd`: `Recycled`. `RecycleInv` has two tables, `Making` and
  `Unmaking`: what is on the server when so much of a script is left. Each
  statement is accepted and leads to the next line (`MakingStep`,
  `UnmakingStep`). `Ending` says that a Db with something on the server has its
  account in the pool, so the Secret may go first, and that once the
  informer has seen it go, one event of its end is there or being acted on.

`PlatformProofs`:
- `ReadyWhenServing`: `ServingIsReady` says only what holds at the end.
  `StartInv` says of every object a start has passed, or has read like that, that
  it is there and right, or is the location and the pods have no keys (`Sound`,
  `Passed`); it stays so because every write of every other start makes the object
  better, never worse.
- `AnswersArrive`, `CrashedWithCause`, `ServesWhenReady`, `RecycledAtTheEnd`:
  the theorems of the two modules above for `PlatformSpec`. A component takes
  only steps of its own (`Parts`), so `PlatformSpec` implies the specification
  of each (`RepositoriesRun`, `DbControllerRuns`). The component in
  `MCPlatform` and the one the proof module extends have the same definitions
  (`SameRepositories`, `SameDbController`).
- `CopiesAreDeep`, `ChangesReachServer`, `CachesKept`: the invariants of
  `ApiObjects`. `Cells` and `Shared` are recursive functions over the fields of
  types, and such a function equals its definition only if the recursion
  ends. It does, because types nest seven deep (`Depth1` to `Depth7`,
  `Nesting`): what a definition gives, applied seven times, no longer changes
  (`RecursionOnTypes`, `CellsOf`, `SharedOf`). Depth by depth, the copies of any
  type share nothing (`NothingShared`), but for those of `DeleteBackupRequest`,
  which share only the times (`RequestsShareTimes`). What handlers *fill* is
  therefore never shared (`FillsItsOwn`), so the base of a patch stays what the
  handler started from, and all that it changed differs from it when it sends
  (`ObjectInv`). Every row of the tables is used: a `DeepCopyInto` that forgot
  a reference would break `CleanFields`.
- `ReadyWhenMarked`, `MarkedWhenDue`: of `GlobalDb`. A pass works on a copy that
  may be old, but a write needs the last version; an old version may show a
  marked object as new, never the converse (`GlobalDBInv`). The Job a pass has
  found complete may be an old copy and already removed, hence `done`, the history
  of its completion; a pass that has just created the Job goes on to the mark only
  when the time is up.

Only model-checked: liveness, for which the prover has no fairness
(`HandlerReturns`, `ReportedInTime`, `Started`, `Reported`, `SnapshotsGo`,
`Serves`, `ComesUp`, `TellsTruth`, `Synced`). Every invariant and every action
property that a passing run checks is a theorem; those about `GlobalDb` and
`DoneIsNotReported` go beyond the runs. `DbService` and `Syncer` have liveness
properties only: what they show at a moment may be old, and a patch made from
an old copy may even leave a `DbService` ready without its network for a while.

## What was found

- `deletion_completes`: `errs` is made at `backup_delete_controller.go:167`
  and never nil, so line 175 always takes the failure path. With no error,
  `errors.WithMessage(nil, ...)` is nil and `.Error()` panics; the manager does
  not recover it. A deletion that goes well ends the process, again after
  every restart; the request stays InProgress, the files of dumps and
  the Backup stay. `SnapshotsGo` still holds: the snapshots go before the panic.
- `deletion_label`: the label `easycorp.io/backup_name` is sent with a patch of the
  status, which stores the status only, against the comment at line 157: a request
  in progress does not carry it. Nor would it help if it did, for the requests of a
  Backup are selected by velero's label, `velero.io/backup-name`.
- `dbrestore_format`: `filepath.Ext` returns ".gz" with its dot, so
  `postgresql_dump.go:110` never finds a compressed dump and `gunzip` is never
  started. `psql` ends with success on bytes it cannot read, and the DbRestore
  is Completed with nothing played.
- `backup_inprogress`: the converse. The status is sent with a patch of the main
  resource, which drops it, so the column described as "New/InProgress" shows
  a running Backup as new. This is also what lets a restarted process take the
  Backup up again: were the status stored, a crash would leave it InProgress
  for ever (as it leaves a DbBackup).

Not runs of their own, but exceptions that properties name: the deep copy of
`DeleteBackupRequest` shares the times of its status, because
`zz_generated.deepcopy.go:668` was not generated again after they were added,
against the comment in `deletebackuprequest_types.go:45-46`; it does no harm as
long as handlers put new times in (`ChangesArrive`). Backup and Restore
handlers change the object of the lister, against "must be treated as
read-only" in the comments of the listers, so the informer has phases the
server never had when a write is refused (`CacheIsKept`).

## What is left out

Temporary dump files of the pod; wording, timestamps and messages of statuses;
the phase "" is the phase New. In `BackupController`
`EnsureRepo` succeeds or fails in one step; its inside is `Repositories`.
Which pod a PVC is backed up through is not modelled: `Selected` gives the
PVCs. Backups and their tasks are not removed while a Backup runs. The namespaces of the
informer and of the created tasks are taken to be the same. In
`DbBackupController` the bytes of a dump are the name of the DbBackup they
were made for. In `BackupDeletion` the run of the Backup is over before it is
deleted, the marking and the list that follows it are one step unless the list
fails, one process leads, and the code after line 175 is not modelled because
it is not reachable. A DbBackup that shares its place and second with another may lose
its file (hazard, `dbbackup_controller.go:219`): this is what `SecondsApart` excludes.

The typed clients, fakes, listers and informer factories under `pkg/client` are
forwarding code: their calls are the steps of the controllers, and of the
informers one stands for all (`ApiObjects`, `WatchGap`, `Listed`). Not
modelled: logging and settings; `value_read.go`, a lookup (it reads a reference
to a config map as one to a Secret); `credentials/file_store.go`, which writes
a key over a longer old one without cutting it; `src/main.go`, a scaffold that
is not built into the image; the parts of `backup_delete_controller.go` that
are never reached. `FindBackupPvcs` is the constant `Selected`.

## The plan

Done: the controllers of Backups and Restores with their tasks, repositories,
database managers, start-up, the reconcilers that are not registered, and the
types they share; theorems for every safety property the passing runs check.
Left:

1. `BackupSystem`: Backup, DbBackup and deletion together: a Backup deleted while
   it runs, the mark overwritten by a blind patch, labelled requests that
   remove each other.
2. Temporary files of dumps and restores, and the credential file, as a module.
3. The work queue with its dirty and processing sets, which `Take` and `Requeue`
   abstract.
4. Proofs: what `BackupDeletion` leaves of a Backup, stated as a second abstract
   specification beside `BackupPromise`, which does not forget snapshots.
