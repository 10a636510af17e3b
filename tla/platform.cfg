CONSTANTS
  Operators = {o1}
  Restores = {r1}
  Backups = {b1}
  d1 = d1
  v1 = v1
  sd = sd
  se = se
  sv = sv
  Dbs = {d1}
  Pvcs = {v1}
  Snapshots = {sd, se, sv}
  NumWorkers = 1
  MaxTime = 1
  Faults = {"api", "lost", "restart", "edit", "delete", "gap", "lag"}
  Budget = 1
  None = None
  Kinds <- AllKinds
  Allowed <- Bounds
  Source <- SourceOf
  Selected <- SelectAll
  Of <- SnapshotOf
  From <- FromOne
  Processes = {p1, p2}
  NumCrds = 2
  NumRepos = 1
  MaxFaults = 1
  RepoNames = {x1, x2}
  MaxWrites = 2
  ServedDbs = {d1}
  MaxLives = 2
  Secrets = {pull}
  ConfigMaps = {conf}
  MaxSlips = 2
SPECIFICATION PlatformSpec
CHECK_DEADLOCK FALSE
INVARIANTS ServingIsReady Notified CrashHasCause ReadyIsUsable Recycled OnlyTimesAreShared ChangesArrive CacheIsKept
PROPERTIES HandlerReturns Started Serves ComesUp TellsTruth Synced
