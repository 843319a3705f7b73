CONSTANTS
  k1 = k1
  k2 = k2
  g1 = g1
  r1 = r1
  r2 = r2
  None = None
  Default = Default
  Garbage = Garbage
  Keys = {k1, k2}
  NumServers = 2
  Gets = {g1}
  Reloads = {r1, r2}
  Shard <- MCShard
  Requests <- OneRequest
  Files <- MCFiles
  BlockSize = 1
  MaxFaults = 1
SPECIFICATION Spec
CHECK_DEADLOCK FALSE
CONSTRAINT IntactClients
INVARIANTS
  ContentInv
  StagingTargets
  LoadingMutex
  GetSnapshot
  ReloadInstallsAll
  StagingClean
PROPERTIES
  ServedStoreFrozen
