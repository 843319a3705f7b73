CONSTANTS
  k1 = k1
  k2 = k2
  g1 = g1
  r1 = r1
  r2 = r2
  None = None
  Default = Default
  Garbage = Garbage
  Keys = {k1, k2}
  NumServers = 2
  Gets = {g1}
  Reloads = {r1, r2}
  Shard <- MCShard
  Requests <- OneRequest
  Files <- MCFiles
  BlockSize = 1
  MaxFaults = 0
  MaxRestarts = 1
SPECIFICATION SpecWithRestarts
CHECK_DEADLOCK FALSE
CONSTRAINT IntactClients
INVARIANTS
  OwnLinesOrNone
PROPERTIES
  AcknowledgedLines
  EveryCallEnds
