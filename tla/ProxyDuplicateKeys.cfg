CONSTANTS
  k1 = k1
  k2 = k2
  g1 = g1
  r1 = r1
  r2 = r2
  None = None
  Default = Default
  Garbage = Garbage
  Keys = {k1, k2}
  NumServers = 1
  Gets = {g1}
  Reloads = {}
  Shard <- MCShard
  Requests <- MCRequests
  Files <- PlainFiles
  BlockSize = 1
  MaxFaults = 0
SPECIFICATION Spec
CHECK_DEADLOCK FALSE
INVARIANTS
  FoundMeansFound
