CONSTANTS
  k1 = k1
  k2 = k2
  k3 = k3
  k4 = k4
  Keys = {k1, k2, k3, k4}
  Values = {v1, v2}
  HashSize = 3
  Hash <- MCHash
  Sizes <- MCSizes
  NullPtr = NullPtr
CHECK_DEADLOCK FALSE
SPECIFICATION FairSpec
INVARIANTS
  MapInv
  Permutation
  SwapInBucket
  FindsWhatWasLoaded
PROPERTIES
  Constructed
