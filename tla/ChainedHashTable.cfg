CONSTANTS
  k1 = k1
  k2 = k2
  k3 = k3
  k4 = k4
  k5 = k5
  Keys = {k1, k2, k3, k4, k5}
  Values = {v1, v2}
  Hash <- MCHash
  InitialSize = 1
  NullPtr = NullPtr
SPECIFICATION Spec
INVARIANTS
  TableInv
  LoadBounded
PROPERTIES
  ImplementsMap
