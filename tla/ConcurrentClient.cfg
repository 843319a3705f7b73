CONSTANTS
  c1 = c1
  c2 = c2
  c3 = c3
  Calls = {c1, c2, c3}
  Plans <- MCPlans
  MaxSpurious = 1
  Nobody = Nobody
  NoHeader = NoHeader
SPECIFICATION FairSpec
CHECK_DEADLOCK FALSE
INVARIANTS
  OwnAnswer
  NoLostHandOver
PROPERTIES
  CallsEnd
