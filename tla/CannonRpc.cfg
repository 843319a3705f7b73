CONSTANTS
  MaxLen = 2
  LaterLen = 0
  MaxCalls = 5
  MaxCrashes = 1
SPECIFICATION Spec
CHECK_DEADLOCK FALSE
INVARIANTS
  Understood
  NothingLeft
  FailsTwiceAtMost
