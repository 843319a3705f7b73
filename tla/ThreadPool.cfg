CONSTANTS
  Workers = {w1, w2, w3}
  Tasks = {t1, t2, t3}
  Owner = Owner
  Nobody = Nobody
  NoTask = NoTask
  MaxSpurious = 1
SPECIFICATION FairSpec
CHECK_DEADLOCK FALSE
INVARIANTS PoolInv NoLostWakeup ExitDrained AcceptedOnce
PROPERTIES
  ImplementsExecutor
  ExecutorRunsTasks
  DestructorReturns
