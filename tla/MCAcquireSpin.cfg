SPECIFICATION FairSpec
CONSTANTS
  main = main
  idle = idle
  a = a
  b = b
  l1 = l1
  l2 = l2
  s1 = s1
  c1 = c1
  None = None
  Main = main
  Idle = idle
  LockOf <- CondLock
  InitValue <- SemaInit
  Threads <- TwoThreads
  Locks <- OneLock
  Semaphores <- NoSema
  Conds <- NoCond
  SleepArgs <- NoSleep
  PRI_MAX = 1
  PRI_DEFAULT = 0
  TIME_SLICE = 1
  MaxTicks = 1
  MaxValue = 1
PROPERTIES AcquireLeavesLoop
\* The model's clock stops at MaxTicks.
CHECK_DEADLOCK FALSE
