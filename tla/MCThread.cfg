SPECIFICATION ThreadFairSpec
CONSTANTS
  main = main
  idle = idle
  a = a
  b = b
  Threads <- MCThreads
  Main = main
  Idle = idle
  PRI_MAX = 1
  PRI_DEFAULT = 1
  TIME_SLICE = 2
  MaxTicks = 5
  SleepArgs <- MCSleepArgs
INVARIANTS ListsMatchStatus AlarmBound HighestPriorityRuns
PROPERTIES WakeWindow SleeperWakes
\* The model's clock stops at MaxTicks.
CHECK_DEADLOCK FALSE
