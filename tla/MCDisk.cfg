SPECIFICATION Spec
CONSTANTS
  main = main
  idle = idle
  t1 = t1
  lock = lock
  completion = completion
  Threads <- AllThreads
  Main = main
  Idle = idle
  Semas <- ChannelSemas
  LockSemas <- ChannelLocks
  TIME_SLICE = 1
  IntrOff <- Off
  Kinds <- SomeKinds
  Size <- OneSector
  Parts <- SomeParts
  WORD = 8
  PartOf <- PartTable
  Values <- OneValue
  Lock = lock
  Completion = completion
  Faults = 1
  Spurious = 1
INVARIANTS OneRequest ReadsLastWrite RequestsEnd
CHECK_DEADLOCK FALSE
