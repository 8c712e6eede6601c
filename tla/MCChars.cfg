SPECIFICATION Spec
CONSTANTS
  main = main
  idle = idle
  t1 = t1
  console_lock = console_lock
  tx_lock = tx_lock
  in_lock = in_lock
  None = None
  Vacant = Vacant
  Threads <- AllThreads
  Main = main
  Idle = idle
  Semas <- Locks
  LockSemas <- Locks
  TIME_SLICE = 1
  IntrOff <- Off
  TxSlots = 2
  InSlots = 2
  LineLength = 2
  Readers <- Both
  Writers <- Both
  Console = console_lock
  TxLock = tx_lock
  InLock = in_lock
INVARIANTS LinesWhole QueuesKept
PROPERTY WriterWoken
CHECK_DEADLOCK FALSE
