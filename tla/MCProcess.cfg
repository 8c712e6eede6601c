SPECIFICATION FairSpec
CONSTANTS
  main = main
  p1 = p1
  p2 = p2
  Pages <- TwoPages
  Main = main
  MaxTid = 4
  Statuses <- OneStatus
  None = None
INVARIANTS FamilyLinks ExecTellsTruth WaitTellsTruth
PROPERTIES CallsAnswered
\* The initial thread powers off, or everybody waits.
CHECK_DEADLOCK FALSE
