SPECIFICATION Spec
CONSTANTS
  p1 = p1
  p2 = p2
  f1 = f1
  f2 = f2
  f3 = f3
  f4 = f4
  f5 = f5
  code = code
  stack = stack
  heap = heap
  top = top
  Procs <- OneProc
  Frames <- FiveFrames
  Image <- Code
  ReadOnly <- Code
  Grown <- StackAndHeap
  StackPages <- OneStack
  Top = top
  Values <- OneValue
  Slots = 3
  MaxTicks = 1
  MaxLive = 1
  None = None
INVARIANTS FramesAccounted PageData OldestFirst PanicsExplained
SYMMETRY FrameSymmetry
CHECK_DEADLOCK FALSE
