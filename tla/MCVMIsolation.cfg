SPECIFICATION Spec
CONSTANTS
  p1 = p1
  p2 = p2
  f1 = f1
  f2 = f2
  f3 = f3
  f4 = f4
  f5 = f5
  code = code
  stack = stack
  heap = heap
  top = top
  Procs <- TwoProcs
  Frames <- FourFrames
  Image <- Code
  ReadOnly <- Code
  Grown <- StackAndHeap
  StackPages <- OneStack
  Top = top
  Values <- OneValue
  Slots = 3
  MaxTicks = 1
  MaxLive = 2
  None = None
INVARIANTS Isolation
SYMMETRY FrameSymmetry
CHECK_DEADLOCK FALSE
