SPECIFICATION Spec
CONSTANTS
  prog = prog
  other = other
  third = third
  g1 = g1
  g2 = g2
  g3 = g3
  Names <- ThreeNames
  Program = prog
  LastSector = 6
  DirEntries = 2
  Lengths <- ShortLengths
  Files <- ThreeFiles
  Values <- OneValue
  None = None
INVARIANTS SectorsAccounted InodesCounted DeniedOnlyWhileRunning
PROPERTY ContentsOnlyWritten
VIEW LiveState
SYMMETRY FileSymmetry
CHECK_DEADLOCK FALSE
