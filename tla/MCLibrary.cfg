SPECIFICATION LibrarySpec
CONSTANTS
  t1 = t1
  t2 = t2
  Threads <- TwoThreads
  PageCnt = 4
  BlocksPerArena = 2
  Counts <- OneOrTwo
  MaxHeld = 2
  None = None
  Vacant = Vacant
  WordBits = 4
  Bytes = 4
  TypeBits <- MCTypeBits
  BufSize = 3
  PerLine = 4
  MinBuckets = 1
  ElemBits = 3
  NameSize = 4
  OctalSize = 5
  SectorSize = 2
  DeviceSize = 6
  Signature = 7
  WordSize = 8
  MaxKernel = 4
  SectorMod = 16
  SizeMod = 20000
  MaxDepth = 3
  ArgsLen = 8
  COL_CNT = 3
  ROW_CNT = 2
  TabStop = 2
  MaxPaper = 4
  DiskSectors = 7
  EntryCnt = 2
  SectorBytes = 2
  MaxOpen = 1
  StackTop = 100
  StackSize = 36
  BufSiz = 3
  MaxRelay = 4
  Cases <- MCCases
  HashElems <- MCHashElems
  Keys <- MCKeys
  Characters <- MCCharacters
  FileNames <- MCFileNames
  FileSizes <- MCFileSizes
INVARIANTS MemoryAccounted TextAndNumbersRight ContainersRight KernelEntered TerminalRight StorageRight
SYMMETRY ThreadSymmetry
