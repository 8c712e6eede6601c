SPECIFICATION Spec
CONSTANTS
  p1 = p1
  p2 = p2
  Procs <- Two
  Main = Main
  Executables <- SomeExecutables
  Touched <- TwoPages
  KernelPages <- Kernel
  UserPages <- User
  InitPageDir = 0
  PGSIZE = 2
  PtEntries = 3
  PhysBase = 12
  AddrMod = 16
  None = None
INVARIANTS PagesOwned DirectoryLive TlbInSync ImageLoaded
VIEW UpToPages
SYMMETRY ProcSymmetry
