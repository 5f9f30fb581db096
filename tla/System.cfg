SPECIFICATION MCSpec
CONSTANTS
  NumCpus = 2
  NumThreads = 3
  Futexes = {11}
  Masks = {}
  MaxReqs <- MCReqs
  Kinds <- MCKinds
  Faulting = {2}
  Clearing = {2}
  HostRaces = FALSE
  NumProcs = 2
  NumPages = 5
  HeapTop = 2
  MmapTop = 7
  Lens = {1, 3}
  Touched = {1}
  StoreFlag = "w"
  ProtectShared = FALSE
  FdProcs = 2
  HostFds = 5
  MaxFiles = 4
  UsedFds = {1, 3}
  SimFds = 4
  SmemHead = 2
  SmemSize = 8
  SmemLens = {1, 2, 3}
INVARIANTS ThreadsKept NoneStranded StopsWhenDone WaitMapsExact Isolated PagesAccounted FdsMeanFiles SmemPartitioned
CHECK_DEADLOCK FALSE
