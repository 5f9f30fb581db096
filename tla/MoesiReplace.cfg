SPECIFICATION Spec
CONSTANTS
  x = x
  y = y
  Accesses <- AllLines
  NumL1 = 2
  Lines = {x, y}
  MaxData = 1
  Ways = 1
  MSHRNum = 1
  Reservers = {}
  RecvBufSize = 2
  ProcBufSize = 2
  BlkWays = 1
  DirWays = 2
  MemDepth = 2
SYMMETRY Symmetry
INVARIANTS ReadsLatest
CHECK_DEADLOCK FALSE
