SPECIFICATION Spec
CONSTANTS
  x = x
  y = y
  Accesses <- Uneven
  NumL1 = 2
  Lines = {x, y}
  MaxData = 1
  Ways = 1
  MSHRNum = 2
  Reservers = {}
  RecvBufSize = 2
  ProcBufSize = 1
  BlkWays = 2
  DirWays = 2
  MemDepth = 2
INVARIANTS ReadsLatest L1NeverAborts
CHECK_DEADLOCK FALSE
