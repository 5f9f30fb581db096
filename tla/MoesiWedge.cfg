SPECIFICATION Spec
CONSTANTS
  x = x
  y = y
  Accesses <- AllLines
  NumL1 = 5
  Lines = {x}
  MaxData = 1
  Ways = 1
  MSHRNum = 1
  Reservers = {}
  RecvBufSize = 4
  ProcBufSize = 2
  BlkWays = 1
  DirWays = 1
  MemDepth = 2
INVARIANTS NeverWedged
CHECK_DEADLOCK FALSE
