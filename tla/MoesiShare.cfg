SPECIFICATION FairSpec
CONSTANTS
  x = x
  y = y
  Accesses <- AllLines
  NumL1 = 3
  Lines = {x}
  MaxData = 1
  Ways = 1
  MSHRNum = 1
  Reservers = {}
  RecvBufSize = 3
  ProcBufSize = 2
  BlkWays = 1
  DirWays = 2
  MemDepth = 2
INVARIANTS DirKnowsHolders
PROPERTIES Coherent MSHRsFreed
