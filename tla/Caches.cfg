SPECIFICATION MCSpec
CONSTANTS
  NumL1 = 3
  Lines = {1, 2}
  MaxData = 1
  RecvBufSize = 1
  ProcBufSize = 1
  BlkWays = 1
  DirWays = 2
  MemDepth = 2
  Accesses <- Alone
  Ways = 1
  MSHRNum = 2
  Reservers = {0}
  PrivL2Ways = 1
  PrivL1Ways = 1
  PrivMSHRs = 1
  PrivPrograms <- MCPrograms
  DmaPort = 2
  DmaWorkloads <- MCWorkloads
  DmaLineWords = 2
  DmaMSHRs = 2
  SccL1s = 2
  SccLines = {1, 2}
  SccWays = 1
  SccLLCWays = 1
  SccLoads <- SccReads
  SccStores <- SccWrites
  SccReserving = {0}
  SccBus = 0
  SccIndex = 0
  SccMem = 0
INVARIANTS PrivReadsLatest PrivInclusive PrivReservation DmaExact  CachesNeverAbort
PROPERTIES PrivCoherent
CHECK_DEADLOCK FALSE
