SPECIFICATION MCSpec
CONSTANTS
  XLen = 4
  P5Cases <- MCP5Cases
  P5Misses = 1
  P5Races = FALSE
  XSCases <- MCXSCases
  XSWidth = 2
  XSRob = 4
  XSPhys = 7
  XSCheckpoints = 1
  XSStation = 2
  XSStoreQueue = 4
  XSLoadQueue = 4
  XSStoreBuffer = 4
  XSTargets = {0, 3, 8}
  XSDelays = 6
  XSPatience = 40
  PredCodes <- MCPredCodes
  PredHist = 3
  PredFolds <- MCPredFolds
  PredRas = 2
  PredFtq = 1
  PredDepth = 1
  PredTargets = {0}
  DecWords <- MCDecWords
  TageHist <- MCTageHist
  TageMax = 1
  TageWays = 2
  TageTicks = 4
  ScHist <- MCScHist
  ScMax = 3
  ScThresholds <- MCThresholds
  ItHist <- MCItHist
  TageRounds = 3
  TageHits = TRUE
  TagePatience = 12
INVARIANTS P5TlbSuffices XSBypassSuffices XSRenameExact XSAlive PredictionFollows TageLearns DecodersAgree OperationsAgree
PROPERTY P5Finishes
CHECK_DEADLOCK FALSE
