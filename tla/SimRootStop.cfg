CONSTANTS
  cpu = cpu
  l1 = l1
  slow = slow
  Objects <- MCObjects
  TaskOf <- MCTaskOf
  Latency <- MCLatency
  StepMod = 2
  TickMod = 4
  N = 2
  Stoppers <- MCStoppers
SPECIFICATION FairSpec
PROPERTY StopJoins
CHECK_DEADLOCK FALSE
