SPECIFICATION MCSpec
CONSTANTS
  cpu = cpu
  l1 = l1
  slow = slow
  Objects <- MCObjects
  TaskOf <- MCTaskOf
  Latency <- MCLatency
  StepMod = 2
  TickMod = 4
  N = 3
  Stoppers <- MCStoppers
  Items = {a, b}
  Shapes <- MCShapes
  Unit = 2
  BusTopologies <- MCTopologies
  BusPort2Node <- MCPort2Node
  BusWidths <- MCWidths
  BusWidth = 2
  BusPacks = {1, 2}
  BusMessages = 2
  BusThreads = FALSE
  LaunchParams <- MCLaunchParams
  RWThreads = {r1, r2, r3}
INVARIANTS Lockstep Cadence MessagesInOrder RWExclusive MachineWired
PROPERTIES AbstractBarrier TimeAdvances StopInsideTickJoins ImplementsFifo MessagesArrive
CHECK_DEADLOCK FALSE
