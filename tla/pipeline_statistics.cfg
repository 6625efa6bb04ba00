\* The statistics of a launch and the reuse of its slot by the worker.
CONSTANTS
  NumWorkers = 1
  SlotsPerWorker = 2
  NumCoordinators = 1
  Dims = {"s4"}
  Trials = 2
  LaunchSlots = 2
  MaxCalls = 1
  MaxPuzzles = 2
SPECIFICATION Spec
INVARIANTS
  StatisticsExact
