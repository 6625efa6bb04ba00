\* The wait of the last coordinator and the notification of a submission.
CONSTANTS
  NumWorkers = 1
  SlotsPerWorker = 2
  NumCoordinators = 1
  Dims = {"s4"}
  Trials = 1
  LaunchSlots = 1
  MaxCalls = 1
  MaxPuzzles = 1
SPECIFICATION FairSpec
PROPERTIES
  CallsReturn
