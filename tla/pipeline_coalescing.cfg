\* Two workers share one coordinator: batches of both are coalesced or deferred.
CONSTANTS
  NumWorkers = 2
  SlotsPerWorker = 2
  NumCoordinators = 1
  Dims = {"s4", "s5"}
  Trials = 2
  LaunchSlots = 2
  MaxCalls = 1
  MaxPuzzles = 3
SPECIFICATION Spec
INVARIANTS
  NothingDropped
  OwnResults
  EveryCandidateOnce
  LaunchNeverThrows
