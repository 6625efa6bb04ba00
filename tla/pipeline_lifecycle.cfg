\* One worker, two slots, two coordinators and queues, two expansions, shutdown.
CONSTANTS
  NumWorkers = 1
  SlotsPerWorker = 2
  NumCoordinators = 2
  Dims = {"s4"}
  Trials = 1
  LaunchSlots = 2
  MaxCalls = 2
  MaxPuzzles = 2
SPECIFICATION FairSpec
INVARIANTS
  TypeOK
  SingleCustody
  WorkersAccounted
  NoWorkAbandoned
PROPERTIES
  InputFrozen
  ImplementsService
  ClaimedCompletes
  CallsReturnIfAwake
  ShutdownJoinsIfAwake
