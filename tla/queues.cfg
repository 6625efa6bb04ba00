\* The work queues with ties, full queues, two levels and two priorities; two
\* producers and two consumers on a ring of two cells that wraps twice.
CONSTANTS
  NumLevels = 2
  NumPriors = 2
  Limit = 2
  Jitters = 2
  MaxMiss = 1
  MaxElts = 4
  Producers = {p1, p2}
  Consumers = {c1, c2}
  Cap = 2
  MaxPushes = 2
  None = None
SPECIFICATION MCSpec
INVARIANTS
  QueuesSound
  EmptyIsHonest
PROPERTIES
  LossesJustified
  RefusalsJustified
  ImplementsIdQueue
