\* Ties, full queues and an element nobody filled in.
CONSTANTS
  NumLevels = 2
  NumPriors = 2
  Limit = 2
  Jitters = 2
  MaxMiss = 1
  MaxElts = 4
SPECIFICATION Spec
INVARIANTS
  SearchedTypesNamed
