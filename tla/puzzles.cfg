\* A filter of five bits, three instances, and the small puzzles of the module.
CONSTANTS
  Puzzles <- MCPuzzles
  Key <- MCKey
  HashA <- MCHashA
  HashB <- MCHashB
  NumBits = 5
  NumHashes = 2
  MaxSeen = 4
  Full = 5
  Small = 3
  Contents = 3
  S = 4
  K = 2
  Count = 3
  FitPuzzles <- MCFitPuzzles
  StrongUsp <- MCStrongUsp
  Skip <- MCSkip
SPECIFICATION MCSpec
INVARIANTS
  CacheHonest
  CountHonest
  MarksCurrent
  GraphExact
  AnswersExact
  OperationsExact
PROPERTIES
  NextIsSuccessor
