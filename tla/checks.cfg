\* S is the height of the faces.  Puzzles of at most four rows; heights above three go the way check has for
\* puzzles too high to be searched in both directions.
CONSTANTS
  S = 4
  K = 2
  BiLimit = 3
  Puzzles0 <- MCPuzzles
SPECIFICATION MCSpec
INVARIANTS
  SearchSound
  CheckersExact
  MeasuresHonest
  EdgesRemoved
CHECK_DEADLOCK FALSE
