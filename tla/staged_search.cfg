CONSTANTS
  Workers = {w1, w2}
  NumStages = 2
  Target = 2
  Names = {a, b}
  Nameless = Nameless
  a = a
  b = b
  Perfect <- PerfectPuz
  MaxResults = 2
  RestartThresh = 0
  MaxEvents = 1
SPECIFICATION FairSpec
INVARIANTS
  TypeOK
  WindowLinked
  ExpandedOnce
  SolutionsKept
  CheckpointComplete
PROPERTIES
  CheckpointServed
