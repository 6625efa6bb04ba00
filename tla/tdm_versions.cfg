\* Every instance of a strong puzzle with three rows and two columns; batches of up
\* to two of them, of different sizes, launched twice.
CONSTANTS
  S = 3
  K = 2
  Strong = TRUE
  None = None
  Inputs <- MCInputs
  BatchInputs <- MCInputs
  MaxTrials = 2
  MaxLaunches = 2
  IntMax = 31
  SafeRounds = 3
SPECIFICATION MCSpec
INVARIANTS
  VersionsAgree
  TrialsExact
  MatchingsPreserved
  BaselineExact
PROPERTIES
  VersionsImplementLoop
