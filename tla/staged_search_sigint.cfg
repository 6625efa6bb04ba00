CONSTANTS
  Workers = {w1}
  NumStages = 2
  Target = 2
  Names = {a, b}
  Nameless = Nameless
  a = a
  b = b
  Perfect <- PerfectPuz
  MaxResults = 2
  RestartThresh = 0
  MaxEvents = 2
SPECIFICATION Spec
PROPERTIES
  SigintStopsWork
