\* One face with two rows is enough for a thread to leave a loop the other is in.
CONSTANTS
  S = 2
SPECIFICATION Spec
INVARIANTS
  ComponentsKept
CHECK_DEADLOCK FALSE
