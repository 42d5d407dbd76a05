SPECIFICATION Spec
CONSTANTS
  Calls = {c1, c2, c3}
  MaxStarts = 2
  Mounted = FALSE
INVARIANTS
  EndIsTrue
  NothingEscapes
  LateSessionIsStopped
SYMMETRY Symmetry
CHECK_DEADLOCK FALSE
