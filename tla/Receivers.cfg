SPECIFICATION MCSpec
CONSTANTS
  None = None
  Events = {"event", "other"}
  Workers = {w1, w2}
  Contents <- SomeContents
  Tolerance = 1
  Skew = 1
  ProcessingTtl = 1
  MaxClock = 5
  MaxSecret = 2
  MaxSent = 2
  MaxLeases = 2
  MaxRuns = 2
  Words <- SomeWords
  Showings <- SomeShowings
INVARIANTS
  StoresHold
  ClaimsSpentWell
  FormsAgree
SYMMETRY Symmetry
PROPERTIES
  AcceptedOncePerWindow
  VerdictIsFinal
CHECK_DEADLOCK FALSE
