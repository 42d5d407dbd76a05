SPECIFICATION Spec
CONSTANTS
  Scopes = {s1}
  Hashes = {h1, h2}
  Requests = {r1, r2}
  None = None
  Threshold = 1
  MaxLeases = 3
INVARIANTS
  AtMostOneCall
  AnswersAreTrue
SYMMETRY Symmetry
PROPERTIES
  SettledIsFinal
