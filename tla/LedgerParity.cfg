SPECIFICATION Spec
CONSTANTS
  Hashes = {h1, h2}
  None = None
  MaxLeases = 3
INVARIANTS
  StoresAgree
  SameLeaseSameState
PROPERTIES
  UnknownOutcomeSticks
