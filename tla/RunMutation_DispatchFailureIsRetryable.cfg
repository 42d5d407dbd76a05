SPECIFICATION Spec
CONSTANTS
  Scopes = {s1}
  Hashes = {h1}
  Requests = {r1, r2}
  None = None
  MaxLeases = 3
INVARIANTS
  DispatchFailureIsRetryable
