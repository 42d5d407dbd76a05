SPECIFICATION FairSpec
CONSTANTS
  Scopes = {s1}
  Hashes = {h1}
  Requests = {r1, r2}
  None = None
  Threshold = 1
  MaxLeases = 1
PROPERTIES
  EveryCallEnds
