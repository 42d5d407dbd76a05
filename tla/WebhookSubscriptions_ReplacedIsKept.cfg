SPECIFICATION Spec
CONSTANTS
  Subscriptions = {s1}
  Keys = {k1, k2}
  Requests = {r1, r2}
  MaxDrawn = 3
PROPERTIES
  ReplacedIsKept
