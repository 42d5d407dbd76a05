SPECIFICATION Spec
CONSTANTS
  Subscriptions = {s1}
  Keys = {k1}
  Requests = {r1, r2, r3}
  MaxDrawn = 3
INVARIANTS
  ActiveIsProven
  EventsAreAccountedFor
  SecretHasItsKey
SYMMETRY Symmetry
PROPERTIES
  DeletedForGood
