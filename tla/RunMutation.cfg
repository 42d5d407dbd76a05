SPECIFICATION Spec
CONSTANTS
  Scopes = {s1}
  Hashes = {h1, h2}
  Requests = {r1, r2, r3}
  None = None
  MaxLeases = 3
INVARIANTS
  SoleWorker
  AtMostOncePerGeneration
  EffectIsRecorded
  AnswersAreTrue
SYMMETRY Symmetry
PROPERTIES
  UnknownOutcomeSticks
  KeepsContract
