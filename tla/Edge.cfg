SPECIFICATION MCSpec
CONSTANTS
  Submissions = {s1, s2}
  None = None
  MaxAttempts = 2
  Timeout = 1
  Skew = 3
  Lifetimes <- Life
  DefaultLife = 4
  BodyTime = 1
  MaxNow = 4
  MaxTokens = 2
  MaxMounts = 2
  MaxEvents = 1
  Senders = {c1}
  MaxResends = 2
  ReadAttempts = 2
  MaxRounds = 2
  Nothing = Nothing
  Batches <- SomeBatches
  MaxExecutions = 2
  MaxLoops = 2
  MaxTries = 2
  Dispatchers = {d1, d2}
  Deliveries <- SomeDeliveries
  Applications = {"a1", "a2"}
  NoWork = NoWork
  MaxMoves = 1
INVARIANTS
  OneLeadEach
  PageIsTrue
  ExpiredOnlyWhenLate
  OutcomesAreTrue
  NodeIsTrue
  HandoffIsTrue
PROPERTIES
  EveryCommandEnds
CHECK_DEADLOCK FALSE
