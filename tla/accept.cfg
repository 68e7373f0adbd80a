SPECIFICATION FairSpec
CONSTANTS
  Requests = {r1, r2}
  Keys = {k1, k2}
  Contents = {c1, c2}
  Later = {c2}
  Templates = {t1}
  MaxVersion = 1
  MaxId = 3
  MaxRetries = 2
  MaxRemovals = 1
CHECK_DEADLOCK FALSE
INVARIANTS
  TypeOK
  SameMessage
  OneTask
  RaceLoserIsAnswered
PROPERTIES
  ImplementsStore
  EveryRequestAnswered
