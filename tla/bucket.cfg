SPECIFICATION Spec
CONSTANTS
  RATE = 5
  TOKEN = 30
  BURST = 3
  REQ = 1
  SECOND = 2
  FLOAT = 1
  Grains = {1, 3}
  GRAIN = 3
  MaxBack = 2
  MaxAhead = 2
  MaxFlushes = 1
INVARIANTS
  TypeOK
  RateBound
  RetryAfterSuffices
PROPERTY
  ExpiryIsInvisible
