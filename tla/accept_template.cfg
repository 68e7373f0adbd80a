SPECIFICATION Spec
CONSTANTS
  Requests = {r1, r2}
  Keys = {k1}
  Contents = {c1, c2}
  Later = {c2}
  Templates = {t1, t2}
  MaxVersion = 2
  MaxId = 1
  MaxRetries = 0
  MaxRemovals = 0
CHECK_DEADLOCK FALSE
INVARIANT
  RepeatGetsWhatItAskedFor
