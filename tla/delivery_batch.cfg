SPECIFICATION Spec
CONSTANTS
  Messages = {m1, m2}
  Workers = {w1}
  Dispatchers = {d1, d2}
  Api = api
  TaskIds = {t1, t2, t3}
  NoOwner = none
  MAX_RETRIES = 0
  REENQUEUE_AFTER = 0
  STALE_SENDING_AFTER = 2
  TASK_TIME_LIMIT = 1
  MAX_WAIT = 1
  DISPATCH_BATCH_SIZE = 2
  CLEANUP_BATCH_SIZE = 1
  Schedules = {"none", "future"}
  MaxAttempts = 2
  Faults = {"outage"}
  MaxFaults = 1
SYMMETRY Interchangeable
CHECK_DEADLOCK FALSE
INVARIANT
  NotSentEarly
