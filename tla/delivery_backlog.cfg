SPECIFICATION Spec
CONSTANTS
  Messages = {m1}
  Workers = {w1, w2}
  Dispatchers = {d1, d2}
  Api = api
  TaskIds = {t1, t2, t3}
  NoOwner = none
  MAX_RETRIES = 1
  REENQUEUE_AFTER = 0
  STALE_SENDING_AFTER = 1
  TASK_TIME_LIMIT = 1
  MAX_WAIT = 4
  DISPATCH_BATCH_SIZE = 1
  CLEANUP_BATCH_SIZE = 1
  Schedules = {"none"}
  MaxAttempts = 4
  Faults = {"outage"}
  MaxFaults = 1
SYMMETRY Interchangeable
CHECK_DEADLOCK FALSE
INVARIANTS
  NotSentAfterSuccess
PROPERTY
  TerminalIsFinal
