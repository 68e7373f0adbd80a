SPECIFICATION Spec
CONSTANTS
  Messages = {m1}
  Workers = {w1, w2}
  Dispatchers = {d1}
  Api = api
  TaskIds = {t1}
  NoOwner = none
  MAX_RETRIES = 1
  REENQUEUE_AFTER = 0
  STALE_SENDING_AFTER = 2
  TASK_TIME_LIMIT = 1
  MAX_WAIT = 1
  DISPATCH_BATCH_SIZE = 1
  CLEANUP_BATCH_SIZE = 1
  Schedules = {"none"}
  MaxAttempts = 4
  Faults = {"redeliver"}
  MaxFaults = 1
CHECK_DEADLOCK FALSE
PROPERTY
  TerminalIsFinal
