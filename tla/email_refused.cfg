SPECIFICATION Spec
CONSTANTS
  Messages = {m1, m2}
  Addresses = {pub, priv}
  BlockedAddresses = {priv}
  THREADS = 1
PROPERTIES
  PermanentIsFinal
CHECK_DEADLOCK FALSE
