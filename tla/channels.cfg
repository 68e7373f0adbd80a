SPECIFICATION FairSpec
CONSTANTS
  Messages = {m1, m2, m3}
  Addresses = {pub, priv}
  BlockedAddresses = {priv}
  THREADS = 2
INVARIANTS
  TypeOK
  SlotsConserved
  OnlyVettedAddresses
  GivenUpForCause
PROPERTIES
  ChecksEnd
CHECK_DEADLOCK FALSE
