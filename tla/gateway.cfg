SPECIFICATION FairSpec
CONSTANTS
  Requests = {r1, r2}
  Keys = {k1}
  Staff = {s1}
  Processes = {p1}
  Nets = {n1}
  Hosts = {1, 2}
  Proxy = proxy
  Garbage = garbage
  NoKey = nokey
  MaxProxies = 2
  MaxFaults = 2
CHECK_DEADLOCK FALSE
INVARIANTS
  TypeOK
  RevokedStaysOut
  OneToken
  ChargedToItsOwner
  UnlimitedOnlyInTrouble
PROPERTY
  EveryRequestAnswered
