SPECIFICATION FairSpec
CONSTANTS
  None = None
  Addresses = {a1, a2}
  Auths = {k1, k2}
  Runtimes = {r1, r2}
  Threads = {t1, t2}
  MaxEvents = 4
INVARIANTS
  BusyIsServed
PROPERTIES
  MutationIsOfSnapshot
  BusyEnds
CHECK_DEADLOCK FALSE
