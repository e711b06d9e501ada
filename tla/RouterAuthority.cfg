SPECIFICATION Spec
CONSTANTS
  None = None
  Addresses = {a1}
  Auths = {k1, k2}
  Runtimes = {r1}
  Threads = {t1}
  MaxEvents = 3
PROPERTY
  MutationIsAuthorized
CHECK_DEADLOCK FALSE
