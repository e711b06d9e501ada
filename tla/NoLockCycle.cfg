SPECIFICATION Spec
CONSTANTS
  None = None
  Workers = {w1, w2, w3}
  Pids = {p1, p2}
  Buttons <- AllButtons
  MaxClicks = 4
  MaxCrashes = 0
SYMMETRY Symmetry
INVARIANT NoLockCycle
CHECK_DEADLOCK FALSE
