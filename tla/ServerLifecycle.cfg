SPECIFICATION Spec
CONSTANTS
  None = None
  Pids = {p1, p2}
  Workers = {w1, w2}
  Buttons <- AllButtons
  MaxClicks = 3
  MaxCrashes = 1
SYMMETRY Symmetry
INVARIANTS
  BusyIsWorked
  LiveIsSupervised
  OwnedIsWatched
PROPERTIES
  EvidenceIsFinal
  ImplementsSlot
CHECK_DEADLOCK FALSE
