SPECIFICATION Spec
CONSTANTS
  None = None
  Callers = {w1, w2}
  Models = {m1, m2}
  MaxCalls = 2
SYMMETRY Symmetry
INVARIANTS
  SingleFlight
  SourceGivenForReadyTarget
  SuccessIsObserved
PROPERTY
  ImplementsController
CHECK_DEADLOCK FALSE
