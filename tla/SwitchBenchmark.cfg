SPECIFICATION FairBenchmarkSpec
CONSTANTS
  None = None
  A = a
  B = b
  Thread = w
  Callers = {w}
  Models = {a, b}
  MaxRuns = 1
  MaxCalls = 7
  MaxIntrusions = 3
INVARIANTS
  RunIsWhatItSays
PROPERTIES
  TripEnds
CHECK_DEADLOCK FALSE
