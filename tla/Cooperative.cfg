SPECIFICATION FairSpec
CONSTANTS
  None = None
  Workers = {w1, w2}
  Pids = {p1, p2}
  Buttons <- CooperativeButtons
  MaxClicks = 2
  MaxCrashes = 1
PROPERTIES
  StoppingEnds
  EveryOperationEnds
CHECK_DEADLOCK FALSE
