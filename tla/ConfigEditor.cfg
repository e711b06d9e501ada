SPECIFICATION Spec
CONSTANTS
  None = None
  Partial = Partial
  Blank = d1
  Documents = {d1, d2}
  Garbage = {g1}
  Retention = 2
  MaxBackups = 4
  MaxOutside = 1
  MaxCrashes = 1
INVARIANTS
  LatestIsRestorable
  LoadedIsOnDisk
PROPERTIES
  SavedIsShown
  SourceOutlivesRestore
  ImplementsSafeFile
CHECK_DEADLOCK FALSE
