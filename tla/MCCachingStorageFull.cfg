\* More readings than the cache has room for.
CONSTANTS
  Writers = {w1}
  Readings = {r1, r2, r3}
  Invalid = {}
  MaxBatch = 1
  MaxOutages = 2
  MaxCrashes = 0
  Wirings = {TRUE}
  FailureThreshold = 2
  ResetTimeout = 0
  HalfOpenSuccessThreshold = 1
  EntrySize = 1
  MaxSize = 2
  MaxAge = 0
  MaxClock = 0
  Faults = {}
SPECIFICATION Spec
CHECK_DEADLOCK FALSE
INVARIANT FullCacheMakesRoom
