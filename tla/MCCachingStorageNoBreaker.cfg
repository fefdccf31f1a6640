\* The breaker as NewCachingStorage leaves it.
CONSTANTS
  Writers = {w1}
  Readings = {r1}
  Invalid = {}
  MaxBatch = 1
  MaxOutages = 2
  MaxCrashes = 0
  Wirings = {FALSE}
  FailureThreshold = 2
  ResetTimeout = 0
  HalfOpenSuccessThreshold = 1
  EntrySize = 1
  MaxSize = 2
  MaxAge = 0
  MaxClock = 0
  Faults = {}
SPECIFICATION Spec
CHECK_DEADLOCK FALSE
INVARIANT WritesFallBack
