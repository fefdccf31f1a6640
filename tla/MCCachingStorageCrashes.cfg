\* Two writers, two outages, a process that is killed or closed and started
\* again, a disk that fails in every way and files that age; the breaker is set, or
\* nil as NewCachingStorage leaves it.
CONSTANTS
  Writers = {w1, w2}
  Readings = {r1, r2, r3}
  Invalid = {}
  MaxBatch = 2
  MaxOutages = 2
  MaxCrashes = 1
  Wirings = {TRUE, FALSE}
  FailureThreshold = 1
  ResetTimeout = 0
  HalfOpenSuccessThreshold = 1
  EntrySize = 2
  MaxSize = 3
  MaxAge = 2
  MaxClock = 4
  Faults = {"write", "stat", "remove", "read", "glob"}
SYMMETRY Symmetry
SPECIFICATION Spec
\* The program may have been closed, or have no reading left to write.
CHECK_DEADLOCK FALSE
INVARIANTS TypeOK NoSilentLoss ReplayDeletesStored
PROPERTIES ImplementsDurableStore WrittenOnce
