\* A writer and the replay goroutine through an outage, with a disk on which a
\* write, a remove or a read may fail; one reading is invalid, the breaker trips
\* and probes.
CONSTANTS
  Writers = {w1}
  Readings = {r1, r2, r3}
  Invalid = {r3}
  MaxBatch = 2
  MaxOutages = 1
  MaxCrashes = 0
  Wirings = {TRUE}
  FailureThreshold = 1
  ResetTimeout = 0
  HalfOpenSuccessThreshold = 1
  EntrySize = 1
  MaxSize = 2
  MaxAge = 0
  MaxClock = 0
  Faults = {"write", "remove", "read"}
SPECIFICATION FairSpec
\* The program may have been closed, or have no reading left to write.
CHECK_DEADLOCK FALSE
PROPERTIES CallsReturn CacheModeEnds ListedReachInflux CloseEnds
