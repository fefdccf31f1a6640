\* One outage and one crash.
CONSTANTS
  Writers = {w1}
  Readings = {r1}
  Invalid = {}
  MaxBatch = 1
  MaxOutages = 1
  MaxCrashes = 1
  Wirings = {TRUE}
  FailureThreshold = 2
  ResetTimeout = 0
  HalfOpenSuccessThreshold = 1
  EntrySize = 1
  MaxSize = 2
  MaxAge = 0
  MaxClock = 0
  Faults = {}
SPECIFICATION FairSpec
CHECK_DEADLOCK FALSE
PROPERTY LeftoversReplayed
