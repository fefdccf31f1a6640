\* The thresholds of storage/cache_test.go, with more successes to wait for.
CONSTANTS
  FailureThreshold = 5
  ResetTimeout = 3
  HalfOpenSuccessThreshold = 3
SPECIFICATION MCFairSpec
INVARIANT AdmittingBelowThreshold
PROPERTIES TripNeedsFailures CloseNeedsSuccesses Recovers
