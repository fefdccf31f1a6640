\* One device, three readings and reloads; the signal may come during a scan, which
\* then starts the device late.
CONSTANTS
  Devices = {d1}
  Goroutines = {g1}
  Nobody = Nobody
  Intervals = {i1, i2}
  FirstInterval = i1
  ChannelSize = 1
  MaxReadings = 3
  ReplayBatch = 1
SPECIFICATION FairSpec
\* The process ends.
CHECK_DEADLOCK FALSE
INVARIANTS TypeOK MonitorEndsFirst DrainedMeansHandled FlushMissesOneBatch
PROPERTY ShutdownEndsUnlessLate
