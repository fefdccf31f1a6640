\* One device and one reading, a shutdown that falls between two scans.
CONSTANTS
  Devices = {d1}
  Goroutines = {g1}
  Nobody = Nobody
  Intervals = {i1}
  FirstInterval = i1
  ChannelSize = 1
  MaxReadings = 1
  ReplayBatch = 1
SPECIFICATION Spec
CHECK_DEADLOCK FALSE
INVARIANT PendingFlushed
