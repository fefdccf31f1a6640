\* The signal comes while the main goroutine scans and starts a device.
CONSTANTS
  Devices = {d1}
  Goroutines = {g1, g2}
  Nobody = Nobody
  Intervals = {i1}
  FirstInterval = i1
  ChannelSize = 1
  MaxReadings = 1
  ReplayBatch = 1
SPECIFICATION FairSpec
CHECK_DEADLOCK FALSE
PROPERTY ShutdownEnds
