\* A device is stopped and started again.
CONSTANTS
  Devices = {d1}
  Goroutines = {g1, g2, g3}
  Nobody = Nobody
  Intervals = {i1, i2}
  FirstInterval = i1
  ChannelSize = 1
  SinglesStopped = {d1}
SPECIFICATION Spec
CHECK_DEADLOCK FALSE
INVARIANT NoDeviceReadTwice
