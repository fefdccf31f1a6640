\* One device, one change of the interval.
CONSTANTS
  Devices = {d1}
  Goroutines = {g1}
  Nobody = Nobody
  Intervals = {i1, i2}
  FirstInterval = i1
  ChannelSize = 1
  SinglesStopped = {}
SPECIFICATION FairSpec
CHECK_DEADLOCK FALSE
PROPERTY UpdatePickedUp
