\* One device is started and runs until all are stopped, as the program does it;
\* the other is stopped and started again as well; both may be started while Stop
\* waits and after it.  The interval changes, and nobody need receive from the
\* channel.
CONSTANTS
  Devices = {d1, d2}
  Goroutines = {g1, g2}
  Nobody = Nobody
  Intervals = {i1, i2}
  FirstInterval = i1
  ChannelSize = 1
  SinglesStopped = {d2}
SPECIFICATION FairSpec
\* The monitor may have been stopped.
CHECK_DEADLOCK FALSE
INVARIANTS MappedRuns OneGoroutinePerDevice NoSendAfterClose StopReachesAll
PROPERTIES CancelledEnds StopReturns
