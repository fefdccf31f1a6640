\* The consumer of a failed scan beside the next one.
CONSTANTS
  Meter = Meter
  Plug = Plug
  D = D
  OnOff = OnOff
  Electrical = Electrical
  PowerClusters = {Electrical}
  n1 = n1
  n2 = n2
  a1 = a1
  a2 = a2
  a3 = a3
  a6 = a6
  Adverts <- MCAdverts
  NoID = NoID
  NoAddress = NoAddress
  NoDevice = NoDevice
  ChannelSize = 1
  MaxScans = 2
SPECIFICATION FairSpec
\* The bound on scans is used up.
CHECK_DEADLOCK FALSE
INVARIANT MapIsNewestAlways
