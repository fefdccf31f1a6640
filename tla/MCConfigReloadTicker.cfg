\* A poll interval longer than the old discovery interval.
CONSTANTS
  Contents <- MCContents
  Broken = Broken
  Environments <- MCEnvironments
  Unset = Unset
  Unparsable = Unparsable
  u1 = u1
  u2 = u2
  Malformed = Malformed
  URLs = {u1, u2}
  NoURL = NoURL
  Torn = Torn
  MinInterval = 1
  MaxPoll = 2
  MaxDiscovery = 3
  DefaultPoll = 1
  DefaultDiscovery = 2
  Nothing = Nothing
  Senders = {s1}
SPECIFICATION FairSpec
\* The program ends.
CHECK_DEADLOCK FALSE
INVARIANT DiscoveryNotFaster
