\* A cache that is full with two files of two bytes, and two more attempts.
CONSTANTS
  Attempts = {a1, a2, a3, a4}
  EntrySize = 2
  MaxSize = 4
  MaxAge = 1
  MaxClock = 6
  MaxTorn = 3
  Faults = {"write", "stat", "remove", "read", "glob"}
SPECIFICATION MCSpec
INVARIANT SizeAccounted
PROPERTY CacheBounded
