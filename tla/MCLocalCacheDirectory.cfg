\* Failed writes leave up to three of a file's four bytes behind.
CONSTANTS
  Attempts = {a1, a2, a3}
  EntrySize = 4
  MaxSize = 9
  MaxAge = 1
  MaxClock = 9
  MaxTorn = 12
  Faults = {"write"}
SPECIFICATION MCSpec
INVARIANT DirectoryBounded
