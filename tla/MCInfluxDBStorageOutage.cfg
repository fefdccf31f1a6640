\* One reading, written while InfluxDB is away.
CONSTANTS
  Writers = {w1}
  Closers = {c1}
  MaxBatch = 1
  MaxCalls = 1
SPECIFICATION Spec
INVARIANT OutageRefused
