\* One goroutine that writes, two batches, and two that close at once.
CONSTANTS
  Writers = {w1}
  Closers = {c1, c2}
  MaxBatch = 2
  MaxCalls = 2
SPECIFICATION FairSpec
INVARIANTS TypeOK BatchStopsAtRefused CloseDelivers
PROPERTIES CloseReturns
