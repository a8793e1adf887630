SPECIFICATION OverlapSpec
CONSTANTS
  None = None
  Events = {e1, e2}
  Invalidating = {e1, e2}
  Workers = {w1, w2}
  Readers = {}
  MaxFeeds = 4
  MaxAttempts = 2
  DebugSidecar = TRUE
  Shortages = {TRUE}
  MaxFaults = 2
  MaxExpiries = 1
SYMMETRY Symmetry
INVARIANTS
  BasisCoversEpoch
  EvictedLeftIndex
CHECK_DEADLOCK FALSE
