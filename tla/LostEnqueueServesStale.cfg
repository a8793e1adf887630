SPECIFICATION LossSpec
CONSTANTS
  None = None
  Events = {e1}
  Invalidating = {e1}
  Workers = {w1}
  Readers = {r1}
  MaxFeeds = 2
  MaxAttempts = 2
  DebugSidecar = FALSE
  Shortages = {TRUE}
  MaxFaults = 1
  MaxExpiries = 0
SYMMETRY Symmetry
INVARIANTS
  LostEnqueueLeavesMiss
