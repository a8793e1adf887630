SPECIFICATION FairLossSpec
CONSTANTS
  None = None
  Events = {e1}
  Invalidating = {e1}
  Workers = {w1}
  Readers = {r1}
  MaxFeeds = 3
  MaxAttempts = 2
  DebugSidecar = TRUE
  Shortages = {TRUE}
  MaxFaults = 1
  MaxExpiries = 0
INVARIANTS
  TypeOK
  OneGenerationPerEpoch
  StaleOnlyWhileRebuilding
PROPERTIES
  KeepsPromise
  EventuallyFresh
