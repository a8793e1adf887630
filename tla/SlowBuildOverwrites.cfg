SPECIFICATION Spec
CONSTANTS
  None = None
  Events = {e1}
  Invalidating = {e1}
  Workers = {w1, w2}
  Readers = {r1}
  MaxFeeds = 3
  MaxAttempts = 2
  DebugSidecar = FALSE
  Shortages = {TRUE}
  MaxFaults = 0
  MaxExpiries = 0
SYMMETRY Symmetry
PROPERTIES
  NeverOverwritesFresher
