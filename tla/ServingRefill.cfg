SPECIFICATION OverlapSpec
CONSTANTS
  None = None
  Events = {e1}
  Invalidating = {e1}
  Workers = {w1}
  Readers = {r1}
  MaxFeeds = 3
  MaxAttempts = 2
  DebugSidecar = FALSE
  Shortages = {FALSE}
  MaxFaults = 0
  MaxExpiries = 0
INVARIANTS
  ActiveReadable
  IndexNewestFirst
  RetentionBound
  CursorSurvivesOneRefresh
