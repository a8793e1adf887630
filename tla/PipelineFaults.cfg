SPECIFICATION FairEndings
CONSTANTS
  None = None
  IngestRuns = {"first", "second"}
  Wanted <- LateManifest
  Enqueues = {"first", "second"}
  AnalysisRuns = {"worker", "again", "script"}
  Slots = {"worker", "again"}
  Forced = {"script"}
  Creators = {"c1", "c2"}
  MaxAttempts = 3
  MaxFaults = 3
INVARIANTS
  RowHasObject
  AnalyzedHasFeatures
  JobMatchesRow
  AttemptsHideNoFeatures
PROPERTIES
  QueuedIsDecided
CHECK_DEADLOCK FALSE
