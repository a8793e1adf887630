SPECIFICATION EndingsSpec
CONSTANTS
  None = None
  IngestRuns = {"first"}
  Wanted <- LateManifest
  Enqueues = {"first"}
  AnalysisRuns = {"worker"}
  Slots = {"worker"}
  Forced = {}
  Creators = {"c1", "c2"}
  MaxAttempts = 3
  MaxFaults = 1
INVARIANTS
  UnfinishedHasNoFeatures
CHECK_DEADLOCK FALSE
