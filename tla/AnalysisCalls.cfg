SPECIFICATION Spec
CONSTANTS
  policy <- MCPolicy
  SCENE_SNAP_WINDOW = 1500
  FRAME_MAX_LONG_EDGE = 12
  DEDUP_HAMMING_THRESHOLD = 1
  MIN_ANALYSIS_FRAMES = 2
  Videos <- MCVideos
  Pictures <- MCPictures
  Calls <- MCCalls
  maxRetries = 1
  MaxRefusals = 1
  concurrency = 2
INVARIANTS
  PlanWithinBudget
  SelectionIsRepresentative
  FramesLiveUntilRead
  FramesAffordable
  OneProbePerRun
  LoneRefusalIsAbsorbed
