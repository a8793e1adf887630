SPECIFICATION MCSpec
CONSTANTS
  None = None
  Videos = {1, 2, 3, 4}
  Creators = {"c1", "c2"}
  Creator <- MCCreator
  DiversityTags = {"pool", "pov"}
  Tags <- MCTags
  Similarity <- MCSimilarity
  Lambda = 1
  TOP_WINDOW = 2
  Scores <- MCScores
  Limits = {0, 2, 3, 4}
  Caps = {1, 2}
  Slots = {"pool", "pov", "unknown", "none"}
  Unknown = {"unknown"}
  Absent = {"none"}
  Carries <- MCCarries
  Vector <- MCVector
  One = 2
  FATIGUE_RECENT_VIDEOS = 1
  RecentRows = 5
  AestheticScore <- MCAestheticScore
  Age <- MCAge
  Exploration <- MCExploration
  Weight <- MCWeight
  LimitOf <- MCLimitOf
  TopTags = 1
  Profiles <- MCProfiles
  Corpora <- MCCorpora
  Histories <- MCHistories
  Weights = {1}
  MaxChanges = 2
INVARIANTS
  Recommendable
  ShortageReported
  ColdStartIsGlobal
  DislikesNeverPromote
  CapsHold
  IsGreedy
  RelaxedOnlyWhenBlocked
CHECK_DEADLOCK FALSE
