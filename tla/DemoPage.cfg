SPECIFICATION FairDemoSpec
CONSTANTS
  None = None
  Users = {alice, bob}
  FirstUser = alice
  Length = 3
  PAGE_SIZE = 2
  MaxFeeds = 2
  MaxOutages = 1
  Flows = {f1, f2}
  POLL_MAX_ATTEMPTS = 2
  MaxClicks = 2
INVARIANTS
  NeverMixesGenerations
  OneBoundedPoll
  BuildingMeansPolling
  ShowsOwnFeedInOrder
  SettledPageIsHonest
PROPERTIES
  PollEnds
CHECK_DEADLOCK FALSE
