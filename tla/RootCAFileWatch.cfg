SPECIFICATION FairSpec
CONSTANTS
  Bundles = {b1, b2}
  Vanishing = TRUE
  MaxFiles = 3
  MaxParked = 2
INVARIANTS TypeOK IdleMeansCurrent WatchSurvives
PROPERTIES FollowsTheFileUnlessMissed IsABundleSource
CHECK_DEADLOCK FALSE
