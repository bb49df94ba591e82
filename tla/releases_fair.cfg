SPECIFICATION FairSpec
CONSTANTS
  Deployment = {d1}
  Rollback = {k1}
  MaxReleases = 2
  MaxTries = 1
  None = None
  Faults = {"probe", "lapse", "cancel", "race"}
CHECK_DEADLOCK FALSE
PROPERTY EveryJobEnds
