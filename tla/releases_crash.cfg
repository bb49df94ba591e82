SPECIFICATION Spec
CONSTANTS
  Deployment = {d1}
  Rollback = {k1}
  MaxReleases = 3
  MaxTries = 2
  None = None
  Faults = {"probe", "ssh", "crash", "race"}
CHECK_DEADLOCK FALSE
INVARIANTS OneActive VerifiedTraffic
PROPERTIES SuccessMeansLive BlueGreenSpec
