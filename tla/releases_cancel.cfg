SPECIFICATION Spec
CONSTANTS
  Deployment = {d1, d2, d3}
  Rollback = {}
  MaxReleases = 3
  MaxTries = 1
  None = None
  Faults = {"probe", "cancel"}
CHECK_DEADLOCK FALSE
SYMMETRY Symmetry
INVARIANT ActiveIsIntact
