SPECIFICATION Spec
CONSTANTS
  Deployment = {d1, d2}
  Rollback = {}
  MaxReleases = 2
  MaxTries = 1
  None = None
  Faults = {"cancel"}
CHECK_DEADLOCK FALSE
SYMMETRY Symmetry
INVARIANT AlwaysServed
