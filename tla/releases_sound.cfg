SPECIFICATION Spec
CONSTANTS
  Deployment = {d1, d2, d3}
  Rollback = {k1, k2}
  MaxReleases = 3
  MaxTries = 2
  None = None
  Faults = {"health", "probe"}
CHECK_DEADLOCK FALSE
SYMMETRY Symmetry
INVARIANTS CleanBetweenRuns AlwaysServed PriorRetained
