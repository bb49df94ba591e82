SPECIFICATION RetSpec
CONSTANTS
  MaxReleases = 2
  RetKeep = 2
  PurgeTries = 1
  MaxRequests = 1
  RetRuns <- MCRetRuns
  RetFaultSets = {{"stack"}}
CHECK_DEADLOCK FALSE
INVARIANTS
  ActiveIsProtected
