SPECIFICATION PgSpec
CONSTANTS
  PgPage = {"c1"}
  PgLimit = 1
  PgAttempts = 1
  MaxChanges = 2
  MaxBreaks = 0
  PgFaultSets = {{"unheard"}}
CHECK_DEADLOCK FALSE
PROPERTY PageIsCurrent
