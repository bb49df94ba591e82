SPECIFICATION FairSpec
CONSTANTS
  Slot = {s1, s2}
  Project = {p1, p2}
  Vps = {v1}
  NoOne = NoOne
  LeaseTicks = 3
  HeartbeatTicks = 1
  Faults = {"late", "renew", "crash"}
PROPERTIES EveryLeaseEnds LeaseEndsProperly NoLeaseLeft
