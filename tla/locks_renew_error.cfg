SPECIFICATION Spec
CONSTANTS
  Slot = {s1, s2}
  Project = {p1}
  Vps = {v1, v2}
  NoOne = NoOne
  LeaseTicks = 3
  HeartbeatTicks = 1
  Faults = {"renew"}
SYMMETRY Symmetry
INVARIANT MutualExclusion
