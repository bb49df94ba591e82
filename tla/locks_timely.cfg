SPECIFICATION Spec
CONSTANTS
  Slot = {s1, s2, s3}
  Project = {p1, p2}
  Vps = {v1, v2}
  NoOne = NoOne
  LeaseTicks = 3
  HeartbeatTicks = 1
  Faults = {"reply", "crash"}
SYMMETRY Symmetry
INVARIANT MutualExclusion
PROPERTY MutexSpec
