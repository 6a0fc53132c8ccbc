SPECIFICATION Spec
CONSTANTS
  Replicas = {r1, r2}
  Games = {g1}
  g1 = g1
  Commands = {c1}
  Target <- MCTarget
  None = None
  MaxCrashes = 0
  MaxFailures = 0
CHECK_DEADLOCK FALSE
PROPERTIES
  OwnedNotDropped
