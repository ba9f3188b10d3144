SPECIFICATION Spec
CONSTANTS
  i1 = i1
  i2 = i2
  None = None
  Instances = {i1, i2}
  MaxSockets = 2
  MaxGeneration = 2
  MaxFaults = 1
  MaxFailures = 1
  MaxCrashes = 1
  MaxShutdowns = 0
SYMMETRY InstanceSymmetry
INVARIANTS
  TypeOK
  GhostIsCleanedUp
PROPERTIES
  OwnerIsNotErased
CHECK_DEADLOCK FALSE
