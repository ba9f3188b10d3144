SPECIFICATION FairSpec
CONSTANTS
  i1 = i1
  i2 = i2
  None = None
  Instances = {i1, i2}
  MaxSockets = 2
  MaxGeneration = 1
  MaxFaults = 0
  MaxFailures = 1
  MaxCrashes = 1
  MaxShutdowns = 1
PROPERTIES
  FoundAgain
  PresenceConverges
CHECK_DEADLOCK FALSE
