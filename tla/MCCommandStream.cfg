SPECIFICATION FairSpec
CONSTANTS
  Cloud = Cloud
  MaxRuns = 2
  MaxEvents = 2
  MaxBuffered = 1
  MaxPending = 1
  MaxChannel = 2
  MaxLog = 3
  MaxFaults = 2
  MaxPauses = 1
INVARIANTS
  TypeOK
  CloudCanCatchUp
  AckedIsStored
PROPERTIES
  StreamIsOrderedLog
  EndIsReported
