SPECIFICATION FairSpec
CONSTANTS
  Documents = {d1, d2}
  MaxPending = 1
  Concurrency = 2
  Retries = 1
  MaxChanges = 3
  MaxStoreFailures = 1
  MaxSnapshotFailures = 1
INVARIANTS
  TypeOK
  
  OneBodyPerId

  
CHECK_DEADLOCK FALSE
