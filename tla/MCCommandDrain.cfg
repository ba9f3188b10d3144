SPECIFICATION FairSpec
CONSTANTS
  Drainers = {d1, d2}
  CommandCount = 3
  Legacy = {}
  Ceiling = 1
  LeaseTtl = 2
  DispatchBound = 1
  NoLease = NoLease
  RequeueChunk = 1
  MaxHellos = 1
  MaxTime = 4
INVARIANTS
  TypeOK
  OneDispatcher
  OvershootBounded
PROPERTIES
  EveryCommandDispatched
CHECK_DEADLOCK FALSE
