SPECIFICATION FairSpec
CONSTANTS
  c1 = c1
  c2 = c2
  c3 = c3
  k = k
  NoKey = NoKey
  NoOwner = NoOwner
  Commands = {c1, c2, c3}
  Keys = {k}
  LockOf <- TwoOnOneRepo
  MaxInFlight = 2
  MaxBuffered = 1
  MaxRuns = 1
  MaxEvents <- NoneIsChatty
INVARIANTS
  WorkConserving
PROPERTIES
  QueuedGetsItsTurn
  CancelFreesSlot
