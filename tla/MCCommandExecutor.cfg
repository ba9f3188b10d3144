SPECIFICATION Spec
CONSTANTS
  c1 = c1
  c2 = c2
  c3 = c3
  k = k
  NoKey = NoKey
  NoOwner = NoOwner
  Commands = {c1, c2}
  Keys = {k}
  LockOf <- BothOnOneRepo
  MaxInFlight = 2
  MaxBuffered = 1
  MaxRuns = 2
  MaxEvents <- FirstIsChatty
INVARIANTS
  TypeOK
  LocksMatchSlots
  LockedRunHoldsSlot
  ReplayCovers
