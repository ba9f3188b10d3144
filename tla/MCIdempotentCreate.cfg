SPECIFICATION CreateSpec
CONSTANTS
  i1 = i1
  i2 = i2
  r1 = r1
  r2 = r2
  r3 = r3
  p1 = p1
  p2 = p2
  Instances = {i1, i2}
  Requests = {r1, r2, r3}
  Keys = {k}
  NoKey = NoKey
  Payloads = {p1, p2}
  ClientIds = {id1}
  NoId = NoId
  Nothing = Nothing
SYMMETRY Interchangeable
INVARIANTS
  AnswersHold
  ConflictIsReal
CHECK_DEADLOCK FALSE
