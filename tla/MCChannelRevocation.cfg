SPECIFICATION FairSpec
CONSTANTS
  u1 = u1
  Instances = {i1}
  Sockets = {s1}
  Users = {u1}
  Revokes = {r1}
  Channel = Channel
  UserOf <- OneUser
  TargetOf <- OfUser
  Second = 2
  Lifetime = 2
  NoToken = NoToken
  MaxTime = 2
  MaxFaults = 2
INVARIANTS
  UpInstanceEnforces
  HolderIsAdmitted
PROPERTIES
  RevokeLands
CHECK_DEADLOCK FALSE
