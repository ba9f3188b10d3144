SPECIFICATION Spec
CONSTANTS
  i1 = i1
  i2 = i2
  h1 = h1
  h2 = h2
  Instances = {i1, i2}
  Handshakes = {h1, h2}
  User = User
  Org = Org
  Cap <- OneConnection
  Nobody = Nobody
  MaxOutages = 1
  MaxCrashes = 1
SYMMETRY Peers
VIEW Essence
INVARIANTS
  TypeOK
  FieldsAreFound
  NeverUndercounted
  CapHolds
CHECK_DEADLOCK FALSE
