CONSTANTS
  Default = Default
  Ids = {p1, p2}
  Names = {1}
  g1 = g1
  g2 = g2
  l1 = l1
  l2 = l2
  Servers = {g1}
  NoServer = NoServer
  LoginTypes = {}
  NoLogin = NoLogin
  Offered <- Hidden
  Looks = {"color"}
  Keychain = TRUE
  MaxChanges = 3
  MaxFaults = 1
SPECIFICATION Spec
SYMMETRY Symmetry
INVARIANTS
  TypeOK
  StoreSurvives
  WindowFollowsStore
CHECK_DEADLOCK FALSE
