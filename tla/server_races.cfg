CONSTANTS
  c1 = c1
  c2 = c2
  Nobody = Nobody
  Clients = {c1, c2}
  Connectors = {k1, k2}
  Tunnels = {t1, t2}
  Menu <- FullMenu
  Requests <- TwoAndOne
  MaxChecks = 1
  EventCapacity = 2
  RequestCapacity = 1
SPECIFICATION Spec
SYMMETRY TargetSymmetry
INVARIANTS
  TypeOK
  ConnectedHasTunnel
  ConnectingHasOwner
  MfaHasPendingSession
  DisconnectedHoldsNothing
  RepliesArrive
  DisconnectReleasesTunnel
PROPERTY BoardSpec
CHECK_DEADLOCK FALSE
