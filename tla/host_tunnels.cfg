CONSTANTS
  Tunnels = {t1, t2}
  None = None
  g1 = g1
  g2 = g2
  Gateways = {g1, g2}
  Addresses = {a1, a2}
  Configs <- AllKinds
  Resolvers = {"resolved", "resolv.conf"}
  MaxKey = 2
  MaxFaults = 1
SPECIFICATION Spec
SYMMETRY Symmetry
INVARIANTS
  TypeOK
  NothingLeftBehind
  UpTunnelWorks
  KeysInstalled
CHECK_DEADLOCK FALSE
