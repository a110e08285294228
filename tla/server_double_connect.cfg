CONSTANTS
  c1 = c1
  c2 = c2
  Nobody = Nobody
  Clients = {c1, c2}
  Connectors = {k1, k2}
  Tunnels = {t1}
  Menu <- UpAndDown
  Requests <- OneEach
  MaxChecks = 0
  EventCapacity = 2
  RequestCapacity = 1
SPECIFICATION Spec
INVARIANT OneConnectAtATime
CHECK_DEADLOCK FALSE
