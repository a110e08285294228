CONSTANTS
  c1 = c1
  c2 = c2
  Nobody = Nobody
  Clients = {c1, c2}
  Connectors = {k1, k2}
  Tunnels = {t1, t2}
  Menu <- SplitMenu
  Requests <- TwoAndOne
  MaxChecks = 0
  EventCapacity = 2
  RequestCapacity = 1
SPECIFICATION FairSpec
PROPERTIES
  RequestsAnswered
  NothingLeftOver
CHECK_DEADLOCK FALSE
