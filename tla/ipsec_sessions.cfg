CONSTANTS
  Ikes = {i1, i2}
  Spis = {s1, s2, s3, s4}
  Addresses = {a1, a2}
  NoIke = NoIke
  NoSpi = NoSpi
  NoAddress = NoAddress
  NoSession = NoSession
  Modes <- Both
  EspLifetimes <- Two
  AddressLifetimes <- Two
  EspLeeway = 2
  AddressLeeway = 2
  Capacity = 1
  MaxAge = 4
  MaxSetBack = 2
  Crashes = TRUE
SPECIFICATION Spec
SYMMETRY Symmetry
INVARIANTS
  TypeOK
  TunnelFitsGateway
  LoginsEarnSessions
  NothingExpires
PROPERTY RestoresWithoutLogin
CHECK_DEADLOCK FALSE
