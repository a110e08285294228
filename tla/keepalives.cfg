CONSTANTS
  TunnelKinds = {"ssl", "tun"}
  MaxRetries <- Retries
  Capacity = 1
  MaxTravel = 1
  MaxChanges = 2
  MaxRekeys = 1
SPECIFICATION KeepaliveFairSpec
INVARIANT KeepaliveTypeOK
PROPERTIES
  GiveUpMeansSilence
  DeadTunnelsEnd
CHECK_DEADLOCK FALSE
