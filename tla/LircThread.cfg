SPECIFICATION FairSpec
CONSTANTS
  home = home
  other = other
  Addrs = {home, other}
  Ports = {1, 2}
  Hosts <- Listeners
  BUF_SIZ = 2
  MaxSends = 3
  MaxFaults = 2
  MaxEdits = 3
INVARIANTS
  TypeOK
  SocketClosed
  ConnectedHasSocket
PROPERTIES
  DisableCloses
  ThreadStops
  CloseNoticed
  Reconnects
  FollowsSettings
