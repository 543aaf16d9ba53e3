SPECIFICATION FairSpec
CONSTANTS
  home = home
  other = other
  Addrs = {home, other}
  Ports = {1, 2}
  Hosts <- Listeners
  BUF_SIZ = 2
  MaxSends = 1
  MaxFaults = 1
  MaxEdits = 0
PROPERTY LossNoticed
