SPECIFICATION FairSpec
CONSTANTS
  Keys = {k1}
  Remotes = {r1}
  Actions = {a1}
  NoAction = NoAction
  MaxThrows = 1
  home = home
  Addrs = {home}
  Ports = {1}
  Hosts <- Listeners
  BUF_SIZ = 2
  MaxFaults = 1
  MaxEdits = 2
  MaxLines = 2
INVARIANT LateLine
PROPERTIES
  ImplementsPath
  ImplementsLoop
  QuitEnds
