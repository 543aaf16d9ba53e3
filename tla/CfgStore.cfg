SPECIFICATION StoreSpec
CONSTANTS
  SizeTs = {4, 8}
  Lists <- UpToTwo
  Ints <- UsedPorts
  DefaultInt = 8765
INVARIANTS
  StoreTypeOK
  ReadBack32
  TornIsPrefix
  NextBlockFound
