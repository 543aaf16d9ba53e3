SPECIFICATION Spec
CONSTANTS
  local = local
  other = other
  Addrs = {local, other}
  Ports <- PortNumbersTyped
  DefaultAddr = local
  DefaultPort = 8765
  None = None
INVARIANTS
  ConfigHolds
  GreyIsApplied
