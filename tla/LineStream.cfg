SPECIFICATION Spec
CONSTANTS
  Buttons <- ButtonNames
  Remotes <- RemoteNames
  BUF_SIZ = 24
  MaxLines = 3
INVARIANTS
  ExactUnlessCut
  FrontsOfLines
PROPERTY KeyPerRead
