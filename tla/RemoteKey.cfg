SPECIFICATION FairSpec
CONSTANTS
  Keys = {k1, k2}
  Remotes = {r1}
  Actions = {a1, a2}
  NoAction = NoAction
  MaxLines = 3
  MaxThrows = 1
INVARIANTS
  NoTornPair
  NeverStale
  RunsAssigned
  ExecuteOwned
PROPERTIES
  NoKeyBehindCommand
  ThreadsReturn
  KeyHandled
