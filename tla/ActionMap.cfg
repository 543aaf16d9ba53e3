SPECIFICATION Spec
CONSTANTS
  Keys = {k1, k2}
  Remotes = {r1, r2}
  NumActions = 2
  Blocks = {b1, b2, b3}
  Free = Free
SYMMETRY BlockSymmetry
INVARIANTS
  TypeOK
  Ownership
  BindingsUnique
PROPERTY ImplementsKeyMap
