SPECIFICATION Spec
CONSTANTS
  d1 = d1
  d2 = d2
  p1 = p1
  p2 = p2
  Dialogs = {d1, d2}
  Pairs = {p1, p2}
  NumActions = 2
  States = {"connected"}
  None = None
SYMMETRY NameSymmetry
INVARIANTS
  GlobalsNameOpen
  RowsMatchList
PROPERTIES
  RemovesFirstRow
  ChoiceSelects
