CONSTANTS
  NPages = 8
  Proc = {p1, p2}
  None = None
  RootTables = 3
  LeafTables = 2
  MaxSize = 2
  MaxUses = 2
SPECIFICATION Spec
SYMMETRY Symmetry
INVARIANT PagesConserved
CHECK_DEADLOCK FALSE
