CONSTANTS
  s1 = s1
  s2 = s2
  Expenses = {1, 2}
  Amounts = {1, 2}
  Sessions = {s1, s2}
  None = None
  MaxClock = 3
  MaxMoves = 5
SPECIFICATION Spec
INVARIANTS RowsAddUp ChargedOnce
PROPERTIES FigureExplained PageSettles HandKeepsChain
SYMMETRY SessionSymmetry
CHECK_DEADLOCK FALSE
