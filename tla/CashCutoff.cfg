CONSTANTS
  s1 = s1
  s2 = s2
  Expenses = {1}
  Amounts = {1}
  Sessions = {s1}
  None = None
  MaxClock = 4
  MaxMoves = 6
SPECIFICATION Spec
INVARIANT CutoffRespected
CHECK_DEADLOCK FALSE
