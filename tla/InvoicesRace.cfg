CONSTANTS
  i1 = i1
  i2 = i2
  e1 = e1
  e2 = e2
  s1 = s1
  s2 = s2
  None = None
  InvoiceIds = {i1}
  Billables = {}
  Notes = {"issued"}
  MaxTotal = 1
  MaxReceived = 2
  Sessions = {s1, s2}
SPECIFICATION Spec
INVARIANTS MoneyIsBacked
SYMMETRY Interchangeable
CHECK_DEADLOCK FALSE
