CONSTANTS
  d1 = d1
  d2 = d2
  f1 = f1
  f2 = f2
  ann = ann
  par = par
  s1 = s1
  s2 = s2
  None = None
  Docs = {d1, d2}
  Files = {f1, f2}
  Users = {ann, par}
  Partners = {par}
  Managers = {par}
  MaxNo = 2
  Sessions = {s1, s2}
SPECIFICATION Spec
INVARIANTS RegisterHasNoGaps ScansAreThere
PROPERTIES RegisteredIsKept
CONSTRAINT SmallOffice
SYMMETRY Interchangeable
CHECK_DEADLOCK FALSE
