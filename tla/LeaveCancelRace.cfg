CONSTANTS
  ann = ann
  par = par
  boss = boss
  r1 = r1
  r2 = r2
  r3 = r3
  x1 = x1
  s1 = s1
  s2 = s2
  None = None
  Requests = {r1}
  YearLength = 3
  LastDate = 2
  Entitled = 3
  MinContinuous = 2
  FlexibleSetting = 1
  Users = {ann, par, boss}
  Employees = {ann}
  Partners = {par, boss}
  Managing = {boss}
  Entries = {}
  Kinds = {"other"}
  HandKinds = {}
  Sessions = {s1, s2}
SPECIFICATION Spec
INVARIANT CancelledLeavesNoMarks
CHECK_DEADLOCK FALSE
