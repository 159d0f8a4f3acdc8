CONSTANTS
  shirin = shirin
  mod = mod
  admin = admin
  e1 = e1
  s1 = s1
  s2 = s2
  Expenses = {e1}
  Users = {shirin, admin}
  Moderators = {admin}
  Admins = {admin}
  CompanyActors = {}
  Approvers = {admin}
  AutoPaid = {shirin}
  Sessions = {s1, s2}
  Types = {"other"}
  SelfModeration = FALSE
  EmailUser = EmailUser
  None = None
  MaxEvents = 4
  MaxStamp = 4
SPECIFICATION Spec
INVARIANTS StatusIsTold ApprovedBeforePaid NoSelfModeration
SYMMETRY SessionSymmetry
CHECK_DEADLOCK FALSE
