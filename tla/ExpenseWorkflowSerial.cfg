CONSTANTS
  shirin = shirin
  mod = mod
  admin = admin
  e1 = e1
  s1 = s1
  s2 = s2
  Expenses = {e1}
  Users = {shirin, mod, admin}
  Moderators = {mod, admin}
  Admins = {admin}
  CompanyActors = {admin}
  Approvers = {admin}
  AutoPaid = {shirin}
  Sessions = {s1}
  Types = {"other", "client_expense", "partner_expense", "company_expense"}
  SelfModeration = TRUE
  EmailUser = EmailUser
  None = None
  MaxEvents = 5
  MaxStamp = 5
SPECIFICATION Spec
INVARIANTS HistoryIsAChain StampsMatchStatus SweepRespectsCancel
PROPERTY FollowsLifecycle
CHECK_DEADLOCK FALSE
