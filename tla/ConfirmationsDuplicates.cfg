CONSTANTS
  r1 = r1
  r2 = r2
  p1 = p1
  p2 = p2
  s1 = s1
  s2 = s2
  None = None
  Partners = {p1, p2}
  Requests = {r1}
  Teams <- ShrinkingTeams
  AuthOnly = {p2}
  Outages = TRUE
  Entries = {1, 2}
  MayDefer = TRUE
  Sessions = {s1}
SPECIFICATION Spec
PROPERTIES ConfirmedIsDeduplicated
CHECK_DEADLOCK FALSE
