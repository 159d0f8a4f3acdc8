CONSTANTS
  r1 = r1
  r2 = r2
  p1 = p1
  p2 = p2
  s1 = s1
  s2 = s2
  None = None
  Partners = {p1, p2}
  Requests = {r1}
  Teams <- ShrinkingTeams
  AuthOnly = {p2}
  Outages = FALSE
  Entries = {}
  MayDefer = FALSE
  Sessions = {s1, s2}
SPECIFICATION FairSpec
INVARIANT ConfirmedOnSignatures
PROPERTY CompleteIsFound
CHECK_DEADLOCK FALSE
