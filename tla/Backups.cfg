CONSTANTS
  Cron = Cron
  request = request
  command = command
  Requests = {request}
  Commands = {command}
  Outcomes = {"completed", "failed"}
  MinCount = 1
  MaxRuns = 3
  MaxErrors = 1
  MaxKills = 1
  None = None
SPECIFICATION FairSpec
INVARIANTS LastIsThere
PROPERTIES PruneSpares RunningIsCleared
CHECK_DEADLOCK FALSE
