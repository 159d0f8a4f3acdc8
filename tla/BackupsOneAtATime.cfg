CONSTANTS
  Cron = Cron
  request = request
  command = command
  Requests = {request}
  Commands = {command}
  Outcomes = {"completed", "failed"}
  MinCount = 1
  MaxRuns = 3
  MaxErrors = 0
  MaxKills = 0
  None = None
SPECIFICATION Spec
PROPERTIES OneAtATime
CHECK_DEADLOCK FALSE
