SPECIFICATION FairSpec
CONSTANTS
  Users = {u1}
  Callers = {c1}
  Shards = {h1}
  MaxFailed = 1
  Lockout = 1
  Timeout = 0
  MaxSessions = 1
  MaxFailures = 0
  MaxTime = 0
  None = None
PROPERTIES ValidationsEnd
CHECK_DEADLOCK FALSE
