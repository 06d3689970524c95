SPECIFICATION Spec
CONSTANTS
  t = t
  s = s
  r1 = r1
  r2 = r2
  Phones = {t, s}
  Teacher = t
  Enrolled = {t, s}
  Requests = {r1}
  RateLimit = 1
  AutoEnd = TRUE
  Faults = {"cut", "start_fails", "hangup_fails"}
  Commands = {"end", "remove"}
  MaxQueue = 2
  MaxDials <- OneEach
INVARIANT LegsReachable
CHECK_DEADLOCK FALSE
