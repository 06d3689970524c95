SPECIFICATION Spec
CONSTANTS
  t = t
  s = s
  r1 = r1
  r2 = r2
  Phones = {t, s}
  Teacher = t
  Enrolled = {t}
  Requests = {r1}
  RateLimit = 3
  AutoEnd = FALSE
  Faults = {}
  Commands = {"add", "remove"}
  MaxQueue = 1
  MaxDials <- StudentTwo
INVARIANTS StatusAgreement
CHECK_DEADLOCK FALSE
