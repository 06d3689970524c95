SPECIFICATION FairSpec
CONSTANTS
  t = t
  s = s
  r1 = r1
  r2 = r2
  Phones = {t, s}
  Teacher = t
  Enrolled = {t, s}
  Requests = {r1}
  RateLimit = 3
  AutoEnd = TRUE
  Faults = {}
  Commands = {"end", "sink"}
  MaxQueue = 2
  MaxDials <- OneEach
PROPERTIES TeacherGoneEnds SinkSinks
CHECK_DEADLOCK FALSE
