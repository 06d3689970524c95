SPECIFICATION Spec
CONSTANTS
  t = t
  s = s
  r1 = r1
  r2 = r2
  Phones = {t, s}
  Teacher = t
  Enrolled = {t}
  Requests = {r1, r2}
  RateLimit = 3
  AutoEnd = TRUE
  Faults = {"cut", "reorder"}
  Commands = {"sink"}
  MaxQueue = 1
  MaxDials <- TeacherTwo
INVARIANTS LoopAlive TimerDriven
CHECK_DEADLOCK FALSE
