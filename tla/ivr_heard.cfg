SPECIFICATION FairSpec
CONSTANTS
  None = None
  Bye = Bye
  p1 = p1
  p2 = p2
  p3 = p3
  Presses = {p1, p2}
  MaxTries = 1
  MaxDeliveries = 1
  Statuses = {"answered", "completed"}
  Faults = {}
PROPERTIES AppliedIsHeard
CHECK_DEADLOCK FALSE
