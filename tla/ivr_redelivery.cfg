SPECIFICATION Spec
CONSTANTS
  None = None
  Bye = Bye
  p1 = p1
  p2 = p2
  p3 = p3
  Presses = {p1, p2}
  MaxTries = 1
  MaxDeliveries = 2
  Statuses = {"completed"}
  Faults = {"consumer_cut"}
SYMMETRY Interchangeable
PROPERTIES KeysKept AppliedOnce
CHECK_DEADLOCK FALSE
