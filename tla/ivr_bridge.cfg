SPECIFICATION Spec
CONSTANTS
  None = None
  Bye = Bye
  p1 = p1
  p2 = p2
  p3 = p3
  Presses = {p1, p2}
  MaxTries = 2
  MaxDeliveries = 1
  Statuses = {"completed"}
  Faults = {"retry", "push_fails", "send_fails"}
SYMMETRY Interchangeable
INVARIANTS BridgeHandsOver
CHECK_DEADLOCK FALSE
