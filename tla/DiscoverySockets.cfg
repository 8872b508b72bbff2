SPECIFICATION Spec
CONSTANTS
  p1 = p1
  p2 = p2
  p3 = p3
  Probe = {p1, p2}
  None = None
INVARIANTS OneSocket
CHECK_DEADLOCK FALSE
