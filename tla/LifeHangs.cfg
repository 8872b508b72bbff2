SPECIFICATION Spec
CONSTANTS
  r1 = r1
  r2 = r2
  r3 = r3
  Request = {r1}
  On <- BothPorts
  Connection = {c1}
  c1 = c1
  Configured = {"CC1"}
  MaxLives = 1
PROPERTIES Stops
CHECK_DEADLOCK FALSE
