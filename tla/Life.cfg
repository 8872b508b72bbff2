SPECIFICATION Spec
CONSTANTS
  r1 = r1
  r2 = r2
  r3 = r3
  c1 = c1
  Request = {r1, r2, r3}
  On <- BothPorts
  Connection = {c1}
  Configured = {"auto", "CC1", "CC2"}
  MaxLives = 2
INVARIANTS ClientOutlivesHandlers NoStrayFile NothingLeft ServicesFitAnswers
PROPERTIES NotBeneathWriters ComesUp StopsOnceRelaysEnd
CHECK_DEADLOCK FALSE
