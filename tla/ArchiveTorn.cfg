SPECIFICATION Spec
CONSTANTS
  u1 = u1
  u2 = u2
  u3 = u3
  f1 = f1
  f2 = f2
  f3 = f3
  Upload = {u1, u2, u3}
  FileName = {f1, f2, f3}
  FileOf <- OwnFile
  Sanitized <- OwnName
  Local <- Utc
  MaxClock = 5
  PerDay = 2
  Retention = 0
  StoreGcode = FALSE
  Faults = {}
  Absent = Absent
  Torn = Torn
INVARIANTS LatestNewest
CHECK_DEADLOCK FALSE
