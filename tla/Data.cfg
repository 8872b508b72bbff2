SPECIFICATION SpecData
CONSTANTS
  u1 = u1
  u2 = u2
  u3 = u3
  f1 = f1
  f2 = f2
  f3 = f3
  Upload = {u1, u2, u3}
  FileName = {f1, f2, f3}
  FileOf <- Reprint
  Sanitized <- OwnName
  Local <- Utc
  MaxClock = 5
  PerDay = 2
  Retention = 1
  StoreGcode = TRUE
  Faults = {"parse", "write", "dispose"}
  Absent = Absent
  Torn = Torn
  TotalSize = 5
  MaxEnd = 8
  JsonKeys = {"MainboardIP", "Data"}
  JsonValues = {"printer", "proxy", "url"}
  Widths <- Nesting
INVARIANTS FindNewest LatestNewestIntact CapturedFindable DisposedOnlyWhenArchived KnowsBytes RewriteExact NameAsEmbedded UsageFromLastLines DataSurvivesForm
CHECK_DEADLOCK FALSE
