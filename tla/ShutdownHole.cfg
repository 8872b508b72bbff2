SPECIFICATION SpecShutdown
CONSTANTS
  r1 = r1
  r2 = r2
  r3 = r3
  k1 = k1
  a = a
  Request = {r1, r2}
  Upload = {a}
  KeyOf <- OneUpload
  TotalSize = 2
  Chunk <- Halves
  PerKeyPath = FALSE
  Faults = {}
  Closer = Closer
  Reaper = Reaper
  Nobody = Nobody
  NoSession = NoSession
  NoFile = NoFile
  Hole = Hole
INVARIANTS NoHoleArchived
CHECK_DEADLOCK FALSE
