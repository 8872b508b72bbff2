SPECIFICATION Spec
CONSTANTS
  r1 = r1
  r2 = r2
  r3 = r3
  r4 = r4
  k1 = k1
  k2 = k2
  a = a
  b = b
  Request = {r1, r2}
  Upload = {a}
  KeyOf <- OneUpload
  TotalSize = 2
  Chunk <- AnyChunk
  PerKeyPath = TRUE
  Faults = {}
  Reaper = Reaper
  Nobody = Nobody
  NoSession = NoSession
  NoFile = NoFile
  Hole = Hole
PROPERTIES QueuedChunkNotArchived
CHECK_DEADLOCK TRUE
