SPECIFICATION Spec
CONSTANTS
  r1 = r1
  r2 = r2
  r3 = r3
  r4 = r4
  k1 = k1
  k2 = k2
  a = a
  b = b
  Request = {r1, r2, r3, r4}
  Upload = {a, b}
  KeyOf <- TwoUploads
  TotalSize = 2
  Chunk <- Halves
  PerKeyPath = TRUE
  Faults = {"write", "close", "unlink", "create"}
  Reaper = Reaper
  Nobody = Nobody
  NoSession = NoSession
  NoFile = NoFile
  Hole = Hole
SYMMETRY Symmetry
INVARIANTS LocksComeFree OneThreadPerFile ArchiveIntact ArchivedOnce NoOrphanTemp
PROPERTIES FreshSessionsSurvive ImplementsCapture
CHECK_DEADLOCK FALSE
