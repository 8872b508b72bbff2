SPECIFICATION Spec
CONSTANTS
  r1 = r1
  r2 = r2
  r3 = r3
  r4 = r4
  r5 = r5
  Request = {r1, r2, r3, r4, r5}
  Chunks = 3
  Endpoints = {"cc2", "single", "cc1", "sdcp"}
  Answers <- AllAnswers
  None = None
SYMMETRY Symmetry
INVARIANTS OnlyAccepted PrintersAnswer EveryUploadCaptured NoBodyLeft
CHECK_DEADLOCK FALSE
