SPECIFICATION Spec
CONSTANTS
  p1 = p1
  p2 = p2
  p3 = p3
  Probe = {p1, p2, p3}
  None = None
INVARIANTS WaitersWait AnswerFromOwnSocket
PROPERTIES ProbesEnd FutureSetOnce
CHECK_DEADLOCK FALSE
