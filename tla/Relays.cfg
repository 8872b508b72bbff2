SPECIFICATION SpecRelays
CONSTANTS
  MaxSent <- Amounts
  ReadLimit = 1
  HighWater = 1
  Resets = TRUE
  MaxFrames = 2
INVARIANTS DeliveredBeforeClose BuffersBounded FramesBeforeClose
PROPERTIES EndsTogether WsEndsTogether
CHECK_DEADLOCK FALSE
