CONSTANTS
  CounterMod = 16
  FirstCounters = {0, 1, 13}
  Channels = 2
  SingleFile = FALSE
  PeekOn = TRUE
  ChainClears = TRUE
  FaultSets <- Faults
  MaxFrames = 5
  MaxQueue = 3
SPECIFICATION Spec
INVARIANTS TypeOK CountersBalance RecordingFallsShort
PROPERTIES ForwardedInOrder SilenceIsNoticed
CHECK_DEADLOCK FALSE
