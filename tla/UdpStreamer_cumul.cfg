CONSTANTS
  CounterMod = 16
  FirstCounters = {0}
  Channels = 2
  SingleFile = FALSE
  PeekOn = FALSE
  ChainClears = FALSE
  FaultSets <- Lossy
  MaxFrames = 5
  MaxQueue = 3
SPECIFICATION Safety
INVARIANT NullListIsOneFrame
CHECK_DEADLOCK FALSE
