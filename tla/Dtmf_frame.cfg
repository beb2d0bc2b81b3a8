CONSTANTS
  FrameSize = 3
  SAMPLES = 2
  Energies <- Sounds
  Blank = Blank
  MaxButtons = 2
  Sizes = {1}
  Lengths = {0, 1, 3}
  MaxQueued = 10
SPECIFICATION Safety
INVARIANT FrameIsPacked
CHECK_DEADLOCK FALSE
