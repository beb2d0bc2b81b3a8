CONSTANTS
  FrameSize = 3
  SAMPLES = 2
  Energies <- Sounds
  Blank = Blank
  MaxButtons = 2
  Sizes = {0, 2, 3}
  Lengths = {0, 1, 3}
  MaxQueued = 10
SPECIFICATION Spec
INVARIANTS TypeOK StaleCountIsGood AnalysedInOrder WindowsAreConsecutive PressesReported CrashesOnlyLate
PROPERTY EntriesAreTaken
CHECK_DEADLOCK FALSE
