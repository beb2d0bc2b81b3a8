CONSTANTS
  Channels = 3
  Files = 2
  SwapModes = {"time", "size", "none"}
  MaxSize = 0
  RunBound = TRUE
  Empty = {"none"}
  MaxLists <- Lists
  Tried <- Inputs
  MaxSwaps = 1
  Null = Null
SPECIFICATION Spec
INVARIANTS TypeOK SoundKept OpenIsReachable SizeLimited CrashOnlyInDeinit WrittenOnce
PROPERTY ListsAreTaken
CHECK_DEADLOCK FALSE
