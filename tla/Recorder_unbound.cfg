CONSTANTS
  Channels = 1
  Files = 1
  SwapModes = {"none"}
  MaxSize = 1
  RunBound = FALSE
  Empty = {}
  MaxLists <- Lists
  Tried <- Inputs
  MaxSwaps = 0
  Null = Null
SPECIFICATION Spec
PROPERTY ListsAreTaken
CHECK_DEADLOCK FALSE
