CONSTANTS
  Size = 3
  Bindings = {TRUE, FALSE}
  Channels = 2
  SmplPerChan = 2
  MaxCounter = 6
SPECIFICATION Spec
INVARIANT ListsFollowFrames
PROPERTY ImplementsQueue
CHECK_DEADLOCK FALSE
