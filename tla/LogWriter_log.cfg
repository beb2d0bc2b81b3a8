CONSTANTS
  main = main
  server = server
  Callers = {main, server}
  MaxMsgs = 2
  Writer = Writer
  Nobody = Nobody
SPECIFICATION Spec
INVARIANTS BufferGuarded InOrderNoLoss AsleepIsFlushed FinalPass
PROPERTY ImplementsLog
CHECK_DEADLOCK FALSE
