CONSTANTS
  MaxConns = 2
  MaxLines <- LinesOf
  MaxMsgs = 3
  RxCap = 2
SPECIFICATION Spec
INVARIANTS TypeOK AloneIsSafe AnswersMatchLines MessagesInOrder
PROPERTIES NewestIsAnswered MessagesAreLogged
CHECK_DEADLOCK FALSE
