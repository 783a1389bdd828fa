SPECIFICATION BrokerSpec
CONSTANTS
  Conn = {c1, c2}
  EventType = {"login", "find-room", "create-room"}
  None = None
INVARIANT AnswerIsOwn
CHECK_DEADLOCK FALSE
