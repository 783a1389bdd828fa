SPECIFICATION ReadingSpec
CONSTANTS
  Capacity = 2
  Kinds <- MCKinds
  BoardLength = 9
  SocketRoom = 6
  ReadSize = 6
INVARIANTS
  TypeOK
  EachMessageOnce
  NoOvertaking
PROPERTIES
  EveryMessageArrives
  NothingLeftBehind
CHECK_DEADLOCK FALSE
