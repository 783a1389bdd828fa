SPECIFICATION FairLobbySpec
CONSTANTS
  Conn = {c1, c2, c3}
  EventType = {"login", "find-room"}
  None = None
  Client = {p1, p2, p3}
  FirstPort = 1
  LastPort = 2
  ClassicSeats = 2
  Absent = Absent
INVARIANTS
  OneAnswerOwed
  OneOpenRoom
  NoRoomOversold
  SeatedInOwnRoom
PROPERTIES
  EveryRequestAnswered
  FullRoomPlays
CHECK_DEADLOCK FALSE
