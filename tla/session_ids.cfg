SPECIFICATION Spec
CONSTANTS
  Client = {c1, c2, c3}
  MaxPlayers = 2
  None = None
INVARIANT UniqueChampions
CHECK_DEADLOCK FALSE
