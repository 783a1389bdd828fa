SPECIFICATION FairSpec
CONSTANTS
  Client = {c1, c2, c3}
  MaxPlayers = 2
  None = None
INVARIANTS
  TypeOK
  CountIsSeated
  EntriesAreLive
  FirstGeneration
PROPERTIES
  ImplementsLifecycle
  StartReachesSeated
CHECK_DEADLOCK FALSE
