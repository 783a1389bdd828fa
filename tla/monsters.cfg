SPECIFICATION FairSpec
CONSTANTS
  Champion = {1, 2}
  Tower = {9}
  Home <- MCHome
  Definition = {"wolf"}
  SpawnCell <- MCSpawnCell
  Rows = 1
  Cols = 5
  Health = 2
  Leash = 2
  RespawnTurns = 2
  MaxInstances = 2
INVARIANTS
  PursuitHasTarget
  RestIsWhole
  RewardsAreForTheDead
PROPERTIES
  ChampionsStayShown
  ReturnEnds
