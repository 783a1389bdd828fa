SPECIFICATION Spec
CONSTANTS
  Team = {"Blue", "Red"}
  Champion = {"ann", "eve"}
  Tower = {"t1"}
  TeamOf <- MCTeamOf
  Home <- MCHome
  BaseCell <- MCBaseCell
  Corner <- MCCorner
  Fort <- MCFort
  Lane <- MCLane
  MinionId = {m1, m2}
  ChampionHealth = 1
  MinionHealth = 1
  TowerHealth = 1
  FortHealth = 1
  Reach <- MCReach
  Aggro <- MCAggro
  DeathTurns = 1
  Reward = 3
  MaxArrivals = 2
  View <- MCView
  Rows = 2
  Cols = 5
INVARIANTS
  ShownWhereTheyStand
  TowersStandWhole
  RewardsAreEarned
  ClientSeesTheBoard
  BlowsMeetEnemies
SYMMETRY MCSymmetry
CHECK_DEADLOCK FALSE
