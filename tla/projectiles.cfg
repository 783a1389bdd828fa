SPECIFICATION Spec
CONSTANTS
  Unit <- MCUnit
  Kind <- MCKind
  Team <- MCTeam
  Start <- MCStart
  Direction <- MCDirection
  Rows = 2
  Cols = 3
  Health = 2
  Speed = 2
  SpellRange = 1
  WallWidth = 2
  TowerRange <- MCTowerRange
  Cycle = 2
  Budget <- MCBudget
INVARIANTS
  OneHit
  NoGhosts
  SkillShotsEnd
PROPERTIES
  NoFriendlyFire
