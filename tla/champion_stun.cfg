SPECIFICATION Spec
CONSTANTS
  Base <- MCBase
  Increase <- MCIncrease
  XpPerLevel <- MCXpPerLevel
  Item = {"shield"}
  Cost <- MCCost
  Bonus <- MCBonus
  Slots = 1
  Mana = 2
  SpellCost <- MCSpellCost
  Cooldown <- MCCooldown
  TimerScale = 2
  StunTime = 2
  GoldMax = 2
  DeathsMax = 2
  Blow = {1, 4}
  HealAmount = {1}
  Flight = 1
  Reward <- MCReward
  Lag = 2
  MaxTime = 6
  MaxWalls = 2
  MaxEffects = 2
  MaxEarned = 4
PROPERTY StunLastsFromApplication
CHECK_DEADLOCK FALSE
