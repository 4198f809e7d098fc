SPECIFICATION FairSpec
CONSTANTS
  FoesPerFight = 3
  FoeHp <- FoeHpSet
  Blows <- BlowSet
  Rolls <- RollSet
  Defence = 2
  Bonus = 2
  PlayerHp = 2
  Boost = 1
  Potion = 1
  MaxFights = 2
  MaxLevels = 1
  MaxPotions = 1
INVARIANTS FightHasFoes GuardSpent
PROPERTIES TargetMeant ImplementsFairEncounter
CHECK_DEADLOCK FALSE
