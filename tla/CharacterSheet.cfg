SPECIFICATION Spec
CONSTANTS
  Kinds <- KindSet
  Need <- NeedSeq
  StartHp = 2
  StartEnergy = 1
  HpPerLevel = 1
  EnergyPerLevel = 1
  PointsPerLevel = 1
  Changes <- ChangeSet
  Potion = 2
  MaxItems = 3
  MaxEarned = 4
INVARIANTS ItemsConserved LevelsPaidFor
CHECK_DEADLOCK FALSE
