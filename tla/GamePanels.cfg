SPECIFICATION FairSpec
CONSTANTS
  NoJob = NoJob
  NoFrame = NoFrame
  MaxRolls = 2
  MaxFills = 1
INVARIANTS OfferedIsTaken
PROPERTIES TurnsWaitForRolls RollsComeUp
