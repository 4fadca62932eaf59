SPECIFICATION FairSpec
CONSTANTS
  Files <- MCFiles
  WindowSize = 2
  MinBlock = 2
  Longest = 3
  USizeLimit = 8
  Null = Null
INVARIANTS EntriesTile EntriesDecode EntriesBounded SoundIsNotDamaged
PROPERTIES ScanEnds
CHECK_DEADLOCK FALSE
