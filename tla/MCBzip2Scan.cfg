SPECIFICATION FairSpec
CONSTANTS
  Files <- MCFiles
  ChunkSize = 10
  Word = 2
  MagicSize = 1
  FooterSize = 3
INVARIANTS NoMagicMissed BlocksExact SoundUnlessSeam
PROPERTIES BuildEnds
CHECK_DEADLOCK FALSE
