SPECIFICATION Spec
CONSTANTS
  Files <- MCFiles
  mBlocks <- MCBlocks
  MaxOffset = 31
INVARIANTS FindBlockCorrect
