SPECIFICATION Spec
CONSTANTS
  Files <- MCFiles
  WindowSize = 2
  MinBlock = 2
  Longest = 3
  USizeLimit = 8
  Null = Null
INVARIANTS IndexHoldsAll
CHECK_DEADLOCK FALSE
