SPECIFICATION Spec
CONSTANTS
  f1 = f1
  f2 = f2
  Files <- MCFiles
  mBlocks <- MCBlocks
  MaxOffset = 31
  Readers = {r1, r2}
  Workers = {w1, w2}
  Requests <- MCRequestsLive
  CorruptBlocks = {}
  CacheSize = 3
  SpuriousWakeups = TRUE
  Null = Null
SYMMETRY Symmetric
INVARIANTS ReadExact
CHECK_DEADLOCK FALSE
