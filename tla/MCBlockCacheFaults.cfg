SPECIFICATION FairSpec
CONSTANTS
  f1 = f1
  f2 = f2
  Files = {f1}
  mBlocks <- MCBlocksFaults
  MaxOffset = 31
  Readers = {r1, r2}
  Workers = {w1, w2}
  Requests <- MCRequestsFaults
  CorruptBlocks <- MCCorrupt
  CacheSize = 2
  SpuriousWakeups = TRUE
  Null = Null
INVARIANTS ReadExactUnlessEarly DamageIsLocal
PROPERTIES EveryReadReturns
CHECK_DEADLOCK FALSE
