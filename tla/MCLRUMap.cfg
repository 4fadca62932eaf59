SPECIFICATION MCSpec
CONSTANTS
  Keys = {k1, k2, k3, k4}
  Values = {v}
  Weights = {0, 1, 2, 4}
INVARIANTS MapMatchesList WeightBounded HoldsMostRecentlyUsed
PROPERTIES EvictsOnlyForRoom
