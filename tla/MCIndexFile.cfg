SPECIFICATION Spec
CONSTANTS
  s1 = s1
  s2 = s2
  Mounts = {m1, m2}
  Sources <- MCSources
  Built <- MCBuilt
  Index <- MCIndex
  Null = Null
SYMMETRY Symmetric
INVARIANTS TypeOK ServesWholeFile IndexLeftWhole
PROPERTIES SkipsOnlyBesideWriter
