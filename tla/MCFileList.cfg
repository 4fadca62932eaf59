SPECIFICATION FairSpec
CONSTANTS
  Sources <- MCSources
  Disks <- MCDisks
  Replacements <- MCReplacements
  ArgLists <- MCArgLists
  ReadOnly = {"locked"}
  HeaderSize = 2
  Chunk = 2
  USizeLimit = 8
  MaxOffset = 63
  None = None
INVARIANTS ListsAreTheFiles StaleOnlyWhen AllAreNamed LayoutsOK
PROPERTIES AddEnds
