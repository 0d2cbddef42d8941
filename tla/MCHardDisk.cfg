SPECIFICATION HdFairSpec
CONSTANTS
  Tasks = {t1, t2}
  NR_REQUEST = 2
  Blocks = {2}
  Pages = {3}
  NULL = NULL
  NR_HD = 1
  MAX_ERRORS = 3
  BlockSectors = 2
  PageSectors = 3
  LastPos = 2
  Faults = {"error", "lost", "drq"}
INVARIANTS
  ListIntact
  TransfersAreReal
PROPERTIES
  EveryRequestEnds
CHECK_DEADLOCK FALSE
