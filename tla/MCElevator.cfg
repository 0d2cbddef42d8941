SPECIFICATION FairSpec
CONSTANTS
  Tasks = {t1}
  NR_REQUEST = 4
  Blocks = {1, 2, 3, 4}
  Pages = {}
  NULL = NULL
INVARIANTS
  LocksHaveOwners
  TwoSweeps
PROPERTIES
  EveryRequestServed
CHECK_DEADLOCK FALSE
