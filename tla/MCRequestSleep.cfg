SPECIFICATION Spec
CONSTANTS
  Tasks = {t1, t2}
  NR_REQUEST = 2
  Blocks = {1, 2}
  Pages = {3}
  NULL = NULL
INVARIANT
  SleepOnlyWhenFull
