SPECIFICATION Spec
CONSTANTS
  NULL = NULL
  Tasks = {t1, t2, t3} NR_INODE = 2 Nums = {1, 2} Overlaps = {}
INVARIANT NoWaiterForgotten
CHECK_DEADLOCK FALSE
