SPECIFICATION TablesSpec
CONSTANTS
  NULL = NULL
  Tasks = {t1, t2} NR_INODE = 2 Nums = {1, 2, 3} Overlaps = {}
  NR_TASKS = 5 MaxPid = 5 PageSleeps = FALSE
  MAX_LINK_NUM = 2 Clients = {1, 2, 3, 4}
  TIME_REQUESTS = 3 MaxTime = 3 MaxLate = 2
  Spaces = {s1, s2} FilePages = {c} DataPages = {d} NrPages = 2 NrSwap = 2
  Selectors = {u1, u2} pipe = pipe tty = tty
  reader = reader writer = writer
  TTY_BUF_SIZE = 3 ROOM = 2 ReadCounts = {1, 2} WriteCounts = {2}
INVARIANTS
  TablesTypeOK
  OneInodePerNumber CountsAreReferences ChangesSurvive
  TreeIntact ZombiesAreAnnounced  NeverEarly
     LinesGetThrough
CHECK_DEADLOCK FALSE
