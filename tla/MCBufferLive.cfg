SPECIFICATION FairSpec
CONSTANTS
  Tasks = {t1, t2, t3}
  Readers = {}
  Buffers = {b1}
  Blocks = {k1, k2}
  BadBlocks = {k1, k2}
  Faults = FALSE
  NONE = NONE
PROPERTIES
  CallsReturn
