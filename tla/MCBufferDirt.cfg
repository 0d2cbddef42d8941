SPECIFICATION Spec
CONSTANTS
  Tasks = {t1, t2}
  Readers = {}
  Buffers = {b1, b2}
  Blocks = {k1, k2, k3}
  BadBlocks = {}
  Faults = TRUE
  NONE = NONE
SYMMETRY Symmetry
INVARIANT
  CleanMeansUnmodified
