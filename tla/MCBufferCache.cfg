SPECIFICATION Spec
CONSTANTS
  Tasks = {t1, t2}
  Readers = {t1}
  Buffers = {b1, b2}
  Blocks = {k1, k2, k3}
  BadBlocks = {}
  Faults = TRUE
  NONE = NONE
SYMMETRY DataSymmetry
INVARIANTS
  OneBufferPerBlock
  CountsAreReferences
  HoldersSeeLastWrite
  NoWriteLost
  BufferWaitEnds
PROPERTIES
  ReusedBuffersAreIdle
