--------------------------- MODULE MCBufferCache ---------------------------
(* Tasks, buffers and blocks are interchangeable: none is ever compared by  *)
(* anything but equality.  The tasks differ where only some read ahead.     *)
EXTENDS BufferCache, TLC

DataSymmetry == Permutations(Buffers) \cup Permutations(Blocks)
Symmetry == DataSymmetry \cup Permutations(Tasks)
=============================================================================
