----------------------------- MODULE MCHardDisk -----------------------------
(* The disk and its request queue for TLC.                                  *)
EXTENDS HardDisk
=============================================================================
