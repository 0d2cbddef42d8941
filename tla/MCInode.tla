------------------------------ MODULE MCInode -------------------------------
(* Three tasks and two inodes: one task waits for an inode that the second  *)
(* gives another number and the third has locked.                           *)
EXTENDS Inode
=============================================================================
