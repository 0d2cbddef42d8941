--------------------------- MODULE MCRequestQueue ---------------------------
(* The request queue for TLC.  Positions are the numbers of the cfg files.  *)
EXTENDS RequestQueue
=============================================================================
