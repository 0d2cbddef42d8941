-------------------------------- MODULE Fifo --------------------------------
(***************************************************************************)
(* What a pipe promises: the bytes written come out once each, in the       *)
(* order they went in, and at most Capacity of them are inside.             *)
(***************************************************************************)
EXTENDS Naturals, Sequences

CONSTANTS Bytes, Capacity

VARIABLES
  q,     \* the bytes inside
  last   \* the byte that came out last

vars == <<q, last>>

Init == q = <<>> /\ last \notin Bytes

Put(c) ==
  /\ Len(q) < Capacity
  /\ q' = Append(q, c)
  /\ UNCHANGED last

Get ==
  /\ q # <<>>
  /\ last' = Head(q)
  /\ q' = Tail(q)

Next == Get \/ \E c \in Bytes : Put(c)

Spec == Init /\ [][Next]_vars
=============================================================================
