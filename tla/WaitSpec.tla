------------------------------ MODULE WaitSpec ------------------------------
(***************************************************************************)
(* What the wait queues of sched.c promise to their callers, and what the   *)
(* other modules take for granted when they write                           *)
(* "while (busy) sleep_on(&queue)" as a guard: a caller goes on in a state  *)
(* in which the resource is there, takes it in the same step, and as long   *)
(* as the resource is there and somebody waits, somebody goes on.           *)
(***************************************************************************)
CONSTANTS Tasks, Interruptible

VARIABLES waiting, busy

vars == <<waiting, busy>>

Init == waiting = {} /\ busy = FALSE

Ask(t) ==
  /\ t \notin waiting
  /\ waiting' = waiting \cup {t}
  /\ UNCHANGED busy

Grant(t) ==
  /\ t \in waiting
  /\ ~busy
  /\ busy' = TRUE
  /\ waiting' = waiting \ {t}

Cancel(t) ==
  /\ Interruptible
  /\ t \in waiting
  /\ waiting' = waiting \ {t}
  /\ UNCHANGED busy

Release ==
  /\ busy
  /\ busy' = FALSE
  /\ UNCHANGED waiting

Next == Release \/ \E t \in Tasks : Ask(t) \/ Grant(t) \/ Cancel(t)

Spec == Init /\ [][Next]_vars /\ WF_vars(\E t \in Tasks : Grant(t) \/ (Cancel(t) /\ ~busy))
=============================================================================
