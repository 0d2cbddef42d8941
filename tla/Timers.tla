------------------------------- MODULE Timers -------------------------------
(***************************************************************************)
(* add_timer() of sched.c, and the part of do_timer() that runs the timers. *)
(*                                                                          *)
(* The list next_timer is a sequence of the differences between successive  *)
(* timers; a slot of timer_list[] is free when it is not in it.  A function *)
(* that do_timer() calls may add timers, as those of the floppy driver do;  *)
(* add_timer() ends with sti(), and then the next tick may come before      *)
(* do_timer() has called the others.                                        *)
(***************************************************************************)
EXTENDS Integers, SequencesExt

CONSTANTS
  TIME_REQUESTS,  \* (64) one more is a panic, and is not added here
  MaxTime,        \* bound: the longest time asked for
  MaxLate         \* bound: how many ticks interrupt the loop of do_timer()

VARIABLES
  timers,    \* what is linked to next_timer, with the ticks left of the time
             \* that was asked for
  calling,   \* do_timer() is in its loop
  enabled    \* may a tick come?

vars == <<timers, calling, enabled>>

TypeOK ==
  /\ \A i \in DOMAIN timers : timers[i] \in [jiffies : Int, left : Int]
  /\ Len(timers) <= TIME_REQUESTS
  /\ calling \in BOOLEAN /\ enabled \in BOOLEAN

Init == timers = << >> /\ calling = FALSE /\ enabled = TRUE

\* The jiffies until timer k fires: all the differences up to it.
Until(s, k) ==
  LET sum[i \in 0 .. k] == IF i = 0 THEN 0 ELSE sum[i - 1] + s[i].jiffies
  IN  sum[k]

\* The new timer is moved behind all those that fire before it, and each one
\* it passes is subtracted from it; what follows is left as it is.
Insert(s, j) ==
  LET k == CHOOSE i \in 0 .. Len(s) :
             /\ i < Len(s) => Until(s, i + 1) >= j
             /\ \A l \in 1 .. i : Until(s, l) < j
  IN  InsertAt(s, k + 1, [jiffies |-> j - Until(s, k), left |-> j])

\* add_timer() for j jiffies, from an interrupt or from a timer's function.
add_timer(j) ==
  /\ Len(timers) < TIME_REQUESTS
  /\ enabled
  /\ timers' = Insert(timers, j)
  /\ UNCHANGED <<calling, enabled>>

\* do_timer(), up to its loop.
Tick ==
  /\ enabled
  /\ timers # << >> => Head(timers).jiffies > -MaxLate
  /\ timers' = [i \in DOMAIN timers |->
                  [jiffies |-> timers[i].jiffies - (IF i = 1 THEN 1 ELSE 0),
                   left |-> Max({timers[i].left - 1, -MaxLate})]]
  /\ calling' = TRUE
  /\ enabled' = FALSE

\* Mutant: off by one.
DueAt1(s) == s # << >> /\ Head(s).jiffies <= 1

Due(s) == s # << >> /\ Head(s).jiffies <= 0

\* The loop calls the first function, which adds a timer of j jiffies, or none
\* (0); or it is over.
Call ==
  /\ calling /\ Due(timers)
  /\ \E j \in 0 .. MaxTime :
       /\ timers' = IF j = 0 THEN Tail(timers) ELSE Insert(Tail(timers), j)
       /\ enabled' = (enabled \/ j > 0)
  /\ UNCHANGED calling

Return ==
  /\ calling /\ ~Due(timers)
  /\ calling' = FALSE /\ enabled' = TRUE
  /\ UNCHANGED timers

Next == Tick \/ Call \/ Return \/ \E j \in 1 .. MaxTime : add_timer(j)

Spec == Init /\ [][Next]_vars
-----------------------------------------------------------------------------
\* No timer fires before its time, wherever it was put among the others, and
\* when a tick interrupts the loop that calls them.
NeverEarly ==
  /\ \A k \in DOMAIN timers : Until(timers, k) >= timers[k].left
  /\ Due(timers) => Head(timers).left <= 0
=============================================================================
