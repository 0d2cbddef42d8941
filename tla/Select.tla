------------------------------- MODULE Select -------------------------------
(***************************************************************************)
(* select.c: tasks that wait in several wait queues at once.                *)
(*                                                                          *)
(* do_select() enters a task in the wait queue of each descriptor that is   *)
(* not ready, as __sleep_on does with one queue (WaitQueue): the head is a  *)
(* pointer, and the entry keeps the task that was there before.             *)
(*                                                                          *)
(* Interrupts are off in do_select(), so that a task runs from one call of  *)
(* schedule() to the next without anything in between.  Which of the        *)
(* runnable tasks schedule() picks is left open.  It makes a task runnable  *)
(* whose time is over or that has a signal; nothing depends on when.        *)
(*                                                                          *)
(* A reader or writer that sleeps in one of the queues, and looks again, is *)
(* as a task that selects one descriptor.                                   *)
(***************************************************************************)
EXTENDS Naturals, SequencesExt

CONSTANTS
  Tasks,
  Pipes, Ttys,  \* the files the tasks have open
  Descriptors,  \* those, with "in", "out" or, for a pipe, "ex"
  NULL

VARIABLES
  ready,        \* the descriptors that can be read or written, or are closed
  queue,        \* the heads of the wait queues
  select        \* what each task is doing in sys_select()

vars == <<ready, queue, select>>

\* A wait queue: i_wait and i_wait2 of a pipe, proc_list of a terminal's queues.
Queues == (Pipes \cup Ttys) \X {"in", "out"}

\* The queue in which a descriptor waits: check_in(), check_out() and
\* check_ex() take i_wait for both ends of a pipe.
QueueOf(d) == IF d[1] \in Pipes THEN <<d[1], "in">> ELSE d

\* The queues that write_pipe(), read_pipe(), iput(), copy_to_cooked() and the
\* drivers of terminals wake when it becomes ready.
WokenFor(d) == IF d[2] = "ex" THEN {d[1]} \X {"in", "out"} ELSE {d}

\* state is that of the task; it has slept for wants, in the order in
\* which do_select() takes them, and table is its wait_table.  limit tells whether
\* current->timeout is not 0.
Call == [at : {"user", "slept"}, state : {"running", "interruptible", "uninterruptible"},
         wants : Seq(Descriptors), signal : BOOLEAN, limit : BOOLEAN,
         table : Seq([at : Queues, old : Tasks \cup {NULL}])]
User == [at |-> "user", state |-> "running", wants |-> << >>, signal |-> FALSE, limit |-> FALSE,
         table |-> << >>]

TypeOK ==
  /\ ready \subseteq Descriptors
  /\ queue \in [Queues -> Tasks \cup {NULL}]
  /\ select \in [Tasks -> Call]

Init ==
  /\ ready = {}
  /\ queue = [q \in Queues |-> NULL]
  /\ select = [t \in Tasks |-> User]

\* The calls c with the tasks of s made runnable.
Running(c, s) == [u \in Tasks |-> IF u \in s THEN [c[u] EXCEPT !.state = "running"] ELSE c[u]]
-----------------------------------------------------------------------------
\* The entries that add_wait() makes for the descriptors that are not ready,
\* one for each queue.
Table(wants, heads) ==
  LET New(i) == wants[i] \notin ready /\ \A j \in 1 .. i - 1 :
                  wants[j] \in ready \/ QueueOf(wants[j]) # QueueOf(wants[i])
      new == SelectSeq([i \in DOMAIN wants |-> i], New)
  IN  [k \in DOMAIN new |->
         LET q == QueueOf(wants[new[k]]) IN [at |-> q, old |-> heads[q]]]

\* The part of do_select() from "repeat": with something ready or a signal, t
\* leaves its queues at once, which wakes the tasks before it in them, and
\* returns; otherwise it sleeps.  heads and calls are the queues and the calls
\* at this point.
Repeat(t, wants, heads, calls) ==
  LET table == Table(wants, heads)
      count == Len(SelectSeq(wants, LAMBDA d : d \in ready))
      In(q) == \E i \in DOMAIN table : table[i].at = q
  IN  IF ~calls[t].signal /\ (table # << >> \/ calls[t].limit) /\ count = 0
      THEN /\ queue' = [q \in Queues |-> IF In(q) THEN t ELSE heads[q]]
           /\ select' = [calls EXCEPT ![t] = [@ EXCEPT !.at = "slept", !.state = "interruptible",
                                                       !.wants = wants, !.table = table]]
      ELSE /\ queue' = heads
           /\ select' = [Running(calls, {table[i].old : i \in DOMAIN table}) EXCEPT ![t] = User]

\* The loop of do_select() takes "in", "out" and "ex" of one file after another.
Wants ==
  {wants \in SetToAllKPermutations(Descriptors) :
     \A i \in DOMAIN wants, j \in DOMAIN wants : i < j /\ wants[i][1] = wants[j][1] =>
       /\ wants[i][2] # "ex" /\ wants[j][2] # "in"
       /\ wants[j - 1][1] = wants[j][1]}

\* sys_select(), which always sets a timeout.
sys_select(t, wants) ==
  /\ select[t].at = "user"
  /\ Repeat(t, wants, queue, [select EXCEPT ![t].limit = TRUE])
  /\ UNCHANGED ready
-----------------------------------------------------------------------------
\* Mutant: free_wait() does not look who is at the head.
RemovedAtOnce(t) == Len(select[t].table)

\* How many entries of t free_wait() removes before it meets a queue with
\* another task at its head.
Removed(t) ==
  LET table == select[t].table
      blocked == {i \in DOMAIN table : queue[table[i].at] \notin {t, NULL}}
  IN  IF blocked = {} THEN Len(table) ELSE Min(blocked) - 1

\* free_wait() from one call of schedule() to the next.
free_wait(t) ==
  LET table == select[t].table
      n == Removed(t)
      Free(q) == {i \in 1 .. n : table[i].at = q}
      heads == [q \in Queues |-> IF Free(q) = {} THEN queue[q] ELSE table[Max(Free(q))].old]
      calls == Running(select, {table[i].old : i \in 1 .. n})
  IN  /\ select[t].at = "slept" /\ select[t].state = "running"
      /\ \/ /\ n = Len(table)
            /\ Repeat(t, select[t].wants, heads, calls)
         \/ /\ n < Len(table)
            /\ queue' = heads
            /\ select' = [Running(calls, {queue[table[n + 1].at]})
                            EXCEPT ![t].table = SubSeq(table, n + 1, Len(table)),
                                   ![t].state = "uninterruptible"]
      /\ UNCHANGED ready
-----------------------------------------------------------------------------
\* A descriptor becomes ready, and the driver wakes its queue.
Arrive(d) ==
  /\ d \notin ready
  /\ ready' = ready \cup {d}
  /\ select' = Running(select, {queue[q] : q \in WokenFor(d)})
  /\ UNCHANGED queue

\* A task reads or writes until it is no longer.
Consume(d) ==
  /\ d \in ready /\ d[2] # "ex"
  /\ ready' = ready \ {d}
  /\ UNCHANGED <<queue, select>>

\* schedule() sees a signal, or that the time is over, which is forgotten.
Awake(t) == IF select[t].state = "interruptible" THEN "running" ELSE select[t].state

Signal(t) ==
  /\ select[t].at = "slept"
  /\ select' = [select EXCEPT ![t].signal = TRUE, ![t].state = Awake(t)]
  /\ UNCHANGED <<ready, queue>>

Expire(t) ==
  /\ select[t].limit
  /\ select' = [select EXCEPT ![t].limit = FALSE, ![t].state = Awake(t)]
  /\ UNCHANGED <<ready, queue>>

Next ==
  \/ \E t \in Tasks : \/ free_wait(t) \/ Signal(t) \/ Expire(t)
                      \/ \E wants \in Wants : sys_select(t, wants)
  \/ \E d \in Descriptors : Arrive(d) \/ Consume(d)

Spec == Init /\ [][Next]_vars
-----------------------------------------------------------------------------
Waiters(q) == {t \in Tasks : \E i \in DOMAIN select[t].table : select[t].table[i].at = q}
Before(t, q) == select[t].table[CHOOSE i \in DOMAIN select[t].table : select[t].table[i].at = q].old

\* No waiter is cut off or left behind: the heads of the queues and the entries
\* reach every task that has an entry in a queue, each once and no other
\* ("free_wait: NULL" is never printed), in whichever order the tasks enter and
\* leave several queues; and when a descriptor is ready that a task waits for,
\* one of the waiting tasks is runnable.
SelectorsReached ==
  /\ \A q \in Queues :
       \E order \in SetToSeqs(Waiters(q)) :
         /\ queue[q] = IF order = << >> THEN NULL ELSE Head(order)
         /\ \A i \in DOMAIN order :
              Before(order[i], q) = IF i = Len(order) THEN NULL ELSE order[i + 1]
  /\ (\E t \in Tasks : ready \cap ToSet(select[t].wants) # {})
       => \E t \in Tasks : select[t].at = "slept" /\ select[t].state = "running"
=============================================================================
