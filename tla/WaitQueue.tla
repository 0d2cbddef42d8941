----------------------------- MODULE WaitQueue -----------------------------
(***************************************************************************)
(* sched.c: sleep_on(), interruptible_sleep_on() and wake_up() on one wait  *)
(* queue, with the loop all their callers put around them:                  *)
(*                                                                          *)
(*     cli(); while (busy) sleep_on(&p); busy = 1; sti();                   *)
(*                                                                          *)
(* (lock_buffer, lock_inode, lock_super, floppy_on: Interruptible = FALSE;   *)
(* sleep_if_empty and sleep_if_full of tty_io.c, which also leave the loop   *)
(* when a signal is pending: Interruptible = TRUE, "busy" is "the queue is   *)
(* empty").  The resource is given back by an interrupt, which wakes p.      *)
(*                                                                          *)
(* A wait queue is one pointer, p.  A task that goes to sleep keeps the old  *)
(* value of p in its local variable tmp, so the sleepers form a stack that   *)
(* is linked through their kernel stacks, and wake_up() only ever makes the  *)
(* top of it runnable.                                                      *)
(*                                                                          *)
(* The kernel is not preemptive: a task that runs in the kernel gives up the *)
(* processor only in schedule(), and an interrupt can come between any two   *)
(* of its steps unless it has executed cli().  switch_to() saves and loads   *)
(* the interrupt flag with the rest of a task's registers.  Which of the     *)
(* runnable tasks schedule() picks is left open here; see Scheduler.         *)
(***************************************************************************)
EXTENDS Naturals

CONSTANTS
  Tasks,          \* task[1] .. task[NR_TASKS-1]
  Idle,           \* task[0], which runs when no other task can, and never sleeps
  NULL,
  Interruptible   \* which of the two kinds of callers uses the queue

ASSUME TaskAssumption == Idle \notin Tasks /\ NULL \notin Tasks
ASSUME ModeAssumption == Interruptible \in BOOLEAN

VARIABLES
  p,        \* the queue: the task that went to sleep last, or NULL
  tmp,      \* the local variable tmp of each task that is in __sleep_on
  state,    \* task_struct.state
  pc,       \* where each task is in its system call
  eflagsIF, \* the interrupt flag of each task
  current,  \* the task that has the processor
  busy,     \* what the tasks wait for: b_lock, i_lock, EMPTY(queue)...
  signal    \* the tasks with an unblocked pending signal

vars == <<p, tmp, state, pc, eflagsIF, current, busy, signal>>

SleepState == IF Interruptible THEN "TASK_INTERRUPTIBLE" ELSE "TASK_UNINTERRUPTIBLE"

TypeOK ==
  /\ p \in Tasks \cup {NULL}
  /\ tmp \in [Tasks -> Tasks \cup {NULL}]
  /\ state \in [Tasks -> {"TASK_RUNNING", "TASK_INTERRUPTIBLE", "TASK_UNINTERRUPTIBLE"}]
  /\ pc \in [Tasks -> {"user", "test", "enqueue", "asleep"}]
  /\ eflagsIF \in [Tasks -> BOOLEAN]
  /\ current \in Tasks \cup {Idle}
  /\ busy \in BOOLEAN
  /\ signal \in SUBSET Tasks

Init ==
  /\ p = NULL
  /\ tmp = [t \in Tasks |-> NULL]
  /\ state = [t \in Tasks |-> "TASK_RUNNING"]
  /\ pc = [t \in Tasks |-> "user"]
  /\ eflagsIF = [t \in Tasks |-> TRUE]
  /\ current = Idle
  /\ busy = FALSE
  /\ signal = {}
-----------------------------------------------------------------------------
\* schedule(), called when the states of the tasks are st: an interruptible
\* task with a pending signal is made runnable, and one of the runnable tasks
\* gets the processor, or task[0] when there is none.
schedule(st) ==
  /\ state' = [t \in Tasks |->
                 IF st[t] = "TASK_INTERRUPTIBLE" /\ t \in signal
                 THEN "TASK_RUNNING" ELSE st[t]]
  /\ LET runnable == {t \in Tasks : state'[t] = "TASK_RUNNING"}
     IN  current' \in IF runnable = {} THEN {Idle} ELSE runnable

\* wake_up(p), as a function of the states.
wake_up(st) == [t \in Tasks |-> IF t = p THEN "TASK_RUNNING" ELSE st[t]]
-----------------------------------------------------------------------------
\* Mutant: the caller forgets cli().
EnterWithInterrupts(t) ==
  /\ current = t
  /\ pc[t] = "user"
  /\ pc' = [pc EXCEPT ![t] = "test"]
  /\ UNCHANGED <<p, tmp, state, eflagsIF, current, busy, signal>>

\* A task enters the kernel and executes cli().
Enter(t) ==
  /\ current = t
  /\ pc[t] = "user"
  /\ pc' = [pc EXCEPT ![t] = "test"]
  /\ eflagsIF' = [eflagsIF EXCEPT ![t] = FALSE]
  /\ UNCHANGED <<p, tmp, state, current, busy, signal>>

\* The loop condition holds: the task is about to call __sleep_on.
Test(t) ==
  /\ current = t
  /\ pc[t] = "test"
  /\ busy
  /\ ~(Interruptible /\ t \in signal)
  /\ pc' = [pc EXCEPT ![t] = "enqueue"]
  /\ UNCHANGED <<p, tmp, state, eflagsIF, current, busy, signal>>

\* The task is back in user mode, where its signals have been delivered.
Return(t) ==
  /\ pc' = [pc EXCEPT ![t] = "user"]
  /\ eflagsIF' = [eflagsIF EXCEPT ![t] = TRUE]
  /\ signal' = signal \ {t}

\* The loop ends with the resource, and sti().
Take(t) ==
  /\ current = t
  /\ pc[t] = "test"
  /\ ~busy
  /\ busy' = TRUE
  /\ Return(t)
  /\ UNCHANGED <<p, tmp, state, current>>

\* The loop of sleep_if_full ends with a signal, and nothing is taken, even if
\* there is something to take by now.
GiveUp(t) ==
  /\ current = t
  /\ pc[t] = "test"
  /\ Interruptible /\ t \in signal
  /\ Return(t)
  /\ UNCHANGED <<p, tmp, state, current, busy>>

\* Mutant: the old value of p is not kept.
SleepOnAlone(t) ==
  /\ current = t
  /\ pc[t] = "enqueue"
  /\ p' = t
  /\ pc' = [pc EXCEPT ![t] = "asleep"]
  /\ schedule([state EXCEPT ![t] = SleepState])
  /\ UNCHANGED <<tmp, eflagsIF, busy, signal>>

\* __sleep_on up to its first call of schedule().
SleepOn(t) ==
  /\ current = t
  /\ pc[t] = "enqueue"
  /\ tmp' = [tmp EXCEPT ![t] = p]
  /\ p' = t
  /\ pc' = [pc EXCEPT ![t] = "asleep"]
  /\ schedule([state EXCEPT ![t] = SleepState])
  /\ UNCHANGED <<eflagsIF, busy, signal>>

\* schedule() has returned in __sleep_on, but another task went to sleep
\* after this one: wake that task and sleep again, uninterruptibly.
SleepAgain(t) ==
  /\ current = t
  /\ pc[t] = "asleep"
  /\ p # NULL /\ p # t
  /\ schedule([wake_up(state) EXCEPT ![t] = "TASK_UNINTERRUPTIBLE"])
  /\ UNCHANGED <<p, tmp, pc, eflagsIF, busy, signal>>

\* schedule() has returned in __sleep_on and this task is the last that went
\* to sleep (or the queue is NULL, which prints a warning): the task before it
\* becomes the top of the queue and is made runnable.
WakeNext(t) ==
  /\ current = t
  /\ pc[t] = "asleep"
  /\ p = NULL \/ p = t
  /\ p' = tmp[t]
  /\ tmp' = [tmp EXCEPT ![t] = NULL]
  /\ state' = [u \in Tasks |-> IF u = tmp[t] THEN "TASK_RUNNING" ELSE state[u]]
  /\ pc' = [pc EXCEPT ![t] = "test"]
  /\ UNCHANGED <<eflagsIF, current, busy, signal>>

\* The timer interrupt finds a task in user mode whose time slice is used up.
Preempt(t) ==
  /\ current = t
  /\ pc[t] = "user"
  /\ schedule(state)
  /\ UNCHANGED <<p, tmp, pc, eflagsIF, busy, signal>>

\* The idle task calls pause() in a loop.
Pause ==
  /\ current = Idle
  /\ schedule(state)
  /\ UNCHANGED <<p, tmp, pc, eflagsIF, busy, signal>>
-----------------------------------------------------------------------------
InterruptsEnabled == current \in Tasks => eflagsIF[current]

\* unlock_buffer() from the disk interrupt, put_queue() from the keyboard's:
\* the resource is there again, wake_up(&p).
Interrupt ==
  /\ InterruptsEnabled
  /\ busy
  /\ busy' = FALSE
  /\ state' = wake_up(state)
  /\ UNCHANGED <<p, tmp, pc, eflagsIF, current, signal>>

\* A signal is sent to a task inside the system call (tty_intr, kill).
\* Nothing is woken here: the next schedule() looks at the signals.
Send(t) ==
  /\ Interruptible
  /\ InterruptsEnabled
  /\ pc[t] # "user"
  /\ signal' = signal \cup {t}
  /\ UNCHANGED <<p, tmp, state, pc, eflagsIF, current, busy>>

Step(t) ==
  \/ Enter(t) \/ Test(t) \/ Take(t) \/ GiveUp(t)
  \/ SleepOn(t) \/ SleepAgain(t) \/ WakeNext(t) \/ Preempt(t)

Next ==
  \/ \E t \in Tasks : Step(t) \/ Send(t)
  \/ Pause
  \/ Interrupt

Spec == Init /\ [][Next]_vars

\* A task in the kernel goes on, and a task that is runnable again and again
\* when schedule() is called gets the processor again and again (checked of
\* schedule() in Scheduler).  Nothing is assumed of the interrupts or of the
\* tasks' calls.
Fairness ==
  \A t \in Tasks :
    /\ WF_vars(Test(t) \/ Take(t) \/ GiveUp(t) \/ SleepOn(t)
                 \/ SleepAgain(t) \/ WakeNext(t))
    /\ SF_vars(/\ Pause \/ \E u \in Tasks : SleepOn(u) \/ SleepAgain(u) \/ Preempt(u)
               /\ current' = t)
FairSpec == Spec /\ Fairness
-----------------------------------------------------------------------------
Sleepers == {t \in Tasks : pc[t] = "asleep"}

\* The sleepers form a stack whose top is p and which is linked through tmp;
\* below[t] are the tasks that went to sleep before t.
Linked(below) ==
  /\ p = NULL => Sleepers = {}
  /\ p # NULL => p \in Sleepers /\ Sleepers = below[p] \cup {p}
  /\ \A t \in Sleepers :
       /\ t \notin below[t]
       /\ tmp[t] = NULL => below[t] = {}
       /\ tmp[t] # NULL => tmp[t] \in Sleepers /\ below[t] = below[tmp[t]] \cup {tmp[t]}
       /\ \A u \in below[t] : below[u] \subseteq below[t]

\* No sleeper is ever cut off: the pointer p and the saved values of it reach
\* every task inside __sleep_on, each once, so "Warning: *P = NULL" is never
\* printed (sched.c:255-268).
QueueIntact == \E below \in [Tasks -> SUBSET Tasks] : Linked(below)

\* No wake-up is lost: when what the tasks wait for is there, one of the
\* sleepers is runnable, and it will wake the others in turn.
NoLostWakeup ==
  ~busy /\ Sleepers # {} => \E t \in Sleepers : state[t] = "TASK_RUNNING"
=============================================================================
