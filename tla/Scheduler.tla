----------------------------- MODULE Scheduler -----------------------------
(***************************************************************************)
(* sched.c: schedule(), do_timer(), sys_pause(), sys_alarm() and sys_nice(),*)
(* with the way in and out of the kernel in sys_call.s.                     *)
(*                                                                          *)
(* schedule() first looks at the timers and signals of all tasks, then      *)
(* picks the runnable task with the largest counter.  A counter goes down   *)
(* with every clock tick the task runs; when the counters of all runnable   *)
(* tasks are used up, those of all tasks are refilled.                      *)
(*                                                                          *)
(* A tick that finds the task in user mode may call schedule(); in kernel   *)
(* mode it only counts.  Alarms and timeouts are kept as the number of      *)
(* ticks until "alarm < jiffies" holds.                                     *)
(***************************************************************************)
EXTENDS Integers

CONSTANTS
  NR_TASKS,     \* slots of task[], task[0] included
  DefPriority,  \* the priority a task starts with (15)
  MaxPriority,  \* bound: sys_nice raises no priority above it
  MaxDelay,     \* bound: the longest alarm or timeout, in ticks
  Increments,   \* the arguments of sys_nice
  NONE          \* no alarm set (the fields are 0 in the code)

ASSUME TasksAssumption == NR_TASKS \in Nat \ {0}
ASSUME PriorityAssumption ==
  DefPriority \in Nat \ {0} /\ MaxPriority \in Nat /\ DefPriority <= MaxPriority
ASSUME DelayAssumption == MaxDelay \in Nat /\ NONE \notin Int /\ Increments \subseteq Int

Tasks == 1 .. NR_TASKS - 1
Delays == {NONE} \cup 0 .. MaxDelay + 1

VARIABLES
  current,   \* index of the running task; 0 is the idle task
  state, counter, priority, alarm, timeout,  \* fields of task_struct
  signal,    \* the tasks with an unblocked pending signal
  where      \* "user", "kernel", or on the way out through ret_from_sys_call

fields == <<state, counter, priority, alarm, timeout, signal>>
vars == <<current, fields, where>>

TypeOK ==
  /\ current \in 0 .. NR_TASKS - 1
  /\ state \in [Tasks -> {"TASK_RUNNING", "TASK_INTERRUPTIBLE", "TASK_UNINTERRUPTIBLE"}]
  /\ counter \in [Tasks -> Nat]
  /\ priority \in [Tasks -> 1 .. MaxPriority]
  /\ alarm \in [Tasks -> Delays]
  /\ timeout \in [Tasks -> Delays]
  /\ signal \in SUBSET Tasks
  /\ where \in [Tasks -> {"user", "kernel", "ret"}]

Init ==
  /\ current = 0
  /\ state = [t \in Tasks |-> "TASK_RUNNING"]
  /\ counter = [t \in Tasks |-> DefPriority]
  /\ priority = [t \in Tasks |-> DefPriority]
  /\ alarm = [t \in Tasks |-> NONE]
  /\ timeout = [t \in Tasks |-> NONE]
  /\ signal = {}
  /\ where = [t \in Tasks |-> "user"]
-----------------------------------------------------------------------------
\* The first loop of schedule(): expired timeouts and alarms, then signals.
SignalsAfter(al) == signal \cup {t \in Tasks : al[t] = 0}

\* Mutant: an expired timeout does not make a sleeper runnable.
StatesAfterSignals(st, al, to) ==
  [t \in Tasks |->
     IF st[t] = "TASK_INTERRUPTIBLE" /\ t \in SignalsAfter(al)
     THEN "TASK_RUNNING" ELSE st[t]]

StatesAfter(st, al, to) ==
  [t \in Tasks |->
     IF st[t] = "TASK_INTERRUPTIBLE" /\ (to[t] = 0 \/ t \in SignalsAfter(al))
     THEN "TASK_RUNNING" ELSE st[t]]

\* Mutant: "alarm = 0" is left out.
ExpireAgain(d) == d

Expire(d) == [t \in Tasks |-> IF d[t] = 0 THEN NONE ELSE d[t]]

\* Mutants: no refill; a refill without the shift.
RefillNothing(c) == c
RefillUnshifted(c) == [t \in Tasks |-> c[t] + priority[t]]

\* for all tasks: counter = (counter >> 1) + priority
Refill(c) == [t \in Tasks |-> (c[t] \div 2) + priority[t]]

\* The task the second loop picks from the runnable ones: the largest counter,
\* and the last slot among equals.
Best(run, c) ==
  CHOOSE t \in run : \A u \in run : c[u] < c[t] \/ (c[u] = c[t] /\ u <= t)

\* schedule(), called with states st, counters c, alarms al and timeouts to.
\* The loop refills at most once: after it every counter is at least a priority.
schedule(st, c, al, to) ==
  LET st1 == StatesAfter(st, al, to)
      run == {t \in Tasks : st1[t] = "TASK_RUNNING"}
      used == run # {} /\ \A t \in run : c[t] = 0
      c1 == IF used THEN Refill(c) ELSE c
  IN  /\ state' = st1
      /\ signal' = SignalsAfter(al)
      /\ alarm' = Expire(al)
      /\ timeout' = Expire(to)
      /\ counter' = c1
      /\ current' = IF run = {} THEN 0 ELSE Best(run, c1)

Runs(t, w) == current = t /\ where[t] = w
Goto(t, w) == where' = [where EXCEPT ![t] = w]
-----------------------------------------------------------------------------
\* The clock: jiffies++, do_timer(cpl).
OneTick(d) == [t \in Tasks |-> IF d[t] = NONE \/ d[t] = 0 THEN d[t] ELSE d[t] - 1]
Spent == IF counter[current] > 0 THEN counter[current] - 1 ELSE 0

Tick ==
  /\ current # 0
  /\ LET c == [counter EXCEPT ![current] = Spent]
         al == OneTick(alarm)
         to == OneTick(timeout)
     IN  \/ /\ where[current] = "user"
            /\ Spent = 0
            /\ Goto(current, "ret")
            /\ schedule(state, c, al, to)
            /\ UNCHANGED priority
         \/ /\ ~(where[current] = "user" /\ Spent = 0)
            /\ counter' = c /\ alarm' = al /\ timeout' = to
            /\ where' = [where EXCEPT ![current] = IF @ = "user" THEN "ret" ELSE @]
            /\ UNCHANGED <<current, state, priority, signal>>

\* The same when task[0] is interrupted; it calls schedule() all the time.
IdleTick ==
  /\ current = 0
  /\ alarm' = OneTick(alarm)
  /\ timeout' = OneTick(timeout)
  /\ UNCHANGED <<current, state, counter, priority, signal, where>>

IdlePause ==
  /\ current = 0
  /\ schedule(state, counter, alarm, timeout)
  /\ UNCHANGED <<priority, where>>
-----------------------------------------------------------------------------
SystemCall(t) ==
  /\ Runs(t, "user")
  /\ Goto(t, "kernel")
  /\ UNCHANGED <<current, fields>>

\* The end of system_call: a task whose counter is used up calls schedule().
\* The timeout of a select() is gone by then.
SystemReturn(t) ==
  /\ Runs(t, "kernel")
  /\ Goto(t, "ret")
  /\ LET to == [timeout EXCEPT ![t] = NONE]
     IN  \/ /\ counter[t] = 0
            /\ schedule(state, counter, alarm, to)
         \/ /\ counter[t] # 0
            /\ timeout' = to
            /\ UNCHANGED <<current, state, counter, alarm, signal>>
  /\ UNCHANGED priority

\* ret_from_sys_call: the signals are delivered.
ReturnToUser(t) ==
  /\ Runs(t, "ret")
  /\ Goto(t, "user")
  /\ signal' = signal \ {t}
  /\ UNCHANGED <<current, state, counter, priority, alarm, timeout>>

\* Mutant: the state is set and schedule() not called.
sys_pauseAwake(t) ==
  /\ Runs(t, "kernel")
  /\ state' = [state EXCEPT ![t] = "TASK_INTERRUPTIBLE"]
  /\ UNCHANGED <<current, counter, priority, alarm, timeout, signal, where>>

sys_pause(t) ==
  /\ Runs(t, "kernel")
  /\ schedule([state EXCEPT ![t] = "TASK_INTERRUPTIBLE"], counter, alarm, timeout)
  /\ UNCHANGED <<priority, where>>

\* do_select() with a timeout of d ticks and nothing ready yet.
Select(t, d) ==
  /\ Runs(t, "kernel")
  /\ schedule([state EXCEPT ![t] = "TASK_INTERRUPTIBLE"], counter, alarm,
              [timeout EXCEPT ![t] = d + 1])
  /\ UNCHANGED <<priority, where>>

\* sleep_on(); see WaitQueue for what it does to its queue.
SleepOn(t) ==
  /\ Runs(t, "kernel")
  /\ schedule([state EXCEPT ![t] = "TASK_UNINTERRUPTIBLE"], counter, alarm, timeout)
  /\ UNCHANGED <<priority, where>>

sys_alarm(t, d) ==
  /\ Runs(t, "kernel")
  /\ alarm' = [alarm EXCEPT ![t] = IF d > 0 THEN d + 1 ELSE NONE]
  /\ UNCHANGED <<current, state, counter, priority, timeout, signal, where>>

sys_nice(t, increment) ==
  /\ Runs(t, "kernel")
  /\ priority[t] - increment \in 1 .. MaxPriority
  /\ priority' = [priority EXCEPT ![t] = @ - increment]
  /\ UNCHANGED <<current, state, counter, alarm, timeout, signal, where>>
-----------------------------------------------------------------------------
\* wake_up() from an interrupt handler.
wake_up(t) ==
  /\ state[t] # "TASK_RUNNING"
  /\ state' = [state EXCEPT ![t] = "TASK_RUNNING"]
  /\ UNCHANGED <<current, counter, priority, alarm, timeout, signal, where>>

\* An interrupt handler or another task sends a signal.
SendSignal(t) ==
  /\ signal' = signal \cup {t}
  /\ UNCHANGED <<current, state, counter, priority, alarm, timeout, where>>

Kernel(t) ==
  \/ SystemReturn(t) \/ ReturnToUser(t) \/ sys_pause(t) \/ SleepOn(t)
  \/ \E d \in 1 .. MaxDelay : Select(t, d)

Next ==
  \/ Tick \/ IdleTick \/ IdlePause
  \/ \E t \in Tasks :
       \/ SystemCall(t) \/ Kernel(t)
       \/ wake_up(t) \/ SendSignal(t)
       \/ \E d \in 0 .. MaxDelay : sys_alarm(t, d)
       \/ \E i \in Increments : sys_nice(t, i)

Spec == Init /\ [][Next]_vars

\* The clock ticks for ever, the idle task runs its loop, and a system call
\* comes to its end or goes to sleep.
Fairness ==
  /\ WF_vars(Tick \/ IdleTick) /\ WF_vars(IdlePause)
  /\ \A t \in Tasks : WF_vars(Kernel(t))
FairSpec == Spec /\ Fairness
-----------------------------------------------------------------------------
\* A sleeping task's counter grows with every refill, but never to twice the
\* largest priority: (c >> 1) + p converges below 2p.
CounterBounded == \A t \in Tasks : counter[t] < 2 * MaxPriority

\* The task that has the processor is runnable, unless it is idle: nothing
\* takes TASK_RUNNING away from the current task without schedule().
CurrentIsRunnable == current # 0 => state[current] = "TASK_RUNNING"

\* No starvation: a task that stays runnable gets the processor, although
\* tasks that sleep a lot have larger counters.
NoStarvation ==
  \A t \in Tasks : (state[t] = "TASK_RUNNING") ~> (current = t)

\* An alarm ends in a signal, or is replaced, even if the task sleeps for ever
\* or runs in user mode all the time.
AlarmFires ==
  \A t \in Tasks :
    []<>(alarm[t] = NONE \/ Runs(t, "kernel"))

\* A task that sleeps interruptibly with a signal pending, or with a timeout, is
\* made runnable, although nobody wakes it: there is always another schedule().
SleepEnds ==
  \A t \in Tasks :
    (state[t] = "TASK_INTERRUPTIBLE" /\ (t \in signal \/ timeout[t] # NONE))
      ~> (state[t] = "TASK_RUNNING")
=============================================================================
