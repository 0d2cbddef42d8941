-------------------------- MODULE SchedulerProofs --------------------------
(***************************************************************************)
(* The type of the scheduler's state, the bound of the counters, and that   *)
(* the task with the processor is runnable, for every number of tasks and   *)
(* every priority.                                                          *)
(*                                                                          *)
(* The three invariants are inductive together.  All of them rest on what   *)
(* schedule() does, so its effect is proved once (ScheduleKeeps) and used   *)
(* for every action that calls it; there the point is that the second loop  *)
(* finds a task whenever one is runnable (BestIsRunnable).                  *)
(***************************************************************************)
EXTENDS Scheduler, WellFoundedInduction, TLAPS

States == {"TASK_RUNNING", "TASK_INTERRUPTIBLE", "TASK_UNINTERRUPTIBLE"}

\* The inductive invariant.
IInv == TypeOK /\ CounterBounded /\ CurrentIsRunnable

\* A nonempty set of naturals has a least element.
LEMMA LeastNat ==
  ASSUME NEW T \in SUBSET Nat, T # {}
  PROVE  \E x \in T : \A y \in T : x <= y
<1>1. PICK x \in T : \A y \in T : <<y, x>> \notin OpToRel(<, Nat)
  BY NatLessThanWellFounded, WFMin
<1>2. \A y \in T : ~ (y < x)
  BY <1>1 DEF OpToRel
<1> QED
  BY <1>2

\* The second loop of schedule() ends with a runnable task if there is one:
\* the largest counter exists, and among the tasks that have it a last one.
LEMMA BestIsRunnable ==
  ASSUME NEW run \in SUBSET Tasks, run # {},
         NEW c \in [Tasks -> Nat], NEW K \in Nat, \A t \in Tasks : c[t] < K
  PROVE  Best(run, c) \in run
<1> DEFINE Gaps == {K - c[t] : t \in run}
           Top(g) == {t \in run : K - c[t] = g}
<1>1. PICK g \in Gaps : \A h \in Gaps : g <= h
  <2>1. Gaps \subseteq Nat /\ Gaps # {}
    OBVIOUS
  <2> HIDE DEF Gaps
  <2> QED
    BY <2>1, LeastNat
<1> DEFINE Backs == {NR_TASKS - t : t \in Top(g)}
<1>2. PICK b \in Backs : \A h \in Backs : b <= h
  <2>1. Top(g) # {}
    BY <1>1
  <2>2. Backs \subseteq Nat /\ Backs # {}
    BY <2>1, TasksAssumption DEF Tasks
  <2> HIDE DEF Backs
  <2> QED
    BY <2>2, LeastNat
<1>3. PICK t \in Top(g) : b = NR_TASKS - t
  BY <1>2
<1>4. \A u \in run : c[u] < c[t] \/ (c[u] = c[t] /\ u <= t)
  <2> SUFFICES ASSUME NEW u \in run
               PROVE  c[u] < c[t] \/ (c[u] = c[t] /\ u <= t)
    OBVIOUS
  <2>1. K - c[t] <= K - c[u]
    BY <1>1, <1>3
  <2>2. c[u] \in Nat /\ c[t] \in Nat /\ u \in Int /\ t \in Int
    BY <1>3 DEF Tasks
  <2>3. CASE c[u] = c[t]
    <3>1. NR_TASKS - u \in Backs
      BY <2>3, <1>3
    <3>2. b <= NR_TASKS - u
      <4> HIDE DEF Backs
      <4> QED
        BY <3>1, <1>2
    <3>3. NR_TASKS - t <= NR_TASKS - u
      BY <3>2, <1>3
    <3> HIDE DEF Backs
    <3> QED
      BY <3>3, <2>2, <2>3, TasksAssumption
  <2> QED
    BY <2>1, <2>2, <2>3
<1> QED
  BY <1>3, <1>4 DEF Best

\* schedule() keeps the types and the bound of the counters, and gives the
\* processor to a runnable task.
LEMMA ScheduleKeeps ==
  ASSUME TypeOK, CounterBounded,
         NEW st \in [Tasks -> States], NEW c \in [Tasks -> Nat],
         \A t \in Tasks : c[t] < 2 * MaxPriority,
         NEW al \in [Tasks -> Delays], NEW to \in [Tasks -> Delays],
         schedule(st, c, al, to), priority' \in [Tasks -> 1 .. MaxPriority],
         where' \in [Tasks -> {"user", "kernel", "ret"}]
  PROVE  IInv'
<1> DEFINE st1 == StatesAfter(st, al, to)
           run == {t \in Tasks : st1[t] = "TASK_RUNNING"}
           used == run # {} /\ \A t \in run : c[t] = 0
           c1 == IF used THEN Refill(c) ELSE c
<1>1. /\ state' = st1
      /\ signal' = SignalsAfter(al)
      /\ alarm' = Expire(al)
      /\ timeout' = Expire(to)
      /\ counter' = c1
      /\ current' = IF run = {} THEN 0 ELSE Best(run, c1)
  BY DEF schedule
<1>2. st1 \in [Tasks -> States]
  BY DEF StatesAfter, States
<1>3. SignalsAfter(al) \in SUBSET Tasks
  BY DEF SignalsAfter, TypeOK
<1>4. Expire(al) \in [Tasks -> Delays] /\ Expire(to) \in [Tasks -> Delays]
  BY DEF Expire, Delays
<1>5. c1 \in [Tasks -> Nat] /\ \A t \in Tasks : c1[t] < 2 * MaxPriority
  <2>1. \A t \in Tasks : /\ (c[t] \div 2) + priority[t] \in Nat
                         /\ (c[t] \div 2) + priority[t] < 2 * MaxPriority
    <3> SUFFICES ASSUME NEW t \in Tasks
                 PROVE  /\ (c[t] \div 2) + priority[t] \in Nat
                        /\ (c[t] \div 2) + priority[t] < 2 * MaxPriority
      OBVIOUS
    <3>1. c[t] \in Nat /\ c[t] < 2 * MaxPriority /\ MaxPriority \in Nat
      BY PriorityAssumption
    <3>2. priority[t] \in Nat /\ priority[t] <= MaxPriority
      BY <3>1 DEF TypeOK
    <3> QED
      BY <3>1, <3>2
  <2> QED
    BY <2>1 DEF Refill
<1>6. run # {} => Best(run, c1) \in run
  <2>1. 2 * MaxPriority \in Nat /\ run \in SUBSET Tasks
    BY PriorityAssumption
  <2> HIDE DEF run, c1
  <2> QED
    BY <2>1, <1>5, BestIsRunnable
<1>7. current' \in 0 .. NR_TASKS - 1
  <2> HIDE DEF c1, st1
  <2> QED
    BY <1>1, <1>6, TasksAssumption DEF Tasks
<1>8. current' # 0 => state'[current'] = "TASK_RUNNING"
  <2> HIDE DEF c1, st1
  <2> QED
    BY <1>1, <1>6
<1> HIDE DEF st1, c1
<1>9. TypeOK'
  BY <1>1, <1>2, <1>3, <1>4, <1>5, <1>7 DEF TypeOK, States
<1>10. CounterBounded' /\ CurrentIsRunnable'
  BY <1>1, <1>5, <1>8 DEF CounterBounded, CurrentIsRunnable
<1> QED
  BY <1>9, <1>10 DEF IInv

LEMMA InitEstablishes == Init => IInv
<1> SUFFICES ASSUME Init PROVE IInv
  OBVIOUS
<1>1. DefPriority \in Nat /\ DefPriority \in 1 .. MaxPriority
  BY PriorityAssumption
<1>2. TypeOK
  BY <1>1, TasksAssumption DEF Init, TypeOK, Delays
<1>3. CounterBounded
  BY <1>1, PriorityAssumption DEF Init, CounterBounded
<1>4. CurrentIsRunnable
  BY DEF Init, CurrentIsRunnable
<1> QED
  BY <1>2, <1>3, <1>4 DEF IInv

\* A clock tick leaves the delays delays.
LEMMA OneTickType ==
  ASSUME NEW d \in [Tasks -> Delays]
  PROVE  OneTick(d) \in [Tasks -> Delays]
<1>1. \A t \in Tasks : d[t] = NONE \/ d[t] = 0 \/ d[t] - 1 \in 0 .. MaxDelay + 1
  BY DelayAssumption DEF Delays
<1> QED
  BY <1>1 DEF OneTick, Delays

\* The clock: the counter of the task that runs goes down, and in user mode
\* schedule() may be called.
LEMMA TickKeeps == IInv /\ (Tick \/ IdleTick \/ IdlePause) => IInv'
<1> USE DEF IInv
<1>1. ASSUME IInv, Tick
      PROVE  IInv'
  <2> DEFINE c == [counter EXCEPT ![current] = Spent]
             al == OneTick(alarm)
             to == OneTick(timeout)
  <2>1. current \in Tasks
    BY <1>1, TasksAssumption DEF Tick, TypeOK, Tasks
  <2>2. c \in [Tasks -> Nat] /\ \A t \in Tasks : c[t] < 2 * MaxPriority
    <3>1. Spent \in Nat /\ Spent <= counter[current]
      BY <1>1, <2>1 DEF TypeOK, Spent
    <3> QED
      BY <1>1, <2>1, <3>1, PriorityAssumption DEF TypeOK, CounterBounded
  <2>3. al \in [Tasks -> Delays] /\ to \in [Tasks -> Delays]
    BY <1>1, OneTickType DEF TypeOK
  <2>4. state \in [Tasks -> States]
    BY <1>1 DEF TypeOK, States
  <2> HIDE DEF c, al, to
  <2>5. CASE schedule(state, c, al, to) /\ UNCHANGED priority /\ Goto(current, "ret")
    <3>1. priority' \in [Tasks -> 1 .. MaxPriority]
      BY <1>1, <2>5 DEF TypeOK
    <3>2. where' \in [Tasks -> {"user", "kernel", "ret"}]
      BY <1>1, <2>5 DEF TypeOK, Goto
    <3> QED
      BY <1>1, <2>2, <2>3, <2>4, <2>5, <3>1, <3>2, ScheduleKeeps
  <2>6. CASE /\ counter' = c /\ alarm' = al /\ timeout' = to
             /\ where' = [where EXCEPT ![current] = IF @ = "user" THEN "ret" ELSE @]
             /\ UNCHANGED <<current, state, priority, signal>>
    BY <1>1, <2>2, <2>3, <2>6 DEF TypeOK, CounterBounded, CurrentIsRunnable
  <2> QED
    BY <1>1, <2>5, <2>6 DEF Tick, c, al, to
<1>2. ASSUME IInv, IdleTick
      PROVE  IInv'
  <2>1. OneTick(alarm) \in [Tasks -> Delays] /\ OneTick(timeout) \in [Tasks -> Delays]
    BY <1>2, OneTickType DEF TypeOK
  <2> QED
    BY <1>2, <2>1 DEF IdleTick, TypeOK, CounterBounded, CurrentIsRunnable
<1>3. ASSUME IInv, IdlePause
      PROVE  IInv'
  <2>1. state \in [Tasks -> States]
    BY <1>3 DEF TypeOK, States
  <2> QED
    BY <1>3, <2>1, ScheduleKeeps DEF IdlePause, TypeOK, CounterBounded
<1> QED
  BY <1>1, <1>2, <1>3

\* A system call puts its task to sleep and calls schedule().
LEMMA SleepKeeps ==
  ASSUME IInv, NEW t \in Tasks, NEW s \in States, NEW to \in [Tasks -> Delays],
         schedule([state EXCEPT ![t] = s], counter, alarm, to),
         UNCHANGED <<priority, where>>
  PROVE  IInv'
<1>1. [state EXCEPT ![t] = s] \in [Tasks -> States]
  BY DEF IInv, TypeOK, States
<1>2. /\ counter \in [Tasks -> Nat] /\ alarm \in [Tasks -> Delays]
      /\ \A u \in Tasks : counter[u] < 2 * MaxPriority
      /\ priority' \in [Tasks -> 1 .. MaxPriority]
      /\ where' \in [Tasks -> {"user", "kernel", "ret"}]
  BY DEF IInv, TypeOK, CounterBounded
<1> QED
  BY <1>1, <1>2, ScheduleKeeps DEF IInv

\* The steps of a task in the kernel.
LEMMA KernelKeeps == \A t \in Tasks : IInv /\ Kernel(t) => IInv'
<1> SUFFICES ASSUME NEW t \in Tasks, IInv, Kernel(t)
             PROVE  IInv'
  OBVIOUS
<1> USE DEF IInv
<1>1. CASE SystemReturn(t)
  <2> DEFINE to == [timeout EXCEPT ![t] = NONE]
  <2>1. to \in [Tasks -> Delays]
    BY DEF TypeOK, Delays
  <2>2. where' \in [Tasks -> {"user", "kernel", "ret"}] /\ priority' = priority
    BY <1>1 DEF SystemReturn, Goto, TypeOK
  <2>3. state \in [Tasks -> States]
    BY DEF TypeOK, States
  <2> HIDE DEF to
  <2>4. CASE schedule(state, counter, alarm, to)
    BY <2>1, <2>2, <2>3, <2>4, ScheduleKeeps DEF TypeOK, CounterBounded
  <2>5. CASE timeout' = to /\ UNCHANGED <<current, state, counter, alarm, signal>>
    BY <2>1, <2>2, <2>5 DEF TypeOK, CounterBounded, CurrentIsRunnable
  <2> QED
    BY <1>1, <2>4, <2>5 DEF SystemReturn, to
<1>2. CASE ReturnToUser(t)
  BY <1>2 DEF ReturnToUser, Goto, TypeOK, CounterBounded, CurrentIsRunnable
<1>3. CASE sys_pause(t)
  BY <1>3, SleepKeeps DEF sys_pause, TypeOK, States
<1>4. CASE SleepOn(t)
  BY <1>4, SleepKeeps DEF SleepOn, TypeOK, States
<1>5. ASSUME NEW d \in 1 .. MaxDelay, Select(t, d)
      PROVE  IInv'
  <2>1. [timeout EXCEPT ![t] = d + 1] \in [Tasks -> Delays]
    BY DelayAssumption DEF TypeOK, Delays
  <2> QED
    BY <1>5, <2>1, SleepKeeps DEF Select, States
<1> QED
  BY <1>1, <1>2, <1>3, <1>4, <1>5 DEF Kernel

\* The steps that do not reach schedule().
LEMMA OtherStepsKeep ==
  ASSUME IInv, NEW t \in Tasks,
         \/ SystemCall(t) \/ wake_up(t) \/ SendSignal(t)
         \/ \E d \in 0 .. MaxDelay : sys_alarm(t, d)
         \/ \E i \in Increments : sys_nice(t, i)
  PROVE  IInv'
<1> USE DEF IInv, TypeOK, CounterBounded, CurrentIsRunnable
<1>1. CASE SystemCall(t)
  BY <1>1 DEF SystemCall, Goto, fields
<1>2. CASE wake_up(t)
  BY <1>2, TasksAssumption DEF wake_up, Tasks
<1>3. CASE SendSignal(t)
  BY <1>3 DEF SendSignal
<1>4. ASSUME NEW d \in 0 .. MaxDelay, sys_alarm(t, d)
      PROVE  IInv'
  <2>1. (IF d > 0 THEN d + 1 ELSE NONE) \in Delays
    BY DelayAssumption DEF Delays
  <2> QED
    BY <1>4, <2>1 DEF sys_alarm
<1>5. ASSUME NEW i \in Increments, sys_nice(t, i)
      PROVE  IInv'
  BY <1>5 DEF sys_nice
<1> QED
  BY <1>1, <1>2, <1>3, <1>4, <1>5

\* The invariant is inductive.
LEMMA StepKeeps == IInv /\ [Next]_vars => IInv'
<1> SUFFICES ASSUME IInv, [Next]_vars PROVE IInv'
  OBVIOUS
<1>1. CASE Next
  BY <1>1, TickKeeps, KernelKeeps, OtherStepsKeep DEF Next
<1>2. CASE UNCHANGED vars
  BY <1>2 DEF vars, fields, IInv, TypeOK, CounterBounded, CurrentIsRunnable
<1> QED
  BY <1>1, <1>2
-----------------------------------------------------------------------------
\* Type correctness: the scheduler keeps every field of task_struct in its
\* range, and current an index of task[].
THEOREM TypeCorrect == Spec => []TypeOK
<1>1. IInv => TypeOK
  BY DEF IInv
<1> QED
  BY InitEstablishes, StepKeeps, <1>1, PTL DEF Spec

\* The refill of schedule() never lets a counter reach twice the largest
\* priority, however long the task sleeps.
THEOREM CountersStayBounded == Spec => []CounterBounded
<1>1. IInv => CounterBounded
  BY DEF IInv
<1> QED
  BY InitEstablishes, StepKeeps, <1>1, PTL DEF Spec

\* schedule() never gives the processor to a task that sleeps, and nothing
\* else than the running task itself takes TASK_RUNNING away from it.
THEOREM RunnableHasProcessor == Spec => []CurrentIsRunnable
<1>1. IInv => CurrentIsRunnable
  BY DEF IInv
<1> QED
  BY InitEstablishes, StepKeeps, <1>1, PTL DEF Spec
=============================================================================
