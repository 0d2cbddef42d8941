---------------------------- MODULE WaitingProofs ----------------------------
(***************************************************************************)
(* Wait queues, for any number of tasks: the stack of sleepers stays        *)
(* linked, and no wake-up is lost.                                          *)
(* Pipes, for every size of the page, any number of readers and writers and *)
(* any calls: nobody sleeps on a pipe without a reason, and without page    *)
(* faults in the middle of a copy a pipe is a first-in first-out queue.     *)
(***************************************************************************)
EXTENDS WaitQueue, Pipe, Sequences, SequenceTheorems, FiniteSetTheorems, TLAPS


\* Between cli() and sti() a task keeps its interrupts off, even asleep; and
\* from the test of the loop to the queueing it keeps the processor, so what
\* it has tested still holds when it is queued.
KernelState ==
  \A t \in Tasks :
    /\ pc[t] # "user" => ~eflagsIF[t]
    /\ pc[t] \in {"test", "enqueue"} => current = t
    /\ pc[t] = "enqueue" => busy

IInv == TypeOK /\ KernelState /\ QueueIntact /\ NoLostWakeup
-----------------------------------------------------------------------------
LEMMA InitIInv == Init => IInv
<1> SUFFICES ASSUME Init PROVE IInv
  OBVIOUS
<1> USE TaskAssumption DEF Init
<1>1. TypeOK /\ KernelState
  BY DEF TypeOK, KernelState
<1>2. Sleepers = {}
  BY DEF Sleepers
<1>3. [t \in Tasks |-> {}] \in [Tasks -> SUBSET Tasks]
  OBVIOUS
<1>4. Linked([t \in Tasks |-> {}])
  BY <1>2 DEF Linked
<1>5. QueueIntact
  BY <1>3, <1>4 DEF QueueIntact
<1> QED BY <1>1, <1>2, <1>5 DEF IInv, NoLostWakeup

\* A step that leaves the pointers and the set of sleepers alone leaves the
\* queue intact.
LEMMA QueueUnchanged ==
  ASSUME QueueIntact, p' = p, tmp' = tmp, Sleepers' = Sleepers
  PROVE  QueueIntact'
<1>1. PICK below \in [Tasks -> SUBSET Tasks] : Linked(below)
  BY DEF QueueIntact
<1>2. Linked(below)'
  BY <1>1 DEF Linked
<1> QED BY <1>2 DEF QueueIntact

\* schedule() keeps the types and takes no task's TASK_RUNNING away.
LEMMA ScheduleType ==
  ASSUME NEW st \in [Tasks -> {"TASK_RUNNING", "TASK_INTERRUPTIBLE", "TASK_UNINTERRUPTIBLE"}],
         schedule(st)
  PROVE  /\ state' \in [Tasks -> {"TASK_RUNNING", "TASK_INTERRUPTIBLE", "TASK_UNINTERRUPTIBLE"}]
         /\ current' \in Tasks \cup {Idle}
         /\ \A t \in Tasks : st[t] = "TASK_RUNNING" => state'[t] = "TASK_RUNNING"
BY DEF schedule

\* Going to sleep pushes a task on the stack.
LEMMA PushKeepsQueue ==
  ASSUME IInv, NEW t \in Tasks, SleepOn(t)
  PROVE  QueueIntact'
<1> USE TaskAssumption DEF IInv
<1>1. PICK below \in [Tasks -> SUBSET Tasks] : Linked(below)
  BY DEF QueueIntact
<1>a. PICK nb : nb = [below EXCEPT ![t] = Sleepers]
  OBVIOUS
<1>2. t \notin Sleepers /\ Sleepers' = Sleepers \cup {t} /\ Sleepers \subseteq Tasks
  BY DEF SleepOn, Sleepers, TypeOK
<1>3. p' = t /\ tmp'[t] = p /\ (\A u \in Sleepers : tmp'[u] = tmp[u])
  BY <1>2 DEF SleepOn, TypeOK
<1>4. nb \in [Tasks -> SUBSET Tasks] /\ nb[t] = Sleepers
  BY <1>a, <1>2
<1>5. \A u \in Sleepers : nb[u] = below[u] /\ below[u] \subseteq Sleepers
  <2>1. \A u \in Sleepers : nb[u] = below[u]
    BY <1>a, <1>2
  <2>2. \A u \in Sleepers : p # NULL /\ (u = p \/ u \in below[p])
    BY <1>1 DEF Linked
  <2>3. \A u \in Sleepers : below[u] \subseteq Sleepers
    BY <1>1, <2>2 DEF Linked
  <2> QED BY <2>1, <2>3
<1>6. p' # NULL /\ p' \in Sleepers' /\ Sleepers' = nb[p'] \cup {p'}
  BY <1>2, <1>3, <1>4
<1>7. /\ t \notin nb[t]
      /\ tmp'[t] = NULL => nb[t] = {}
      /\ tmp'[t] # NULL => tmp'[t] \in Sleepers' /\ nb[t] = nb[tmp'[t]] \cup {tmp'[t]}
      /\ \A u \in nb[t] : nb[u] \subseteq nb[t]
  BY <1>1, <1>2, <1>3, <1>4, <1>5 DEF Linked
<1>8. \A u \in Sleepers :
      /\ u \notin nb[u]
      /\ tmp'[u] = NULL => nb[u] = {}
      /\ tmp'[u] # NULL => tmp'[u] \in Sleepers' /\ nb[u] = nb[tmp'[u]] \cup {tmp'[u]}
      /\ \A v \in nb[u] : nb[v] \subseteq nb[u]
  BY <1>1, <1>2, <1>3, <1>5 DEF Linked
<1>9. Linked(nb)'
  BY <1>2, <1>6, <1>7, <1>8 DEF Linked
<1> QED BY <1>4, <1>9 DEF QueueIntact

\* Leaving __sleep_on pops the top of the stack.
LEMMA PopKeepsQueue ==
  ASSUME IInv, NEW t \in Tasks, WakeNext(t)
  PROVE  /\ p = t
         /\ Sleepers' = Sleepers \ {t}
         /\ QueueIntact'
         /\ p' = NULL => Sleepers' = {}
         /\ p' # NULL => p' \in Sleepers'
<1> USE TaskAssumption DEF IInv
<1>1. PICK below \in [Tasks -> SUBSET Tasks] : Linked(below)
  BY DEF QueueIntact
<1>2. t \in Sleepers /\ p = t /\ Sleepers = below[t] \cup {t} /\ t \notin below[t]
  <2>1. t \in Sleepers
    BY DEF WakeNext, Sleepers
  <2> QED BY <1>1, <2>1 DEF Linked, WakeNext
<1>3. Sleepers' = below[t]
  <2>1. Sleepers' = Sleepers \ {t}
    BY DEF WakeNext, Sleepers, TypeOK
  <2> QED BY <1>2, <2>1
<1>4. p' = tmp[t] /\ (\A u \in Sleepers' : tmp'[u] = tmp[u])
  BY <1>2, <1>3 DEF WakeNext, TypeOK
<1>5. p' = NULL => Sleepers' = {}
  BY <1>1, <1>2, <1>3, <1>4 DEF Linked
<1>6. p' # NULL => p' \in Sleepers' /\ Sleepers' = below[p'] \cup {p'}
  BY <1>1, <1>2, <1>3, <1>4 DEF Linked
<1>7. \A u \in Sleepers' : u \in Sleepers /\ t \notin below[u]
  BY <1>1, <1>2, <1>3 DEF Linked
<1>8. \A u \in Sleepers' :
      /\ u \notin below[u]
      /\ tmp'[u] = NULL => below[u] = {}
      /\ tmp'[u] # NULL => tmp'[u] \in Sleepers' /\ below[u] = below[tmp'[u]] \cup {tmp'[u]}
      /\ \A v \in below[u] : below[v] \subseteq below[u]
  <2> SUFFICES ASSUME NEW u \in Sleepers'
               PROVE  /\ u \notin below[u]
                      /\ tmp[u] = NULL => below[u] = {}
                      /\ tmp[u] # NULL => /\ tmp[u] \in Sleepers'
                                         /\ below[u] = below[tmp[u]] \cup {tmp[u]}
                      /\ \A v \in below[u] : below[v] \subseteq below[u]
    BY <1>4
  <2>1. u \in Sleepers /\ t \notin below[u]
    BY <1>7
  <2>2. tmp[u] # NULL => tmp[u] \in Sleepers /\ tmp[u] \in below[u]
    BY <1>1, <2>1 DEF Linked
  <2>3. tmp[u] # NULL => tmp[u] \in Sleepers'
    BY <1>2, <1>3, <2>1, <2>2
  <2> QED BY <1>1, <2>1, <2>3 DEF Linked
<1>9. Linked(below)'
  BY <1>5, <1>6, <1>8 DEF Linked
<1> QED BY <1>2, <1>3, <1>5, <1>6, <1>9 DEF QueueIntact
-----------------------------------------------------------------------------
\* The steps that do not touch the queue.
LEMMA QuietStep ==
  ASSUME IInv, NEW t \in Tasks,
         Enter(t) \/ Test(t) \/ Take(t) \/ GiveUp(t) \/ Send(t)
  PROVE  IInv'
<1> USE TaskAssumption, ModeAssumption DEF IInv
<1> USE DEF Enter, Test, Take, GiveUp, Send, Return
<1>1. TypeOK'
  BY DEF TypeOK
<1>2. KernelState'
  BY DEF TypeOK, KernelState
<1>3. p' = p /\ tmp' = tmp /\ state' = state /\ Sleepers' = Sleepers
  BY DEF Sleepers, TypeOK
<1>4. QueueIntact'
  BY <1>3, QueueUnchanged
<1>5. NoLostWakeup'
  BY <1>3 DEF NoLostWakeup
<1> QED BY <1>1, <1>2, <1>4, <1>5

\* The steps that only call schedule().
LEMMA ScheduleStep ==
  ASSUME IInv, Pause \/ \E t \in Tasks : Preempt(t)
  PROVE  IInv'
<1> USE TaskAssumption DEF IInv
<1>1. /\ schedule(state)
      /\ UNCHANGED <<p, tmp, pc, eflagsIF, busy, signal>>
      /\ \A t \in Tasks : pc[t] \notin {"test", "enqueue"}
  BY DEF Pause, Preempt, KernelState
<1>2. /\ TypeOK'
      /\ \A t \in Tasks : state[t] = "TASK_RUNNING" => state'[t] = "TASK_RUNNING"
  BY <1>1, ScheduleType DEF TypeOK
<1>3. KernelState'
  BY <1>1 DEF KernelState
<1>4. Sleepers' = Sleepers /\ Sleepers \subseteq Tasks
  BY <1>1 DEF Sleepers
<1>5. QueueIntact'
  BY <1>1, <1>4, QueueUnchanged
<1>6. NoLostWakeup'
  BY <1>1, <1>2, <1>4 DEF NoLostWakeup
<1> QED BY <1>2, <1>3, <1>5, <1>6

\* __sleep_on queues the task: what it waits for is still not there.
LEMMA SleepOnStep ==
  ASSUME IInv, NEW t \in Tasks, SleepOn(t)
  PROVE  IInv'
<1> USE TaskAssumption DEF IInv
<1> DEFINE st == [state EXCEPT ![t] = SleepState]
<1>1. st \in [Tasks -> {"TASK_RUNNING", "TASK_INTERRUPTIBLE", "TASK_UNINTERRUPTIBLE"}]
  BY DEF TypeOK, SleepState
<1>2. schedule(st)
  BY DEF SleepOn
<1> HIDE DEF st
<1>3. TypeOK'
  BY <1>1, <1>2, ScheduleType DEF SleepOn, TypeOK
<1>4. KernelState'
  BY DEF SleepOn, TypeOK, KernelState
<1>5. QueueIntact'
  BY PushKeepsQueue
<1>6. NoLostWakeup'
  BY DEF SleepOn, KernelState, NoLostWakeup
<1> QED BY <1>3, <1>4, <1>5, <1>6

\* A task that is not the top of the queue wakes the top before it sleeps.
LEMMA SleepAgainStep ==
  ASSUME IInv, NEW t \in Tasks, SleepAgain(t)
  PROVE  IInv'
<1> USE TaskAssumption DEF IInv
<1> DEFINE st == [wake_up(state) EXCEPT ![t] = "TASK_UNINTERRUPTIBLE"]
<1>1. st \in [Tasks -> {"TASK_RUNNING", "TASK_INTERRUPTIBLE", "TASK_UNINTERRUPTIBLE"}]
  BY DEF TypeOK, wake_up
<1>2. schedule(st)
  BY DEF SleepAgain
<1>3. p \in Sleepers /\ p \in Tasks
  BY DEF QueueIntact, Linked, SleepAgain, Sleepers
<1>4. st[p] = "TASK_RUNNING"
  BY <1>3 DEF SleepAgain, wake_up
<1> HIDE DEF st
<1>5. TypeOK' /\ state'[p] = "TASK_RUNNING"
  BY <1>1, <1>2, <1>3, <1>4, ScheduleType DEF SleepAgain, TypeOK
<1>6. KernelState'
  BY DEF SleepAgain, KernelState
<1>7. Sleepers' = Sleepers
  BY DEF SleepAgain, Sleepers
<1>8. QueueIntact'
  BY <1>7, QueueUnchanged DEF SleepAgain
<1>9. NoLostWakeup'
  BY <1>3, <1>5, <1>7 DEF NoLostWakeup
<1> QED BY <1>5, <1>6, <1>8, <1>9

\* The top of the queue wakes the task below it when it leaves.
LEMMA WakeNextStep ==
  ASSUME IInv, NEW t \in Tasks, WakeNext(t)
  PROVE  IInv'
<1> USE TaskAssumption DEF IInv
<1>1. /\ p = t
      /\ Sleepers' = Sleepers \ {t}
      /\ QueueIntact'
      /\ p' = NULL => Sleepers' = {}
      /\ p' # NULL => p' \in Sleepers'
  BY PopKeepsQueue
<1>2. TypeOK'
  BY DEF WakeNext, TypeOK
<1>3. KernelState'
  BY DEF WakeNext, TypeOK, KernelState
<1>4. p' # NULL => state'[p'] = "TASK_RUNNING"
  BY DEF WakeNext, TypeOK
<1>5. NoLostWakeup'
  BY <1>1, <1>4 DEF NoLostWakeup
<1> QED BY <1>1, <1>2, <1>3, <1>5

\* wake_up() from an interrupt makes the top of the queue runnable.
LEMMA InterruptStep ==
  ASSUME IInv, Interrupt
  PROVE  IInv'
<1> USE TaskAssumption DEF IInv
<1>1. TypeOK'
  BY DEF Interrupt, TypeOK, wake_up
<1>2. KernelState'
  BY DEF Interrupt, InterruptsEnabled, KernelState
<1>3. Sleepers' = Sleepers
  BY DEF Interrupt, Sleepers
<1>4. QueueIntact'
  BY <1>3, QueueUnchanged DEF Interrupt
<1>5. Sleepers # {} => p \in Sleepers /\ p \in Tasks
  BY DEF QueueIntact, Linked, Sleepers
<1>6. NoLostWakeup'
  BY <1>3, <1>5 DEF NoLostWakeup, Interrupt, wake_up
<1> QED BY <1>1, <1>2, <1>4, <1>6

LEMMA StutterStep ==
  ASSUME IInv, UNCHANGED vars
  PROVE  IInv'
<1> USE DEF IInv, vars
<1>1. Sleepers' = Sleepers
  BY DEF Sleepers
<1>2. QueueIntact'
  BY <1>1, QueueUnchanged
<1> QED BY <1>1, <1>2 DEF TypeOK, KernelState, NoLostWakeup

\* The inductive invariant holds in every reachable state.
THEOREM Inductive == Spec => []IInv
<1>1. IInv /\ [Next]_vars => IInv'
  BY QuietStep, ScheduleStep, SleepOnStep, SleepAgainStep, WakeNextStep,
     InterruptStep, StutterStep DEF Next, Step
<1> QED BY <1>1, InitIInv, PTL DEF Spec

\* __sleep_on and wake_up never cut a sleeper off the queue (sched.c:245-298):
\* the warning "*P = NULL" cannot be printed as long as nothing but these
\* functions writes to the queue.
THEOREM QueueStaysIntact == Spec => []QueueIntact
BY Inductive, PTL DEF IInv

\* No wake-up is lost, for any number of tasks: cli() covers the window between
\* the test of the loop and the queueing, and every sleeper that leaves, or
\* finds that it is not the last one, passes the wake-up on.
THEOREM WakeupsAreNotLost == Spec => []NoLostWakeup
BY Inductive, PTL DEF IInv
-----------------------------------------------------------------------------
\* The tasks inside the system call wait in the sense of WaitSpec.
Contract == INSTANCE WaitSpec WITH waiting <- {t \in Tasks : pc[t] # "user"}

\* Every step of sleep_on(), wake_up() and the loops around them is a step of
\* the contract that the other modules rely on, or none: who goes on takes what
\* it waited for while it is there, and only a signal lets a caller leave
\* without it.  (That somebody does go on is a question of fairness.)
THEOREM QueueKeepsContract == Spec => Contract!Init /\ [][Contract!Next]_Contract!vars
<1> DEFINE W == {t \in Tasks : pc[t] # "user"}
<1>1. Init => Contract!Init
  BY DEF Init, Contract!Init
<1>2. TypeOK /\ [Next]_vars => [Contract!Next]_Contract!vars
  <2> SUFFICES ASSUME TypeOK, [Next]_vars PROVE Contract!Next \/ UNCHANGED <<W, busy>>
    BY DEF Contract!vars
  <2> USE DEF TypeOK
  <2>1. ASSUME NEW t \in Tasks, Enter(t) PROVE Contract!Ask(t)
    BY <2>1 DEF Enter, Contract!Ask
  <2>2. ASSUME NEW t \in Tasks, Take(t) PROVE Contract!Grant(t)
    BY <2>2 DEF Take, Return, Contract!Grant
  <2>3. ASSUME NEW t \in Tasks, GiveUp(t) PROVE Contract!Cancel(t)
    BY <2>3 DEF GiveUp, Return, Contract!Cancel
  <2>4. ASSUME Interrupt PROVE Contract!Release
    BY <2>4 DEF Interrupt, Contract!Release
  <2>5. ASSUME NEW t \in Tasks, Test(t) \/ SleepOn(t) \/ SleepAgain(t) \/ WakeNext(t) \/ Preempt(t) \/ Send(t)
        PROVE  UNCHANGED <<W, busy>>
    BY <2>5 DEF Test, SleepOn, SleepAgain, WakeNext, Preempt, Send
  <2>6. Pause \/ UNCHANGED vars => UNCHANGED <<W, busy>>
    BY DEF Pause, vars
  <2> QED BY <2>1, <2>2, <2>3, <2>4, <2>5, <2>6 DEF Next, Step, Contract!Next
<1>3. Spec => []TypeOK
  BY Inductive, PTL DEF IInv
<1> QED BY <1>1, <1>2, <1>3, PTL DEF Spec
-----------------------------------------------------------------------------
USE PageAssumption, EndsAssumption, CountAssumption, FaultAssumption
-----------------------------------------------------------------------------
\* Remainders, next to the page: below it, inside it, one page further.
LEMMA Wrap ==
  ASSUME NEW x \in Int
  PROVE  /\ x % PAGE_SIZE \in Cells
         /\ 0 <= x /\ x < PAGE_SIZE => x % PAGE_SIZE = x
         /\ PAGE_SIZE <= x /\ x < 2 * PAGE_SIZE => x % PAGE_SIZE = x - PAGE_SIZE
         /\ -PAGE_SIZE <= x /\ x < 0 => x % PAGE_SIZE = x + PAGE_SIZE
BY DEF Cells

\* The least of three numbers.
LEMMA LeastOfThree ==
  ASSUME NEW a \in Int, NEW b \in Int, NEW c \in Int
  PROVE  /\ Least({a, b, c}) \in {a, b, c}
         /\ Least({a, b, c}) <= a
         /\ Least({a, b, c}) <= b
         /\ Least({a, b, c}) <= c
<1>1. \E n \in {a, b, c} : \A m \in {a, b, c} : n <= m
  OBVIOUS
<1> QED BY <1>1 DEF Least
-----------------------------------------------------------------------------
\* A round stays inside the page.
RoundsFit ==
  \A t \in Users : at[t] = "copy" => size[t] + chars[t] <= PAGE_SIZE

\* The kernel is not preemptive: one task at a time is between two sleeps,
\* and only page faults let several copy at once.
OneInside ==
  \A t, u \in Users :
    /\ t # u /\ at[t] \in {"loop", "copy"} /\ at[u] \in {"loop", "copy"} => Faults
    /\ t # u /\ at[t] = "loop" => at[u] # "loop"

\* A task that is awake inside a call: it is going to wake the other end up
\* before it sleeps or returns.
Awake(t) == at[t] \in {"ready", "loop", "copy"}

ReaderMaySleep == PIPE_SIZE = 0 \/ \E w \in Writers : Awake(w)
WriterMaySleep == Room = 0 \/ \E r \in Readers : Awake(r)

SleepInv ==
  /\ \A t \in Users : at[t] = "asleep" => open = Ends
  /\ \A r \in Readers : at[r] = "asleep" => ReaderMaySleep
  /\ \A w \in Writers : at[w] = "asleep" => WriterMaySleep

\* The pointer is already where the round is going to end.
ReaderMatches(t) ==
  /\ tail = (size[t] + chars[t]) % PAGE_SIZE
  /\ chars[t] + PIPE_SIZE < PAGE_SIZE

WriterMatches(t) ==
  /\ head = (size[t] + chars[t]) % PAGE_SIZE
  /\ PIPE_SIZE = ((size[t] - tail) % PAGE_SIZE) + chars[t]

PointersMatch ==
  ~Faults => /\ \A r \in Readers : at[r] = "copy" => ReaderMatches(r)
             /\ \A w \in Writers : at[w] = "copy" => WriterMatches(w)

PipeIInv == PipeTypeOK /\ RoundsFit /\ OneInside /\ SleepInv /\ PointersMatch
-----------------------------------------------------------------------------
LEMMA Distance ==
  ASSUME NEW a \in Cells, NEW b \in Cells
  PROVE  (a - b) % PAGE_SIZE = IF b <= a THEN a - b ELSE a - b + PAGE_SIZE
<1>1. a \in Int /\ b \in Int /\ 0 <= a /\ a < PAGE_SIZE /\ 0 <= b /\ b < PAGE_SIZE
  BY DEF Cells
<1>2. PICK x \in Int : x = a - b
  BY <1>1
<1>3. IF b <= a THEN 0 <= x /\ x < PAGE_SIZE ELSE -PAGE_SIZE <= x /\ x < 0
  BY <1>1, <1>2
<1>4. x % PAGE_SIZE = IF b <= a THEN x ELSE x + PAGE_SIZE
  BY <1>1, <1>3, Wrap
<1> QED BY <1>2, <1>4

\* Behind b and up to a lie (a - b) % PAGE_SIZE cells: n less when b moves on,
\* n more when a does.
LEMMA MoveBack ==
  ASSUME NEW a \in Cells, NEW b \in Cells, NEW n \in Nat,
         n <= (a - b) % PAGE_SIZE
  PROVE  (a - ((b + n) % PAGE_SIZE)) % PAGE_SIZE = ((a - b) % PAGE_SIZE) - n
<1>1. a \in Int /\ b \in Int /\ 0 <= a /\ a < PAGE_SIZE /\ 0 <= b /\ b < PAGE_SIZE
  BY DEF Cells
<1>2. PICK d \in Int : d = (a - b) % PAGE_SIZE
  BY <1>1, Wrap DEF Cells
<1>3. IF b <= a THEN d = a - b ELSE d = a - b + PAGE_SIZE
  BY <1>2, Distance
<1>4. PICK c \in Int : c = (b + n) % PAGE_SIZE
  BY <1>1, Wrap DEF Cells
<1>5. IF b + n < PAGE_SIZE THEN c = b + n ELSE c = b + n - PAGE_SIZE
  <2>1. n < PAGE_SIZE
    BY <1>1, <1>2, <1>3
  <2> QED BY <1>1, <1>4, <2>1, Wrap
<1>6. c \in Cells /\ d \in Int /\ n <= d
  BY <1>1, <1>2, <1>4, Wrap
<1>7. PICK e : e = (a - c) % PAGE_SIZE
  OBVIOUS
<1>8. e = IF c <= a THEN a - c ELSE a - c + PAGE_SIZE
  BY <1>6, <1>7, Distance
<1>9. e = d - n
  BY <1>1, <1>3, <1>5, <1>6, <1>8
<1> QED BY <1>2, <1>4, <1>7, <1>9

LEMMA MoveFront ==
  ASSUME NEW a \in Cells, NEW b \in Cells, NEW n \in Nat,
         ((a - b) % PAGE_SIZE) + n < PAGE_SIZE
  PROVE  (((a + n) % PAGE_SIZE) - b) % PAGE_SIZE = ((a - b) % PAGE_SIZE) + n
<1>1. a \in Int /\ b \in Int /\ 0 <= a /\ a < PAGE_SIZE /\ 0 <= b /\ b < PAGE_SIZE
  BY DEF Cells
<1>2. PICK d \in Int : d = (a - b) % PAGE_SIZE
  BY <1>1, Wrap DEF Cells
<1>3. IF b <= a THEN d = a - b ELSE d = a - b + PAGE_SIZE
  BY <1>2, Distance
<1>4. PICK c \in Int : c = (a + n) % PAGE_SIZE
  BY <1>1, Wrap DEF Cells
<1>5. IF a + n < PAGE_SIZE THEN c = a + n ELSE c = a + n - PAGE_SIZE
  <2>1. n < PAGE_SIZE
    BY <1>1, <1>2, <1>3
  <2> QED BY <1>1, <1>4, <2>1, Wrap
<1>6. c \in Cells /\ d \in Int /\ d + n < PAGE_SIZE
  BY <1>1, <1>2, <1>4, Wrap
<1>7. PICK e : e = (c - b) % PAGE_SIZE
  OBVIOUS
<1>8. e = IF b <= c THEN c - b ELSE c - b + PAGE_SIZE
  BY <1>6, <1>7, Distance
<1>9. e = d + n
  BY <1>1, <1>3, <1>5, <1>6, <1>8
<1> QED BY <1>2, <1>4, <1>7, <1>9

\* The same for a cell that has not been wrapped around yet.
LEMMA MoveCell ==
  ASSUME NEW a \in Cells, NEW b \in Cells, ((a - b) % PAGE_SIZE) + 1 < PAGE_SIZE
  PROVE  /\ (a - b) % PAGE_SIZE \in Nat
         /\ ((a + 1) - b) % PAGE_SIZE = ((a - b) % PAGE_SIZE) + 1
<1>1. a \in Int /\ b \in Int /\ 0 <= a /\ a < PAGE_SIZE /\ 0 <= b /\ b < PAGE_SIZE
  BY DEF Cells
<1>2. PICK d \in Nat : d = (a - b) % PAGE_SIZE
  BY <1>1, Wrap DEF Cells
<1>3. IF b <= a THEN d = a - b ELSE d = a - b + PAGE_SIZE
  BY <1>2, Distance
<1>4. ((a + 1) - b) % PAGE_SIZE = d + 1
  BY <1>1, <1>2, <1>3, Wrap
<1> QED BY <1>2, <1>4

-----------------------------------------------------------------------------
LEMMA PipeInitIInv == PipeInit => PipeIInv
<1> SUFFICES ASSUME PipeInit PROVE PipeIInv
  OBVIOUS
<1>1. PipeTypeOK
  BY DEF PipeInit, PipeTypeOK, Cells, Users, Ends
<1>2. RoundsFit /\ OneInside /\ SleepInv /\ PointersMatch
  BY DEF PipeInit, RoundsFit, OneInside, SleepInv, PointersMatch, Users
<1> QED BY <1>1, <1>2 DEF PipeIInv

\* What an action does to pc is a change for one task, and perhaps a wake-up of
\* the other end: with a call's start and its way through the loop.  The parts
\* of the invariant about who runs and who sleeps follow from that alone.
LEMMA StaysAlone ==
  ASSUME PipeTypeOK, OneInside, NEW t \in Users, NEW W, NEW l,
         at' = Wake(W, t, l),
         \/ l \in {"idle", "asleep", "ready"}
         \/ l = "copy" /\ at[t] = "loop"
         \/ l \in {"copy", "loop"} /\ MayRun(t)
  PROVE  OneInside'
BY DEF PipeTypeOK, OneInside, Wake, MayRun

\* Who slept may go on sleeping while the pointers stay and nobody who is
\* awake falls asleep or returns.
LEMMA StaysAsleep ==
  ASSUME PipeTypeOK, SleepInv, UNCHANGED <<head, tail, open>>,
         \A u \in Users : at'[u] = "asleep" => at[u] = "asleep",
         \A u \in Users : Awake(u) => Awake(u)'
  PROVE  SleepInv'
BY DEF PipeTypeOK, SleepInv, ReaderMaySleep, WriterMaySleep, PIPE_SIZE, Room, Users

\* Both ends are open when two are.
LEMMA TwoEnds == PipeTypeOK /\ i_count = 2 => open = Ends
<1>1. IsFiniteSet(Ends) /\ Cardinality(Ends) = 2
  <2>1. Ends = {"write"} \cup {"read"}
    BY DEF Ends
  <2>2. IsFiniteSet({"write"}) /\ Cardinality({"write"}) = 1
    BY FS_Singleton
  <2>3. "read" \notin {"write"}
    OBVIOUS
  <2> QED BY <2>1, <2>2, <2>3, FS_AddElement
<1> QED BY <1>1, FS_Subset DEF PipeTypeOK, i_count

\* A task that falls asleep or returns wakes the other end up, and its own end
\* may go on sleeping: the reader has seen an empty pipe or took bytes out, and
\* the other readers had their reason before.
LEMMA ReaderLeaves ==
  ASSUME PipeTypeOK, SleepInv, NEW t \in Readers, NEW l \in {"idle", "asleep"},
         at' = Wake(Writers, t, l), UNCHANGED <<head, tail, open>>,
         l = "asleep" => PIPE_SIZE = 0 /\ i_count = 2
  PROVE  SleepInv'
<1>1. \A w \in Writers : at'[w] # "asleep"
  BY DEF Wake, Users
<1>2. \A w \in Writers : Awake(w) => Awake(w)'
  BY DEF Wake, Users, Awake, PipeTypeOK
<1>3. \A u \in Users : at'[u] = "asleep" => at[u] = "asleep" \/ (u = t /\ l = "asleep")
  BY DEF Wake, Users
<1>4. \A u \in Users : at'[u] = "asleep" => open' = Ends
  BY <1>3, TwoEnds DEF SleepInv
<1>5. \A r \in Readers : at'[r] = "asleep" => ReaderMaySleep'
  BY <1>2, <1>3 DEF SleepInv, ReaderMaySleep, PIPE_SIZE, Users
<1> QED BY <1>1, <1>4, <1>5 DEF SleepInv

LEMMA WriterLeaves ==
  ASSUME PipeTypeOK, SleepInv, NEW t \in Writers, NEW l \in {"idle", "asleep"},
         at' = Wake(Readers, t, l), UNCHANGED <<head, tail, open>>,
         l = "asleep" => Room = 0 /\ i_count = 2
  PROVE  SleepInv'
<1>1. \A r \in Readers : at'[r] # "asleep"
  BY DEF Wake, Users
<1>2. \A r \in Readers : Awake(r) => Awake(r)'
  BY DEF Wake, Users, Awake, PipeTypeOK
<1>3. \A u \in Users : at'[u] = "asleep" => at[u] = "asleep" \/ (u = t /\ l = "asleep")
  BY DEF Wake, Users
<1>4. \A u \in Users : at'[u] = "asleep" => open' = Ends
  BY <1>3, TwoEnds DEF SleepInv
<1>5. \A w \in Writers : at'[w] = "asleep" => WriterMaySleep'
  BY <1>2, <1>3 DEF SleepInv, WriterMaySleep, Room, PIPE_SIZE, Users
<1> QED BY <1>1, <1>4, <1>5 DEF SleepInv

\* Pointers and local variables match as long as neither changes.
LEMMA StaysMatched ==
  ASSUME PointersMatch, UNCHANGED <<head, tail, size, chars>>,
         \A u \in Users : at'[u] = "copy" => at[u] = "copy"
  PROVE  PointersMatch'
BY DEF PointersMatch, ReaderMatches, WriterMatches, PIPE_SIZE, Users

\* The one task that copies is the only one whose variables have to match.
LEMMA MovesMatched ==
  ASSUME OneInside', NEW t \in Users, at'[t] = "copy",
         t \in Readers => ReaderMatches(t)',
         t \in Writers => WriterMatches(t)'
  PROVE  PointersMatch'
<1>1. \A u \in Users : ~Faults /\ at'[u] = "copy" => u = t
  BY DEF OneInside
<1> QED BY <1>1 DEF PointersMatch, Users

\* What is in the pipe and what still fits, as numbers.
LEMMA SizeType ==
  ASSUME PipeTypeOK
  PROVE  /\ head \in Cells /\ tail \in Cells
         /\ PIPE_SIZE \in Nat /\ PIPE_SIZE < PAGE_SIZE
         /\ Room \in Nat /\ Room = PAGE_SIZE - 1 - PIPE_SIZE
<1>1. head \in Cells /\ tail \in Cells
  BY DEF PipeTypeOK
<1>2. head - tail \in Int
  BY <1>1 DEF Cells
<1>3. PIPE_SIZE \in Cells
  BY <1>2, Wrap DEF PIPE_SIZE
<1> QED BY <1>1, <1>3 DEF Cells, Room

-----------------------------------------------------------------------------
\* Actions that leave the pipe, the pointers and the rounds alone, and put
\* nobody to sleep.
LEMMA PipeQuietStep ==
  ASSUME PipeIInv, NEW t \in Users,
         \/ \E n \in 1 .. MaxCount : Call(t, n)
         \/ Resume(t)
         \/ t \in Readers /\ Signal(t)
  PROVE  PipeIInv'
<1> USE DEF PipeIInv
<1>1. UNCHANGED <<head, tail, page, open, chars, size, last>>
  BY DEF Call, Resume, Signal, locals
<1>2. PICK l \in {"loop", "ready"} :
        /\ at' = [at EXCEPT ![t] = l]
        /\ at[t] \in {"idle", "ready", "asleep"}
        /\ l = "loop" => MayRun(t)
        /\ l = "ready" => at[t] # "idle"
  BY DEF Call, Resume, Signal
<1>3. PipeTypeOK'
  <2>1. count' \in [Users -> 0 .. MaxCount] /\ pending' \in SUBSET Readers
    BY DEF PipeTypeOK, Call, Resume, Signal, locals
  <2> QED BY <1>1, <1>2, <2>1 DEF PipeTypeOK
<1>4. RoundsFit'
  BY <1>1, <1>2 DEF RoundsFit, PipeTypeOK
<1>5. OneInside'
  BY <1>2 DEF OneInside, PipeTypeOK, MayRun
<1>6. SleepInv'
  BY <1>1, <1>2, StaysAsleep DEF PipeTypeOK, Awake
<1>7. PointersMatch'
  BY <1>1, <1>2, StaysMatched DEF PipeTypeOK
<1> QED BY <1>3, <1>4, <1>5, <1>6, <1>7

LEMMA CloseStep == ASSUME PipeIInv, NEW e \in Ends, Close(e) PROVE PipeIInv'
<1> USE DEF PipeIInv, Close
<1>1. PipeTypeOK'
  BY DEF PipeTypeOK, locals
<1>2. RoundsFit'
  BY DEF RoundsFit, PipeTypeOK, locals
<1>3. OneInside'
  BY DEF OneInside, PipeTypeOK
<1>4. SleepInv'
  BY DEF SleepInv, PipeTypeOK, Users
<1>5. PointersMatch'
  BY StaysMatched DEF PipeTypeOK, locals
<1> QED BY <1>1, <1>2, <1>3, <1>4, <1>5

-----------------------------------------------------------------------------
\* A task that returns or goes to sleep.
LEMMA LeaveStep ==
  ASSUME PipeIInv, NEW t \in Users, NEW l \in {"idle", "asleep"}, NEW W \in {Readers, Writers},
         at[t] = "loop", at' = Wake(W, t, l),
         UNCHANGED <<head, tail, page, open, chars, size, last>>,
         count' = count \/ Forget(t),
         pending' \in SUBSET pending,
         SleepInv'
  PROVE  PipeIInv'
<1> USE DEF PipeIInv
<1>1. PipeTypeOK'
  <2>1. count' \in [Users -> 0 .. MaxCount]
    BY DEF PipeTypeOK, Forget
  <2>2. at' \in [Users -> {"idle", "ready", "loop", "asleep", "copy"}]
    BY DEF PipeTypeOK, Wake
  <2> QED BY <2>1, <2>2 DEF PipeTypeOK
<1>2. RoundsFit'
  BY DEF RoundsFit, PipeTypeOK, Wake
<1>3. OneInside'
  BY StaysAlone
<1>4. PointersMatch'
  BY StaysMatched DEF Wake
<1> QED BY <1>1, <1>2, <1>3, <1>4

LEMMA ReadLeaves ==
  ASSUME PipeIInv, NEW t \in Readers, ReadEmpty(t) \/ ReadDone(t)
  PROVE  PipeIInv'
<1>1. t \in Users
  BY DEF Users
<1>2. PICK l \in {"idle", "asleep"} :
        /\ at' = Wake(Writers, t, l)
        /\ l = "asleep" => PIPE_SIZE = 0 /\ i_count = 2
        /\ count' = count \/ Forget(t)
  BY DEF ReadEmpty, ReadDone, Forget, locals
<1>3. /\ UNCHANGED <<head, tail, page, open, chars, size, last>>
      /\ at[t] = "loop"
      /\ pending' \in SUBSET pending
  BY DEF ReadEmpty, ReadDone, Forget, locals
<1>4. SleepInv'
  BY <1>2, <1>3, ReaderLeaves DEF PipeIInv
<1> QED BY <1>1, <1>2, <1>3, <1>4, LeaveStep

LEMMA WriteLeaves ==
  ASSUME PipeIInv, NEW t \in Writers, WriteFull(t) \/ WriteDone(t)
  PROVE  PipeIInv'
<1>1. t \in Users
  BY DEF Users
<1>2. PICK l \in {"idle", "asleep"} :
        /\ at' = Wake(Readers, t, l)
        /\ l = "asleep" => Room = 0 /\ i_count = 2
        /\ count' = count \/ Forget(t)
  BY DEF WriteFull, WriteDone, Forget, locals
<1>3. /\ UNCHANGED <<head, tail, page, open, chars, size, last>>
      /\ at[t] = "loop"
      /\ pending' \in SUBSET pending
  BY DEF WriteFull, WriteDone, Forget, locals
<1>4. SleepInv'
  BY <1>2, <1>3, WriterLeaves DEF PipeIInv
<1> QED BY <1>1, <1>2, <1>3, <1>4, LeaveStep

-----------------------------------------------------------------------------
\* The length of a round.
LEMMA RoundLength ==
  ASSUME PipeTypeOK, NEW t \in Users, count[t] > 0,
         NEW a \in Cells, NEW m \in Nat, m > 0, m < PAGE_SIZE
  PROVE  \E n \in Nat : /\ n = Least({PAGE_SIZE - a, count[t], m})
                        /\ n > 0 /\ n <= PAGE_SIZE - a /\ n <= count[t] /\ n <= m
<1>1. PICK b \in Int : b = PAGE_SIZE - a /\ b > 0
  BY DEF Cells
<1>2. PICK c \in Int : c = count[t] /\ c > 0
  BY DEF PipeTypeOK
<1>3. PICK n : n = Least({b, c, m})
  OBVIOUS
<1>4. n \in {b, c, m} /\ n <= b /\ n <= c /\ n <= m
  <2>1. m \in Int
    OBVIOUS
  <2>2. Least({b, c, m}) \in {b, c, m} /\ Least({b, c, m}) <= b
        /\ Least({b, c, m}) <= c /\ Least({b, c, m}) <= m
    BY <2>1, LeastOfThree
  <2> QED BY <1>3, <2>2
<1> QED BY <1>1, <1>2, <1>3, <1>4

LEMMA ReadRoundStep ==
  ASSUME PipeIInv, NEW t \in Readers, ReadRound(t)
  PROVE  PipeIInv'
<1> USE DEF PipeIInv
<1>1. t \in Users
  BY DEF Users
<1>2. PICK n \in Nat :
        /\ n > 0 /\ n <= PAGE_SIZE - tail /\ n <= count[t] /\ n <= PIPE_SIZE
        /\ count' = [count EXCEPT ![t] = @ - n]
        /\ chars' = [chars EXCEPT ![t] = n - 1]
        /\ tail' = (tail + n) % PAGE_SIZE
  BY <1>1, SizeType, RoundLength DEF ReadRound
<1>3. /\ at[t] = "loop" /\ PIPE_SIZE > 0
      /\ last' = page[tail]
      /\ size' = [size EXCEPT ![t] = tail + 1]
      /\ at' = [at EXCEPT ![t] = "copy"]
      /\ UNCHANGED <<head, page, open, pending>>
  BY DEF ReadRound, CopyOut
<1>4. /\ tail \in Int /\ 0 <= tail /\ tail < PAGE_SIZE /\ tail \in Cells
      /\ PIPE_SIZE \in Nat /\ PIPE_SIZE < PAGE_SIZE
  BY SizeType DEF Cells
<1>5. PipeTypeOK'
  <2>1. count' \in [Users -> 0 .. MaxCount]
    BY <1>1, <1>2 DEF PipeTypeOK
  <2>2. chars' \in [Users -> 0 .. PAGE_SIZE - 1]
    <3>1. n - 1 \in 0 .. PAGE_SIZE - 1
      BY <1>2, <1>4
    <3> QED BY <1>2, <3>1 DEF PipeTypeOK
  <2>3. size' \in [Users -> 0 .. PAGE_SIZE]
    <3>1. tail + 1 \in 0 .. PAGE_SIZE
      BY <1>4
    <3> QED BY <1>3, <3>1 DEF PipeTypeOK
  <2>4. tail' \in Cells
    <3>1. tail + n \in Int
      BY <1>4
    <3> QED BY <1>2, <3>1, Wrap
  <2>5. last' \in Bytes \cup {NONE}
    BY <1>3, <1>4 DEF PipeTypeOK
  <2> QED BY <1>3, <2>1, <2>2, <2>3, <2>4, <2>5 DEF PipeTypeOK
<1>6. RoundsFit'
  <2> SUFFICES ASSUME NEW u \in Users, at'[u] = "copy"
               PROVE  size'[u] + chars'[u] <= PAGE_SIZE
    BY DEF RoundsFit
  <2>1. CASE u = t
    BY <1>2, <1>3, <1>4, <2>1 DEF PipeTypeOK
  <2>2. CASE u # t
    BY <1>2, <1>3, <2>2 DEF RoundsFit, PipeTypeOK
  <2> QED BY <2>1, <2>2
<1>7. OneInside'
  BY <1>1, <1>3 DEF PipeTypeOK, OneInside
<1>8. SleepInv'
  <2>1. Awake(t)'
    BY <1>1, <1>3 DEF PipeTypeOK, Awake
  <2>2. \A w \in Writers : Awake(w) => Awake(w)'
    BY <1>1, <1>3 DEF PipeTypeOK, Awake, Users
  <2>3. \A u \in Users : at'[u] = "asleep" => at[u] = "asleep"
    BY <1>1, <1>3 DEF PipeTypeOK
  <2> QED BY <1>3, <1>4, <2>1, <2>2, <2>3
       DEF SleepInv, ReaderMaySleep, WriterMaySleep, Users
<1>9. ReaderMatches(t)'
  <2>1. PIPE_SIZE' = PIPE_SIZE - n
    BY <1>2, <1>3, <1>4, SizeType, MoveBack DEF PIPE_SIZE
  <2>2. chars'[t] = n - 1 /\ size'[t] = tail + 1
    BY <1>1, <1>2, <1>3 DEF PipeTypeOK
  <2>3. size'[t] + chars'[t] = tail + n
    BY <1>4, <2>2
  <2> QED BY <1>2, <1>4, <2>1, <2>2, <2>3 DEF ReaderMatches
<1> QED BY <1>1, <1>3, <1>5, <1>6, <1>7, <1>8, <1>9, MovesMatched DEF PipeTypeOK

LEMMA WriteRoundStep ==
  ASSUME PipeIInv, NEW t \in Writers, WriteRound(t)
  PROVE  PipeIInv'
<1> USE DEF PipeIInv
<1>1. t \in Users /\ t \notin Readers
  BY DEF Users
<1>2. PICK n \in Nat :
        /\ n > 0 /\ n <= PAGE_SIZE - head /\ n <= count[t] /\ n <= Room
        /\ count' = [count EXCEPT ![t] = @ - n]
        /\ chars' = [chars EXCEPT ![t] = n]
        /\ head' = (head + n) % PAGE_SIZE
  <2>1. /\ count[t] > 0
        /\ Room \in Nat /\ Room > 0 /\ Room < PAGE_SIZE
        /\ head \in Cells
    BY SizeType DEF WriteRound
  <2> QED BY <1>1, <2>1, RoundLength DEF WriteRound
<1>3. /\ at[t] = "loop" /\ Room > 0
      /\ size' = [size EXCEPT ![t] = head]
      /\ at' = [at EXCEPT ![t] = "copy"]
      /\ UNCHANGED <<tail, page, open, pending, last>>
  BY DEF WriteRound
<1>4. /\ head \in Int /\ 0 <= head /\ head < PAGE_SIZE /\ head \in Cells
      /\ PIPE_SIZE \in Nat /\ PIPE_SIZE < PAGE_SIZE
      /\ Room \in Nat /\ Room = PAGE_SIZE - 1 - PIPE_SIZE
  BY SizeType DEF Cells
<1>5. PipeTypeOK'
  <2>1. count' \in [Users -> 0 .. MaxCount]
    BY <1>1, <1>2 DEF PipeTypeOK
  <2>2. chars' \in [Users -> 0 .. PAGE_SIZE - 1]
    <3>1. n \in 0 .. PAGE_SIZE - 1
      BY <1>2, <1>4
    <3> QED BY <1>2, <3>1 DEF PipeTypeOK
  <2>3. size' \in [Users -> 0 .. PAGE_SIZE]
    <3>1. head \in 0 .. PAGE_SIZE
      BY <1>4
    <3> QED BY <1>3, <3>1 DEF PipeTypeOK
  <2>4. head' \in Cells
    <3>1. head + n \in Int
      BY <1>4
    <3> QED BY <1>2, <3>1, Wrap
  <2> QED BY <1>3, <2>1, <2>2, <2>3, <2>4 DEF PipeTypeOK
<1>6. RoundsFit'
  <2> SUFFICES ASSUME NEW u \in Users, at'[u] = "copy"
               PROVE  size'[u] + chars'[u] <= PAGE_SIZE
    BY DEF RoundsFit
  <2>1. CASE u = t
    BY <1>2, <1>3, <1>4, <2>1 DEF PipeTypeOK
  <2>2. CASE u # t
    BY <1>2, <1>3, <2>2 DEF RoundsFit, PipeTypeOK
  <2> QED BY <2>1, <2>2
<1>7. OneInside'
  BY <1>1, <1>3 DEF PipeTypeOK, OneInside
<1>8. SleepInv'
  <2>1. Awake(t)'
    BY <1>1, <1>3 DEF PipeTypeOK, Awake
  <2>2. \A r \in Readers : Awake(r) => Awake(r)'
    BY <1>1, <1>3 DEF PipeTypeOK, Awake, Users
  <2>3. \A u \in Users : at'[u] = "asleep" => at[u] = "asleep"
    BY <1>1, <1>3 DEF PipeTypeOK
  <2> QED BY <1>3, <1>4, <2>1, <2>2, <2>3
       DEF SleepInv, ReaderMaySleep, WriterMaySleep, Users
<1>9. WriterMatches(t)'
  <2>1. PIPE_SIZE' = PIPE_SIZE + n
    <3>1. PIPE_SIZE + n < PAGE_SIZE /\ tail \in Cells
      BY <1>2, <1>4, SizeType
    <3> QED BY <1>2, <1>3, <1>4, <3>1, MoveFront DEF PIPE_SIZE
  <2>2. chars'[t] = n /\ size'[t] = head
    BY <1>1, <1>2, <1>3 DEF PipeTypeOK
  <2> QED BY <1>2, <1>3, <1>4, <2>1, <2>2 DEF WriterMatches, PIPE_SIZE
<1> QED BY <1>1, <1>3, <1>5, <1>6, <1>7, <1>8, <1>9, MovesMatched DEF PipeTypeOK

\* A byte of the round, or its end: nobody's sleep is concerned.
LEMMA ByteStep ==
  ASSUME PipeIInv, NEW t \in Users, NEW l \in {"copy", "loop"}, NEW d \in {0, 1},
         at[t] = "copy", MayRun(t), at' = [at EXCEPT ![t] = l],
         l = "copy" => /\ d = 1 /\ chars[t] > 0
                       /\ size' = [size EXCEPT ![t] = size[t] + 1],
         l = "loop" => /\ d = 0
                       /\ size' = [size EXCEPT ![t] = 0],
         chars' = [chars EXCEPT ![t] = @ - d],
         UNCHANGED <<head, tail, open, count, pending>>,
         page' \in [Cells -> Bytes \cup {NONE}],
         last' \in Bytes \cup {NONE}
  PROVE  PipeIInv'
<1> USE DEF PipeIInv
<1>1. /\ chars[t] \in Int /\ 0 <= chars[t] /\ chars[t] < PAGE_SIZE
      /\ size[t] \in Int /\ 0 <= size[t] /\ size[t] <= PAGE_SIZE
      /\ size[t] + chars[t] <= PAGE_SIZE
  BY DEF PipeTypeOK, RoundsFit
<1>2. PipeTypeOK'
  <2>1. chars[t] - d \in 0 .. PAGE_SIZE - 1
    <3>1. CASE l = "copy"
      BY <1>1, <3>1
    <3>2. CASE l = "loop"
      BY <1>1, <3>2
    <3> QED BY <3>1, <3>2
  <2>2. chars' \in [Users -> 0 .. PAGE_SIZE - 1]
    BY <2>1 DEF PipeTypeOK
  <2>3. size' \in [Users -> 0 .. PAGE_SIZE]
    <3>1. 0 \in 0 .. PAGE_SIZE /\ (l = "copy" => size[t] + 1 \in 0 .. PAGE_SIZE)
      BY <1>1
    <3> QED BY <3>1 DEF PipeTypeOK
  <2> QED BY <2>2, <2>3 DEF PipeTypeOK
<1>3. RoundsFit'
  <2> SUFFICES ASSUME NEW u \in Users, at'[u] = "copy"
               PROVE  size'[u] + chars'[u] <= PAGE_SIZE
    BY DEF RoundsFit
  <2>1. CASE u = t
    BY <1>1, <2>1 DEF PipeTypeOK
  <2>2. CASE u # t
    BY <2>2 DEF RoundsFit, PipeTypeOK
  <2> QED BY <2>1, <2>2
<1>4. OneInside'
  BY DEF OneInside, PipeTypeOK, MayRun
<1>5. SleepInv'
  BY StaysAsleep DEF PipeTypeOK, Awake
<1>6. PointersMatch'
  <2>1. CASE l = "copy" /\ Faults
    BY <2>1 DEF PointersMatch
  <2>2. CASE l = "copy" /\ ~Faults
    <3>1. chars'[t] = chars[t] - 1 /\ size'[t] = size[t] + 1 /\ at'[t] = "copy"
      BY <2>2 DEF PipeTypeOK
    <3>2. size'[t] + chars'[t] = size[t] + chars[t]
      BY <1>1, <3>1
    <3>3. PIPE_SIZE' = PIPE_SIZE
      BY DEF PIPE_SIZE
    <3>4. t \in Readers => ReaderMatches(t)'
      <4>1. t \in Readers => ReaderMatches(t)
        BY <2>2 DEF PointersMatch
      <4> QED BY <1>1, <3>1, <3>2, <3>3, <4>1, SizeType DEF ReaderMatches
    <3>5. t \in Writers => WriterMatches(t)'
      <4> SUFFICES ASSUME t \in Writers PROVE WriterMatches(t)'
        OBVIOUS
      <4>1. WriterMatches(t)
        BY <2>2 DEF PointersMatch
      <4>2. size[t] \in Cells
        BY <1>1, <2>2 DEF Cells
      <4>3. PICK m \in Cells : m = (size[t] - tail) % PAGE_SIZE
        <5>1. size[t] - tail \in Int
          BY <4>2, SizeType DEF Cells
        <5> QED BY <5>1, Wrap
      <4>4. m \in Int /\ m + chars[t] = PIPE_SIZE
        BY <1>1, <4>1, <4>3 DEF WriterMatches, Cells
      <4>5. m + 1 < PAGE_SIZE
        BY <1>1, <2>2, <4>4, SizeType
      <4>6. ((size[t] + 1) - tail) % PAGE_SIZE = m + 1
        BY <4>2, <4>3, <4>5, SizeType, MoveCell
      <4>7. (size'[t] - tail) % PAGE_SIZE = m + 1
        <5>1. size'[t] = size[t] + 1
          BY <3>1
        <5> QED BY <4>6, <5>1
      <4>8. m + 1 + chars'[t] = PIPE_SIZE
        BY <1>1, <3>1, <4>4
      <4> QED BY <3>1, <3>2, <3>3, <4>1, <4>7, <4>8 DEF WriterMatches
    <3> QED BY <1>4, <3>1, <3>4, <3>5, MovesMatched
  <2>3. CASE l = "loop"
    <3>1. \A u \in Users : at'[u] = "copy" => u # t /\ at[u] = "copy"
      BY <2>3 DEF PipeTypeOK
    <3>2. \A u \in Users : at'[u] = "copy" => size'[u] = size[u] /\ chars'[u] = chars[u]
      BY <2>3, <3>1 DEF PipeTypeOK
    <3> QED BY <3>1, <3>2 DEF PointersMatch, ReaderMatches, WriterMatches, PIPE_SIZE, Users
  <2> QED BY <2>1, <2>2, <2>3
<1> QED BY <1>2, <1>3, <1>4, <1>5, <1>6

LEMMA ReadByteStep ==
  ASSUME PipeIInv, NEW t \in Readers, ReadByte(t)
  PROVE  PipeIInv'
<1>1. t \in Users
  BY DEF Users
<1>2. /\ MayRun(t) /\ at[t] = "copy"
      /\ UNCHANGED <<head, tail, page, open, count, pending>>
      /\ page' \in [Cells -> Bytes \cup {NONE}]
  BY DEF ReadByte, PipeIInv, PipeTypeOK
<1>3. CASE chars[t] > 0
  <2>1. size[t] \in Cells
    BY <1>1, <1>2, <1>3 DEF PipeIInv, PipeTypeOK, RoundsFit, Cells
  <2>2. /\ chars' = [chars EXCEPT ![t] = @ - 1]
        /\ size' = [size EXCEPT ![t] = size[t] + 1]
        /\ last' = page[size[t]]
        /\ at' = at
    BY <1>3 DEF ReadByte, CopyOut
  <2>3. at' = [at EXCEPT ![t] = "copy"] /\ last' \in Bytes \cup {NONE}
    BY <1>2, <2>1, <2>2 DEF PipeIInv, PipeTypeOK
  <2> QED BY <1>1, <1>2, <1>3, <2>2, <2>3, ByteStep
<1>4. CASE chars[t] = 0
  <2>1. /\ chars' = chars /\ last' = last
        /\ size' = [size EXCEPT ![t] = 0]
        /\ at' = [at EXCEPT ![t] = "loop"]
    BY <1>4 DEF ReadByte
  <2>2. chars' = [chars EXCEPT ![t] = @ - 0] /\ last' \in Bytes \cup {NONE}
    BY <1>1, <1>4, <2>1 DEF PipeIInv, PipeTypeOK
  <2> QED BY <1>1, <1>2, <2>1, <2>2, ByteStep
<1> QED BY <1>3, <1>4 DEF ReadByte

LEMMA WriteByteStep ==
  ASSUME PipeIInv, NEW t \in Writers, WriteByte(t)
  PROVE  PipeIInv'
<1>1. t \in Users
  BY DEF Users
<1>2. /\ MayRun(t) /\ at[t] = "copy"
      /\ UNCHANGED <<head, tail, open, count, pending, last>>
      /\ last' \in Bytes \cup {NONE}
  BY DEF WriteByte, PipeIInv, PipeTypeOK
<1>3. CASE chars[t] > 0
  <2>1. /\ chars' = [chars EXCEPT ![t] = @ - 1]
        /\ size' = [size EXCEPT ![t] = size[t] + 1]
        /\ \E c \in Bytes : page' = [page EXCEPT ![size[t]] = c]
        /\ at' = at
    BY <1>3 DEF WriteByte
  <2>2. at' = [at EXCEPT ![t] = "copy"] /\ page' \in [Cells -> Bytes \cup {NONE}]
    BY <1>2, <2>1 DEF PipeIInv, PipeTypeOK
  <2> QED BY <1>1, <1>2, <1>3, <2>1, <2>2, ByteStep
<1>4. CASE chars[t] = 0
  <2>1. /\ chars' = chars /\ page' = page
        /\ size' = [size EXCEPT ![t] = 0]
        /\ at' = [at EXCEPT ![t] = "loop"]
    BY <1>4 DEF WriteByte
  <2>2. chars' = [chars EXCEPT ![t] = @ - 0] /\ page' \in [Cells -> Bytes \cup {NONE}]
    BY <1>1, <1>4, <2>1 DEF PipeIInv, PipeTypeOK
  <2> QED BY <1>1, <1>2, <2>1, <2>2, ByteStep
<1> QED BY <1>3, <1>4 DEF WriteByte

-----------------------------------------------------------------------------
LEMMA NextIInv == PipeIInv /\ [PipeNext]_pipevars => PipeIInv'
<1> SUFFICES ASSUME PipeIInv, [PipeNext]_pipevars PROVE PipeIInv'
  OBVIOUS
<1>1. CASE \E t \in Users : PipeStep(t)
  <2> PICK t \in Users : PipeStep(t)
    BY <1>1
  <2>1. CASE Resume(t)
    BY <2>1, PipeQuietStep
  <2>2. CASE t \in Readers /\ Read(t)
    BY <2>2, ReadLeaves, ReadRoundStep, ReadByteStep DEF Read
  <2>3. CASE t \in Writers /\ Write(t)
    BY <2>3, WriteLeaves, WriteRoundStep, WriteByteStep DEF Write
  <2> QED BY <2>1, <2>2, <2>3 DEF PipeStep
<1>2. CASE \E t \in Users, n \in 1 .. MaxCount : Call(t, n)
  BY <1>2, PipeQuietStep
<1>3. CASE \E t \in Readers : Signal(t)
  BY <1>3, PipeQuietStep DEF Users
<1>4. CASE \E e \in Ends : Close(e)
  BY <1>4, CloseStep
<1>5. CASE UNCHANGED pipevars
  <2> USE <1>5 DEF pipevars, locals, PipeIInv
  <2>1. PipeTypeOK' /\ RoundsFit' /\ OneInside'
    BY DEF PipeTypeOK, RoundsFit, OneInside
  <2>2. SleepInv' /\ PointersMatch'
    BY DEF SleepInv, ReaderMaySleep, WriterMaySleep, PIPE_SIZE, Room, Awake,
           PointersMatch, ReaderMatches, WriterMatches
  <2> QED BY <2>1, <2>2
<1> QED BY <1>1, <1>2, <1>3, <1>4, <1>5 DEF PipeNext

\* The invariant holds in every state of read_pipe(), write_pipe() and iput(),
\* with and without page faults in the middle of a copy.
THEOREM PipeInductive == PipeSpec => []PipeIInv
BY PipeInitIInv, NextIInv, PTL DEF PipeSpec

\* The pointers of the pipe stay inside its page, and no round goes past the
\* end of the page, however calls, signals and page faults follow each other.
THEOREM TypeCorrect == PipeSpec => [](PipeTypeOK /\ RoundsFit)
<1>1. PipeIInv => PipeTypeOK /\ RoundsFit
  BY DEF PipeIInv
<1> QED BY <1>1, PipeInductive, PTL

\* read_pipe() and write_pipe() miss no wake-up: when nobody is inside a call,
\* a reader sleeps because the pipe is empty, a writer because it is full, and
\* the other end is open.
THEOREM NobodySleepsInVain == PipeSpec => []SleepersHaveReason
<1>1. PipeIInv => SleepersHaveReason
  <2> SUFFICES ASSUME PipeIInv, \A t \in Users : at[t] \in {"idle", "asleep"},
                      NEW t \in Users, at[t] = "asleep"
               PROVE  /\ open = Ends
                      /\ IF t \in Readers THEN PIPE_SIZE = 0 ELSE Room = 0
    BY DEF SleepersHaveReason
  <2>1. \A u \in Users : ~Awake(u)
    BY DEF Awake
  <2> QED BY <2>1 DEF PipeIInv, SleepInv, ReaderMaySleep, WriterMaySleep, Users
<1> QED BY <1>1, PipeInductive, PTL

-----------------------------------------------------------------------------
\* What a cell may hold.
Stored == Bytes \cup {NONE}

\* What lies in page g from cell a up to cell b.
Content(a, b, g) ==
  [i \in 1 .. (b - a) % PAGE_SIZE |-> g[(a + i - 1) % PAGE_SIZE]]

\* It is a sequence of bytes, as long as the distance.
LEMMA ContentType ==
  ASSUME NEW a \in 0 .. PAGE_SIZE, NEW b \in 0 .. PAGE_SIZE, NEW g \in [Cells -> Stored]
  PROVE  /\ Content(a, b, g) \in Seq(Stored)
         /\ Len(Content(a, b, g)) = (b - a) % PAGE_SIZE
         /\ (b - a) % PAGE_SIZE \in Nat
         /\ \A i \in 1 .. (b - a) % PAGE_SIZE :
              Content(a, b, g)[i] = g[(a + i - 1) % PAGE_SIZE]
<1>1. PICK n \in Nat : n = (b - a) % PAGE_SIZE
  BY Wrap DEF Cells
<1>2. \A i \in 1 .. n : (a + i - 1) % PAGE_SIZE \in Cells
  <2> SUFFICES ASSUME NEW i \in 1 .. n PROVE (a + i - 1) % PAGE_SIZE \in Cells
    OBVIOUS
  <2>1. a + i - 1 \in Int
    OBVIOUS
  <2> QED BY <2>1, Wrap
<1>3. Content(a, b, g) \in [1 .. n -> Stored]
  BY <1>1, <1>2 DEF Content
<1>4. Content(a, b, g) \in Seq(Stored) /\ Len(Content(a, b, g)) = n
  BY <1>3, LenProperties
<1>5. \A i \in 1 .. n : Content(a, b, g)[i] = g[(a + i - 1) % PAGE_SIZE]
  BY <1>1 DEF Content
<1> QED BY <1>1, <1>4, <1>5

\* Reading the cell at a takes the first byte away.
LEMMA ContentTail ==
  ASSUME NEW a \in Cells, NEW b \in Cells, NEW g \in [Cells -> Stored],
         (b - a) % PAGE_SIZE > 0
  PROVE  /\ Content(a, b, g) # << >>
         /\ Head(Content(a, b, g)) = g[a]
         /\ Content(a + 1, b, g) = Tail(Content(a, b, g))
<1>1. /\ a \in Int /\ b \in Int /\ 0 <= a /\ a < PAGE_SIZE /\ 0 <= b /\ b < PAGE_SIZE
      /\ a \in 0 .. PAGE_SIZE /\ a + 1 \in 0 .. PAGE_SIZE /\ b \in 0 .. PAGE_SIZE
  BY DEF Cells
<1>2. PICK n \in Nat : n = (b - a) % PAGE_SIZE
  BY <1>1, ContentType
<1>3. n > 0 /\ n = IF a <= b THEN b - a ELSE b - a + PAGE_SIZE
  BY <1>2, Distance
<1>4. PICK x \in Int : x = b - (a + 1)
  BY <1>1
<1>5. x % PAGE_SIZE = n - 1
  <2>1. IF a < b THEN 0 <= x /\ x < PAGE_SIZE /\ x = n - 1
                 ELSE -PAGE_SIZE <= x /\ x < 0 /\ x + PAGE_SIZE = n - 1
    BY <1>1, <1>3, <1>4
  <2> QED BY <2>1, Wrap
<1>6. PICK s : s = Content(a, b, g)
  OBVIOUS
<1>7. PICK r : r = Content(a + 1, b, g)
  OBVIOUS
<1>8. /\ s \in Seq(Stored) /\ Len(s) = n
      /\ \A i \in 1 .. n : s[i] = g[(a + i - 1) % PAGE_SIZE]
  <2>1. s \in Seq(Stored) /\ Len(s) = n
    BY <1>1, <1>2, <1>6, ContentType
  <2>2. s = [i \in 1 .. n |-> g[(a + i - 1) % PAGE_SIZE]]
    BY <1>2, <1>6, Zenon DEF Content
  <2> QED BY <2>1, <2>2, Zenon
<1>9. /\ r \in Seq(Stored) /\ Len(r) = n - 1
      /\ \A i \in 1 .. n - 1 : r[i] = g[((a + 1) + i - 1) % PAGE_SIZE]
  <2>1. (b - (a + 1)) % PAGE_SIZE = n - 1
    BY <1>4, <1>5
  <2>2. r \in Seq(Stored) /\ Len(r) = n - 1
    BY <1>1, <1>7, <2>1, ContentType
  <2>3. r = [i \in 1 .. n - 1 |-> g[((a + 1) + i - 1) % PAGE_SIZE]]
    BY <1>7, <2>1, Zenon DEF Content
  <2> QED BY <2>2, <2>3, Zenon
<1>10. s # << >>
  BY <1>3, <1>8, EmptySeq
<1>11. Head(s) = g[a]
  <2>1. Head(s) = s[1]
    BY <1>8, <1>10
  <2>2. s[1] = g[(a + 1 - 1) % PAGE_SIZE]
    BY <1>3, <1>8
  <2>3. a + 1 - 1 = a /\ a % PAGE_SIZE = a
    BY <1>1, Wrap
  <2> QED BY <2>1, <2>2, <2>3
<1>12. r = Tail(s)
  <2>1. /\ Tail(s) \in Seq(Stored) /\ Len(Tail(s)) = n - 1
        /\ \A i \in 1 .. n - 1 : Tail(s)[i] = s[i + 1]
    BY <1>8, <1>10, HeadTailProperties
  <2>2. \A i \in 1 .. n - 1 : r[i] = Tail(s)[i]
    <3> SUFFICES ASSUME NEW i \in 1 .. n - 1 PROVE r[i] = Tail(s)[i]
      OBVIOUS
    <3>1. Tail(s)[i] = g[(a + (i + 1) - 1) % PAGE_SIZE]
      BY <1>8, <2>1
    <3>2. a + (i + 1) - 1 = (a + 1) + i - 1
      BY <1>1
    <3>3. r[i] = g[((a + 1) + i - 1) % PAGE_SIZE]
      BY <1>9
    <3> QED BY <3>1, <3>2, <3>3
  <2> QED BY <1>9, <2>1, <2>2, SeqEqual
<1> QED BY <1>6, <1>7, <1>10, <1>11, <1>12

\* Storing a byte in the cell at b puts it behind the others.
LEMMA ContentAppend ==
  ASSUME NEW a \in Cells, NEW b \in Cells,
         NEW g \in [Cells -> Stored], NEW q \in [Cells -> Stored],
         \A k \in Cells \ {b} : q[k] = g[k],
         ((b - a) % PAGE_SIZE) + 1 < PAGE_SIZE
  PROVE  /\ Len(Content(a, b, g)) < PAGE_SIZE - 1
         /\ Content(a, b + 1, q) = Append(Content(a, b, g), q[b])
<1>1. /\ a \in Int /\ b \in Int /\ 0 <= a /\ a < PAGE_SIZE /\ 0 <= b /\ b < PAGE_SIZE
      /\ a \in 0 .. PAGE_SIZE /\ b + 1 \in 0 .. PAGE_SIZE /\ b \in 0 .. PAGE_SIZE
  BY DEF Cells
<1>2. PICK n \in Nat : n = (b - a) % PAGE_SIZE
  BY <1>1, ContentType
<1>3. n + 1 < PAGE_SIZE /\ n = IF a <= b THEN b - a ELSE b - a + PAGE_SIZE
  BY <1>2, Distance
<1>4. ((b + 1) - a) % PAGE_SIZE = n + 1
  BY <1>2, MoveCell
<1>5. PICK c \in Stored : c = q[b]
  OBVIOUS
<1>7. PICK s : s = Content(a, b, g)
  OBVIOUS
<1>8. PICK r : r = Content(a, b + 1, q)
  OBVIOUS
<1>9. /\ s \in Seq(Stored) /\ Len(s) = n
      /\ \A i \in 1 .. n : s[i] = g[(a + i - 1) % PAGE_SIZE]
  <2>1. s \in Seq(Stored) /\ Len(s) = n
    BY <1>1, <1>2, <1>7, ContentType
  <2>2. s = [i \in 1 .. n |-> g[(a + i - 1) % PAGE_SIZE]]
    BY <1>2, <1>7, Zenon DEF Content
  <2> QED BY <2>1, <2>2, Zenon
<1>10. /\ r \in Seq(Stored) /\ Len(r) = n + 1
       /\ \A i \in 1 .. n + 1 : r[i] = q[(a + i - 1) % PAGE_SIZE]
  <2>1. r \in Seq(Stored) /\ Len(r) = n + 1
    BY <1>1, <1>4, <1>8, ContentType
  <2>2. r = [i \in 1 .. n + 1 |-> q[(a + i - 1) % PAGE_SIZE]]
    BY <1>4, <1>8, Zenon DEF Content
  <2> QED BY <2>1, <2>2, Zenon
<1>11. \A i \in 1 .. n : (a + i - 1) % PAGE_SIZE \in Cells \ {b}
  <2> SUFFICES ASSUME NEW i \in 1 .. n PROVE (a + i - 1) % PAGE_SIZE \in Cells \ {b}
    OBVIOUS
  <2>1. PICK x \in Int : x = a + i - 1
    BY <1>1
  <2>2. 0 <= x /\ x < 2 * PAGE_SIZE /\ x # b /\ x # b + PAGE_SIZE
    BY <1>1, <1>3, <2>1
  <2>3. IF x < PAGE_SIZE THEN x % PAGE_SIZE = x ELSE x % PAGE_SIZE = x - PAGE_SIZE
    BY <2>2, Wrap
  <2>4. x % PAGE_SIZE # b
    BY <1>1, <2>2, <2>3
  <2> QED BY <2>1, <2>4, Wrap
<1>12. (a + (n + 1) - 1) % PAGE_SIZE = b
  <2>1. PICK x \in Int : x = a + (n + 1) - 1
    BY <1>1
  <2>2. IF a <= b THEN x = b ELSE x = b + PAGE_SIZE
    BY <1>1, <1>3, <2>1
  <2> QED BY <1>1, <2>1, <2>2, Wrap
<1>13. r = Append(s, c)
  <2>1. /\ Append(s, c) \in Seq(Stored) /\ Len(Append(s, c)) = n + 1
        /\ \A i \in 1 .. n : Append(s, c)[i] = s[i]
        /\ Append(s, c)[n + 1] = c
    BY <1>9, AppendProperties
  <2>2. \A i \in 1 .. n : r[i] = Append(s, c)[i]
    BY <1>9, <1>10, <1>11, <2>1
  <2>3. r[n + 1] = c
    BY <1>5, <1>10, <1>12
  <2>4. \A i \in 1 .. n + 1 : i \in 1 .. n \/ i = n + 1
    OBVIOUS
  <2> QED BY <1>10, <2>1, <2>2, <2>3, <2>4, SeqEqual
<1>14. Len(s) < PAGE_SIZE - 1
  BY <1>3, <1>9
<1> QED BY <1>5, <1>7, <1>8, <1>13, <1>14

\* The cell behind the last one is the first one.
LEMMA ContentWrap ==
  ASSUME NEW a \in Cells, NEW b \in Cells, NEW g
  PROVE  /\ \A e \in 0 .. PAGE_SIZE : Content(e % PAGE_SIZE, b, g) = Content(e, b, g)
         /\ \A e \in 0 .. PAGE_SIZE : Content(a, e % PAGE_SIZE, g) = Content(a, e, g)
<1>1. /\ a \in Int /\ b \in Int /\ 0 <= a /\ a < PAGE_SIZE /\ 0 <= b /\ b < PAGE_SIZE
  BY DEF Cells
<1>2. PAGE_SIZE % PAGE_SIZE = 0
  BY Wrap
<1>3. \A e \in 0 .. PAGE_SIZE : e # PAGE_SIZE => e % PAGE_SIZE = e
  BY Wrap
<1>4. Content(0, b, g) = Content(PAGE_SIZE, b, g)
  <2>1. (b - 0) % PAGE_SIZE = b /\ (b - PAGE_SIZE) % PAGE_SIZE = b
    <3>1. PICK x \in Int : x = b - PAGE_SIZE
      BY <1>1
    <3>2. -PAGE_SIZE <= x /\ x < 0 /\ x + PAGE_SIZE = b
      BY <1>1, <3>1
    <3>3. x % PAGE_SIZE = b
      BY <3>2, Wrap
    <3>4. b - 0 = b /\ b % PAGE_SIZE = b
      BY <1>1, Wrap
    <3> QED BY <3>1, <3>3, <3>4
  <2>2. \A i \in 1 .. b : (0 + i - 1) % PAGE_SIZE = (PAGE_SIZE + i - 1) % PAGE_SIZE
    <3> SUFFICES ASSUME NEW i \in 1 .. b
                 PROVE  (0 + i - 1) % PAGE_SIZE = (PAGE_SIZE + i - 1) % PAGE_SIZE
      OBVIOUS
    <3>1. PICK x \in Int : x = 0 + i - 1
      BY <1>1
    <3>2. PICK y \in Int : y = PAGE_SIZE + i - 1
      BY <1>1
    <3>3. /\ 0 <= x /\ x < PAGE_SIZE
          /\ PAGE_SIZE <= y /\ y < 2 * PAGE_SIZE /\ y - PAGE_SIZE = x
      BY <1>1, <3>1, <3>2
    <3>4. x % PAGE_SIZE = y % PAGE_SIZE
      BY <3>3, Wrap
    <3> QED BY <3>1, <3>2, <3>4
  <2>3. [i \in 1 .. b |-> g[(0 + i - 1) % PAGE_SIZE]]
        = [i \in 1 .. b |-> g[(PAGE_SIZE + i - 1) % PAGE_SIZE]]
    BY <2>2, Zenon
  <2> QED BY <2>1, <2>3, Zenon DEF Content
<1>5. Content(a, 0, g) = Content(a, PAGE_SIZE, g)
  <2>1. (0 - a) % PAGE_SIZE = (PAGE_SIZE - a) % PAGE_SIZE
    <3>1. PICK x \in Int : x = 0 - a
      BY <1>1
    <3>2. PICK y \in Int : y = PAGE_SIZE - a
      BY <1>1
    <3>3. /\ IF a = 0 THEN x = 0 ELSE -PAGE_SIZE <= x /\ x < 0
          /\ IF a = 0 THEN y = PAGE_SIZE ELSE 0 <= y /\ y < PAGE_SIZE
          /\ y = x + PAGE_SIZE
      BY <1>1, <3>1, <3>2
    <3>4. x % PAGE_SIZE = y % PAGE_SIZE
      BY <3>3, Wrap
    <3> QED BY <3>1, <3>2, <3>4
  <2> QED BY <2>1, Zenon DEF Content
<1>6. 0 \in Cells
  BY DEF Cells
<1> QED BY <1>2, <1>3, <1>4, <1>5

-----------------------------------------------------------------------------
\* Who copies moves the bounds of the content, and nobody else copies.
LEMMA ReaderBounds ==
  ASSUME ~Faults, NEW t \in Readers
  PROVE  /\ OneInside /\ at[t] = "copy" => From = size[t] /\ To = head
         /\ (OneInside /\ at[t] = "copy" => From = size[t] /\ To = head)'
<1>1. OneInside /\ at[t] = "copy" => From = size[t] /\ To = head
  <2> SUFFICES ASSUME OneInside, at[t] = "copy" PROVE From = size[t] /\ To = head
    OBVIOUS
  <2>1. \A u \in Users : at[u] = "copy" => u = t
    BY DEF OneInside, Users
  <2>2. ~ \E w \in Writers : at[w] = "copy"
    BY <2>1 DEF Users
  <2>3. (CHOOSE r \in Readers : at[r] = "copy") = t
    BY <2>1 DEF Users
  <2> QED BY <2>2, <2>3 DEF From, To
<1> QED BY <1>1, PTL

LEMMA WriterBounds ==
  ASSUME ~Faults, NEW t \in Writers
  PROVE  /\ OneInside /\ at[t] = "copy" => From = tail /\ To = size[t]
         /\ (OneInside /\ at[t] = "copy" => From = tail /\ To = size[t])'
<1>1. OneInside /\ at[t] = "copy" => From = tail /\ To = size[t]
  <2> SUFFICES ASSUME OneInside, at[t] = "copy" PROVE From = tail /\ To = size[t]
    OBVIOUS
  <2>1. \A u \in Users : at[u] = "copy" => u = t
    BY DEF OneInside, Users
  <2>2. ~ \E r \in Readers : at[r] = "copy"
    BY <2>1 DEF Users
  <2>3. (CHOOSE w \in Writers : at[w] = "copy") = t
    BY <2>1 DEF Users
  <2> QED BY <2>2, <2>3 DEF From, To
<1> QED BY <1>1, PTL

LEMMA NoBounds ==
  /\ (\A u \in Users : at[u] # "copy") => From = tail /\ To = head
  /\ ((\A u \in Users : at[u] # "copy") => From = tail /\ To = head)'
<1>1. (\A u \in Users : at[u] # "copy") => From = tail /\ To = head
  BY DEF From, To, Users
<1> QED BY <1>1, PTL

\* A step that moves neither pointer nor copy leaves the content alone.
LEMMA ContentStays ==
  ASSUME ~Faults, OneInside, OneInside', UNCHANGED <<head, tail, page, size>>,
         \A u \in Users : at'[u] = "copy" <=> at[u] = "copy"
  PROVE  Inside' = Inside
<1>1. CASE \E r \in Readers : at[r] = "copy"
  <2>1. PICK r \in Readers : at[r] = "copy" /\ at'[r] = "copy"
    BY <1>1 DEF Users
  <2> QED BY <2>1, ReaderBounds DEF Inside
<1>2. CASE \E w \in Writers : at[w] = "copy"
  <2>1. PICK w \in Writers : at[w] = "copy" /\ at'[w] = "copy"
    BY <1>2 DEF Users
  <2> QED BY <2>1, WriterBounds DEF Inside
<1>3. CASE \A u \in Users : at[u] # "copy"
  BY <1>3, NoBounds DEF Inside
<1> QED BY <1>1, <1>2, <1>3 DEF Users

LEMMA InsideIsContent ==
  /\ Inside = Content(From, To, page)
  /\ Inside' = Content(From', To', page')
BY DEF Inside, Content

-----------------------------------------------------------------------------
\* The first byte of a round goes out when the pointer moves.
LEMMA ReadRoundGets ==
  ASSUME ~Faults, PipeIInv, OneInside', NEW t \in Readers, ReadRound(t)
  PROVE  Promise!Get
<1> USE DEF PipeIInv
<1>1. t \in Users /\ at[t] = "loop"
  BY DEF Users, ReadRound
<1>2. From = tail /\ To = head
  <2>1. \A u \in Users : at[u] # "copy"
    BY <1>1 DEF OneInside
  <2> QED BY <2>1, NoBounds
<1>3. From' = tail + 1 /\ To' = head
  <2>1. at'[t] = "copy" /\ size'[t] = tail + 1 /\ head' = head
    BY <1>1 DEF ReadRound, CopyOut, PipeTypeOK
  <2> QED BY <2>1, ReaderBounds
<1>4. page' = page /\ last' = page[tail] /\ (head - tail) % PAGE_SIZE > 0
  BY DEF ReadRound, CopyOut, PIPE_SIZE
<1>5. Inside # << >> /\ page[tail] = Head(Inside) /\ Inside' = Tail(Inside)
  <2>1. tail \in Cells /\ head \in Cells /\ page \in [Cells -> Stored]
    BY DEF PipeTypeOK, Stored
  <2>2. /\ Content(tail, head, page) # << >>
        /\ Head(Content(tail, head, page)) = page[tail]
        /\ Content(tail + 1, head, page) = Tail(Content(tail, head, page))
    BY <1>4, <2>1, ContentTail
  <2>3. Inside = Content(tail, head, page) /\ Inside' = Content(tail + 1, head, page)
    BY <1>2, <1>3, <1>4, InsideIsContent, Zenon
  <2> QED BY <2>2, <2>3, Zenon
<1> QED BY <1>4, <1>5 DEF Promise!Get

\* So does each of the others; the end of the round changes nothing.
LEMMA ReadByteGets ==
  ASSUME ~Faults, PipeIInv, OneInside', NEW t \in Readers, ReadByte(t)
  PROVE  Promise!Get \/ UNCHANGED <<Inside, last>>
<1> USE DEF PipeIInv
<1>1. t \in Users /\ at[t] = "copy" /\ UNCHANGED <<head, tail, page>>
  BY DEF Users, ReadByte
<1>2. From = size[t] /\ To = head
  BY <1>1, ReaderBounds
<1>3. ReaderMatches(t)
  BY <1>1 DEF PointersMatch
<1>4. /\ chars[t] \in Int /\ 0 <= chars[t]
      /\ size[t] \in Int /\ 0 <= size[t]
      /\ size[t] + chars[t] <= PAGE_SIZE
      /\ head \in Cells /\ tail \in Cells
  BY <1>1 DEF PipeTypeOK, RoundsFit
<1>5. CASE chars[t] > 0
  <2>1. size[t] \in Cells
    BY <1>4, <1>5 DEF Cells
  <2>2. From' = size[t] + 1 /\ To' = head /\ last' = page[size[t]]
    <3>1. at'[t] = "copy" /\ size'[t] = size[t] + 1 /\ last' = page[size[t]]
      BY <1>1, <1>5 DEF ReadByte, CopyOut, PipeTypeOK
    <3> QED BY <1>1, <3>1, ReaderBounds
  <2>3. head # size[t]
    <3> SUFFICES ASSUME head = size[t] PROVE FALSE
      OBVIOUS
    <3>1. PICK d : d = (head - tail) % PAGE_SIZE
      OBVIOUS
    <3>2. d = IF tail <= size[t] THEN size[t] - tail ELSE size[t] - tail + PAGE_SIZE
      BY <1>4, <3>1, Distance
    <3>3. chars[t] + d < PAGE_SIZE
      BY <1>3, <3>1 DEF ReaderMatches, PIPE_SIZE
    <3>4. PICK x \in Int : x = size[t] + chars[t]
      BY <1>4
    <3>5. IF x < PAGE_SIZE THEN tail = x ELSE tail = 0
      <4>1. 0 <= x /\ x <= PAGE_SIZE /\ tail = x % PAGE_SIZE
        BY <1>3, <1>4, <3>4 DEF ReaderMatches
      <4> QED BY <4>1, Wrap
    <3> QED BY <1>4, <1>5, <2>1, <3>2, <3>3, <3>4, <3>5 DEF Cells
  <2>4. Inside # << >> /\ page[size[t]] = Head(Inside) /\ Inside' = Tail(Inside)
    <3>1. (head - size[t]) % PAGE_SIZE > 0
      BY <1>4, <2>1, <2>3, Distance DEF Cells
    <3>2. page \in [Cells -> Stored]
      BY DEF PipeTypeOK, Stored
    <3>3. /\ Content(size[t], head, page) # << >>
          /\ Head(Content(size[t], head, page)) = page[size[t]]
          /\ Content(size[t] + 1, head, page) = Tail(Content(size[t], head, page))
      BY <1>4, <2>1, <3>1, <3>2, ContentTail
    <3>4. /\ Inside = Content(size[t], head, page)
          /\ Inside' = Content(size[t] + 1, head, page)
      BY <1>1, <1>2, <2>2, InsideIsContent, Zenon
    <3> QED BY <3>3, <3>4, Zenon
  <2> QED BY <2>2, <2>4 DEF Promise!Get
<1>6. CASE chars[t] = 0
  <2>1. tail = size[t] % PAGE_SIZE /\ size[t] \in 0 .. PAGE_SIZE
    BY <1>3, <1>4, <1>6 DEF ReaderMatches
  <2>2. From' = tail /\ To' = head
    <3>1. \A u \in Users : at'[u] # "copy"
      BY <1>1, <1>6 DEF ReadByte, PipeTypeOK, OneInside
    <3> QED BY <1>1, <3>1, NoBounds
  <2>3. Inside' = Inside
    BY <1>1, <1>2, <1>4, <2>1, <2>2, InsideIsContent, ContentWrap
  <2> QED BY <1>6, <2>3 DEF ReadByte
<1> QED BY <1>5, <1>6 DEF ReadByte

\* Nothing is inside yet when the writer's pointer moves.
LEMMA WriteRoundPutsNothing ==
  ASSUME ~Faults, PipeIInv, OneInside', NEW t \in Writers, WriteRound(t)
  PROVE  UNCHANGED <<Inside, last>>
<1> USE DEF PipeIInv
<1>1. t \in Users /\ at[t] = "loop" /\ UNCHANGED <<tail, page, last>>
  BY DEF Users, WriteRound
<1>2. From = tail /\ To = head
  <2>1. \A u \in Users : at[u] # "copy"
    BY <1>1 DEF OneInside
  <2> QED BY <2>1, NoBounds
<1>3. From' = tail /\ To' = head
  <2>1. at'[t] = "copy" /\ size'[t] = head
    BY <1>1 DEF WriteRound, PipeTypeOK
  <2> QED BY <1>1, <2>1, WriterBounds
<1> QED BY <1>1, <1>2, <1>3 DEF Inside

\* Each byte that is stored goes in behind the others, and there is room for
\* it; the end of the round changes nothing.
LEMMA WriteBytePuts ==
  ASSUME ~Faults, PipeIInv, OneInside', NEW t \in Writers, WriteByte(t)
  PROVE  (\E c \in Bytes : Promise!Put(c)) \/ UNCHANGED <<Inside, last>>
<1> USE DEF PipeIInv
<1>1. t \in Users /\ at[t] = "copy" /\ UNCHANGED <<head, tail, last>>
  BY DEF Users, WriteByte
<1>2. From = tail /\ To = size[t]
  BY <1>1, WriterBounds
<1>3. WriterMatches(t)
  BY <1>1 DEF PointersMatch
<1>4. /\ chars[t] \in Int /\ 0 <= chars[t]
      /\ size[t] \in Int /\ 0 <= size[t]
      /\ size[t] + chars[t] <= PAGE_SIZE
      /\ head \in Cells /\ tail \in Cells
  BY <1>1 DEF PipeTypeOK, RoundsFit
<1>5. CASE chars[t] > 0
  <2>1. size[t] \in Cells
    BY <1>4, <1>5 DEF Cells
  <2>2. PICK c \in Bytes : page' = [page EXCEPT ![size[t]] = c]
    BY <1>5 DEF WriteByte
  <2>3. From' = tail /\ To' = size[t] + 1
    <3>1. at'[t] = "copy" /\ size'[t] = size[t] + 1
      BY <1>1, <1>5 DEF WriteByte, PipeTypeOK
    <3> QED BY <1>1, <3>1, WriterBounds
  <2>4. ((size[t] - tail) % PAGE_SIZE) + 1 < PAGE_SIZE
    <3>1. PICK d \in Int : d = (size[t] - tail) % PAGE_SIZE
      BY <1>4, <2>1, Distance DEF Cells
    <3>2. d + chars[t] = PIPE_SIZE
      BY <1>3, <3>1 DEF WriterMatches
    <3>3. d + 1 < PAGE_SIZE
      BY <1>4, <1>5, <3>2, SizeType
    <3> QED BY <3>1, <3>3
  <2>5. /\ Len(Inside) < PAGE_SIZE - 1
        /\ Inside' = Append(Inside, c)
    <3>1. page \in [Cells -> Stored] /\ c \in Stored
      BY DEF PipeTypeOK, Stored
    <3>2. /\ Len(Content(tail, size[t], page)) < PAGE_SIZE - 1
          /\ Content(tail, size[t] + 1, [page EXCEPT ![size[t]] = c])
             = Append(Content(tail, size[t], page), c)
      <4>1. PICK a \in Cells : a = tail
        BY <1>4
      <4>2. PICK b \in Cells : b = size[t]
        BY <2>1
      <4>3. PICK g \in [Cells -> Stored] : g = page
        BY <3>1
      <4>4. ((b - a) % PAGE_SIZE) + 1 < PAGE_SIZE
        BY <2>4, <4>1, <4>2
      <4>5. PICK q : q = [g EXCEPT ![b] = c]
        OBVIOUS
      <4>6. /\ q \in [Cells -> Stored] /\ q[b] = c
            /\ \A k \in Cells \ {b} : q[k] = g[k]
        BY <3>1, <4>5
      <4>7. /\ Len(Content(a, b, g)) < PAGE_SIZE - 1
            /\ Content(a, b + 1, q) = Append(Content(a, b, g), q[b])
        <5> HIDE DEF PipeIInv
        <5> QED BY <4>4, <4>6, ContentAppend, Zenon
      <4> QED BY <4>1, <4>2, <4>3, <4>5, <4>6, <4>7, Zenon
    <3>3. /\ Inside = Content(tail, size[t], page)
          /\ Inside' = Content(tail, size[t] + 1, [page EXCEPT ![size[t]] = c])
      BY <1>2, <2>2, <2>3, InsideIsContent, Zenon
    <3> QED BY <3>2, <3>3, Zenon
  <2> QED BY <1>1, <2>5 DEF Promise!Put
<1>6. CASE chars[t] = 0
  <2>1. head = size[t] % PAGE_SIZE /\ size[t] \in 0 .. PAGE_SIZE /\ page' = page
    BY <1>3, <1>4, <1>6 DEF WriterMatches, WriteByte
  <2>2. From' = tail /\ To' = head
    <3>1. \A u \in Users : at'[u] # "copy"
      BY <1>1, <1>6 DEF WriteByte, PipeTypeOK, OneInside
    <3> QED BY <1>1, <3>1, NoBounds
  <2>3. Inside' = Inside
    BY <1>1, <1>2, <1>4, <2>1, <2>2, InsideIsContent, ContentWrap
  <2> QED BY <1>1, <2>3
<1> QED BY <1>5, <1>6 DEF WriteByte

LEMMA InitIsFifo == PipeInit => Promise!Init
<1> SUFFICES ASSUME PipeInit PROVE Promise!Init
  OBVIOUS
<1>1. From = 0 /\ To = 0
  <2>1. \A u \in Users : at[u] # "copy"
    BY DEF PipeInit
  <2> QED BY <2>1, NoBounds DEF PipeInit
<1>2. 0 \in 0 .. PAGE_SIZE /\ (0 - 0) % PAGE_SIZE = 0
  BY Wrap
<1>3. page \in [Cells -> Stored]
  BY DEF PipeInit, Stored
<1>4. Inside \in Seq(Stored) /\ Len(Inside) = 0
  BY <1>1, <1>2, <1>3, InsideIsContent, ContentType
<1>5. Inside = << >>
  BY <1>4, EmptySeq
<1>6. last \notin Bytes
  BY ByteAssumption DEF PipeInit
<1> QED BY <1>5, <1>6 DEF Promise!Init

LEMMA NextIsFifo ==
  ASSUME ~Faults, PipeIInv, PipeIInv', [PipeNext]_pipevars
  PROVE  [Promise!Next]_(Promise!vars)
<1>0. OneInside /\ OneInside' /\ PipeTypeOK
  BY DEF PipeIInv
<1>1. CASE \E t \in Users : PipeStep(t)
  <2> PICK t \in Users : PipeStep(t)
    BY <1>1
  <2>1. CASE Resume(t)
    <3>1. /\ UNCHANGED <<head, tail, page, size, last>>
          /\ \A u \in Users : at'[u] = "copy" <=> at[u] = "copy"
      BY <1>0, <2>1 DEF Resume, locals, PipeTypeOK
    <3> QED BY <1>0, <3>1, ContentStays DEF Promise!vars
  <2>2. CASE t \in Readers /\ (ReadEmpty(t) \/ ReadDone(t))
    <3>1. /\ UNCHANGED <<head, tail, page, size, last>>
          /\ \A u \in Users : at'[u] = "copy" <=> at[u] = "copy"
      BY <1>0, <2>2 DEF ReadEmpty, ReadDone, Wake, Forget, locals, PipeTypeOK
    <3> QED BY <1>0, <3>1, ContentStays DEF Promise!vars
  <2>3. CASE t \in Readers /\ ReadRound(t)
    BY <1>0, <2>3, ReadRoundGets DEF Promise!Next
  <2>4. CASE t \in Readers /\ ReadByte(t)
    BY <1>0, <2>4, ReadByteGets DEF Promise!Next, Promise!vars
  <2>5. CASE t \in Writers /\ (WriteFull(t) \/ WriteDone(t))
    <3>1. /\ UNCHANGED <<head, tail, page, size, last>>
          /\ \A u \in Users : at'[u] = "copy" <=> at[u] = "copy"
      BY <1>0, <2>5 DEF WriteFull, WriteDone, Wake, Forget, locals, PipeTypeOK
    <3> QED BY <1>0, <3>1, ContentStays DEF Promise!vars
  <2>6. CASE t \in Writers /\ WriteRound(t)
    BY <1>0, <2>6, WriteRoundPutsNothing DEF Promise!vars
  <2>7. CASE t \in Writers /\ WriteByte(t)
    BY <1>0, <2>7, WriteBytePuts DEF Promise!Next, Promise!vars
  <2> QED BY <2>1, <2>2, <2>3, <2>4, <2>5, <2>6, <2>7 DEF PipeStep, Read, Write
<1>2. CASE \/ \E t \in Users, n \in 1 .. MaxCount : Call(t, n)
           \/ \E t \in Readers : Signal(t)
           \/ \E e \in Ends : Close(e)
           \/ UNCHANGED pipevars
  <2>1. /\ UNCHANGED <<head, tail, page, size, last>>
        /\ \A u \in Users : at'[u] = "copy" <=> at[u] = "copy"
    BY <1>0, <1>2 DEF Call, Signal, Close, pipevars, locals, PipeTypeOK, Users
  <2> QED BY <1>0, <2>1, ContentStays DEF Promise!vars
<1> QED BY <1>1, <1>2 DEF PipeNext

\* While no page fault interrupts the copying, read_pipe() and write_pipe() are
\* a first-in first-out queue of PAGE_SIZE - 1 bytes: none is lost, doubled,
\* overtaken or overwritten, for any size of the page, across the wrap-around
\* and the rounds of a call, and with any number of tasks on each end.
THEOREM PipeIsFifo ==
  ASSUME ~Faults
  PROVE  PipeSpec => ImplementsFifo
<1>1. PipeIInv /\ PipeIInv' /\ [PipeNext]_pipevars => [Promise!Next]_(Promise!vars)
  BY NextIsFifo
<1> QED BY <1>1, InitIsFifo, PipeInductive, PTL DEF PipeSpec, ImplementsFifo, Promise!Spec
=============================================================================
