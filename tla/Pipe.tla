-------------------------------- MODULE Pipe --------------------------------
(***************************************************************************)
(* fs/pipe.c: read_pipe() and write_pipe() on the one page of a pipe, and   *)
(* iput() of fs/inode.c when an end is closed.                              *)
(*                                                                          *)
(* Each round of their loops moves the pointer first and copies the bytes   *)
(* after that.  The kernel is not preemptive, so nobody else runs during a  *)
(* call until it returns or sleeps - unless a page of the user's buffer is  *)
(* not in memory: then put_fs_byte() or get_fs_byte() faults, and the task  *)
(* sleeps until the page is there (Faults = TRUE).  put_fs_byte() faults    *)
(* with its byte already loaded, get_fs_byte() before its byte is stored.   *)
(*                                                                          *)
(* wake_up() makes all tasks of its queue go on, one after the other, and   *)
(* each of them looks at the pipe again (WaitQueue).  PAGE_SIZE is a power  *)
(* of two, so "& (PAGE_SIZE-1)" is written as a remainder.                  *)
(***************************************************************************)
EXTENDS Integers, FiniteSets

CONSTANTS
  Readers, Writers,  \* tasks that share the two descriptors
  PAGE_SIZE,         \* (4096)
  Bytes,             \* what is written
  MaxCount,          \* bound: the largest count of one call
  Faults,            \* may user memory be absent?
  NONE               \* no byte

\* A page has room for a byte beside the cell that stays free, and a task
\* uses one end of the pipe.
ASSUME PageAssumption == PAGE_SIZE \in Nat /\ PAGE_SIZE >= 2
ASSUME EndsAssumption == Readers \cap Writers = {}
ASSUME CountAssumption == MaxCount \in Nat
ASSUME ByteAssumption == NONE \notin Bytes
ASSUME FaultAssumption == Faults \in BOOLEAN

Users == Readers \cup Writers
Cells == 0 .. PAGE_SIZE - 1
Ends == {"read", "write"}

VARIABLES
  head, tail,    \* PIPE_HEAD and PIPE_TAIL: i_zone[0] and i_zone[1]
  page,          \* the page i_size points to
  open,          \* the ends that are open: i_count is their number
  at,            \* where each task is
  count, chars,  \* the local variables of read_pipe and write_pipe
  size,          \*   (size is the cell that is copied next)
  pending,       \* the readers with an unblocked pending signal
  last           \* the byte a reader got last

locals == <<count, chars, size>>
pipevars == <<head, tail, page, open, at, locals, pending, last>>

PipeTypeOK ==
  /\ head \in Cells /\ tail \in Cells
  /\ page \in [Cells -> Bytes \cup {NONE}]
  /\ open \in SUBSET Ends
  /\ at \in [Users -> {"idle", "ready", "loop", "asleep", "copy"}]
  /\ count \in [Users -> 0 .. MaxCount]
  /\ chars \in [Users -> 0 .. PAGE_SIZE - 1]
  /\ size \in [Users -> 0 .. PAGE_SIZE]
  /\ pending \in SUBSET Readers
  /\ last \in Bytes \cup {NONE}

\* sys_pipe and get_pipe_inode
PipeInit ==
  /\ head = 0 /\ tail = 0
  /\ page = [c \in Cells |-> NONE]
  /\ open = Ends
  /\ at = [t \in Users |-> "idle"]
  /\ count = [t \in Users |-> 0]
  /\ chars = [t \in Users |-> 0]
  /\ size = [t \in Users |-> 0]
  /\ pending = {}
  /\ last = NONE

i_count == Cardinality(open)
PIPE_SIZE == (head - tail) % PAGE_SIZE
Least(S) == CHOOSE n \in S : \A m \in S : n <= m

\* Nobody else is inside the kernel, other than asleep.
MayRun(t) ==
  \A u \in Users \ {t} : at[u] # "loop" /\ (at[u] = "copy" => Faults)

\* The local variables of a call that has returned are forgotten.
Forget(t) == count' = [count EXCEPT ![t] = 0] /\ UNCHANGED <<chars, size>>

\* pc after wake_up() of the tasks W, when task t goes to l.
Wake(W, t, l) ==
  [u \in Users |-> IF u = t THEN l
                   ELSE IF u \in W /\ at[u] = "asleep" THEN "ready" ELSE at[u]]
-----------------------------------------------------------------------------
EndOf(t) == IF t \in Readers THEN "read" ELSE "write"

\* sys_read() or sys_write() of n bytes.
Call(t, n) ==
  /\ MayRun(t)
  /\ at[t] = "idle" /\ EndOf(t) \in open
  /\ at' = [at EXCEPT ![t] = "loop"]
  /\ count' = [count EXCEPT ![t] = n]
  /\ UNCHANGED <<head, tail, page, open, chars, size, pending, last>>

\* The processor comes back to a task that was woken up.
Resume(t) ==
  /\ MayRun(t)
  /\ at[t] = "ready"
  /\ at' = [at EXCEPT ![t] = "loop"]
  /\ UNCHANGED <<head, tail, page, open, locals, pending, last>>

\* A signal (SIGALRM, a kill by another process) for a task that reads.
Signal(t) ==
  /\ at[t] \in {"ready", "asleep"}
  /\ \A u \in Users : at[u] # "loop"
  /\ pending' = pending \cup {t}
  /\ at' = [at EXCEPT ![t] = "ready"]
  /\ UNCHANGED <<head, tail, page, open, locals, last>>

\* Mutant: iput() wakes nobody.
CloseSilently(e) ==
  /\ e \in open
  /\ \A u \in Users : at[u] # "loop" /\ (at[u] = "copy" => Faults)
  /\ \A t \in Users : EndOf(t) = e => at[t] = "idle"
  /\ open' = open \ {e}
  /\ UNCHANGED <<head, tail, page, at, locals, pending, last>>

\* The last descriptor of an end is closed: iput() of the pipe's inode.
\* Nobody is then inside a call on that end.
Close(e) ==
  /\ e \in open
  /\ \A u \in Users : at[u] # "loop" /\ (at[u] = "copy" => Faults)
  /\ \A t \in Users : EndOf(t) = e => at[t] = "idle"
  /\ open' = open \ {e}
  /\ at' = [u \in Users |-> IF at[u] = "asleep" THEN "ready" ELSE at[u]]
  /\ UNCHANGED <<head, tail, page, locals, pending, last>>
-----------------------------------------------------------------------------
\* read_pipe: nothing to read.  It wakes the writers; then it returns if the
\* write end is closed or a signal is pending, and sleeps otherwise.
ReadEmpty(t) ==
  /\ at[t] = "loop" /\ count[t] > 0 /\ PIPE_SIZE = 0
  /\ IF i_count # 2 \/ t \in pending
     THEN at' = Wake(Writers, t, "idle") /\ pending' = pending \ {t} /\ Forget(t)
     ELSE at' = Wake(Writers, t, "asleep") /\ UNCHANGED <<pending, locals>>
  /\ UNCHANGED <<head, tail, page, open, last>>

\* The byte at cell c goes to the reader t.
CopyOut(t, c) ==
  /\ last' = page[c]
  /\ size' = [size EXCEPT ![t] = c + 1]

\* read_pipe: the bytes of this round, the pointer, and the first byte.
ReadRound(t) ==
  LET n == Least({PAGE_SIZE - tail, count[t], PIPE_SIZE}) IN
  /\ at[t] = "loop" /\ count[t] > 0 /\ PIPE_SIZE > 0
  /\ count' = [count EXCEPT ![t] = @ - n]
  /\ chars' = [chars EXCEPT ![t] = n - 1]
  /\ tail' = (tail + n) % PAGE_SIZE
  /\ CopyOut(t, tail)
  /\ at' = [at EXCEPT ![t] = "copy"]
  /\ UNCHANGED <<head, page, open, pending>>

\* The next byte of the round, or its end.
ReadByte(t) ==
  /\ MayRun(t)
  /\ at[t] = "copy"
  /\ \/ /\ chars[t] > 0
        /\ chars' = [chars EXCEPT ![t] = @ - 1]
        /\ CopyOut(t, size[t])
        /\ UNCHANGED at
     \/ /\ chars[t] = 0
        /\ at' = [at EXCEPT ![t] = "loop"]
        /\ size' = [size EXCEPT ![t] = 0]
        /\ UNCHANGED <<chars, last>>
  /\ UNCHANGED <<head, tail, page, open, count, pending>>

\* Mutant: the writers are not woken up.
ReadDoneSilently(t) ==
  /\ at[t] = "loop" /\ count[t] = 0
  /\ at' = [at EXCEPT ![t] = "idle"]
  /\ pending' = pending \ {t}
  /\ UNCHANGED <<head, tail, page, open, locals, last>>

\* read_pipe has everything: it wakes the writers and returns.
ReadDone(t) ==
  /\ at[t] = "loop" /\ count[t] = 0
  /\ at' = Wake(Writers, t, "idle")
  /\ pending' = pending \ {t}
  /\ UNCHANGED <<head, tail, page, open, locals, last>>
-----------------------------------------------------------------------------
\* Mutant: the whole page may be filled, and then looks empty.
RoomForAll == PAGE_SIZE - PIPE_SIZE

Room == PAGE_SIZE - 1 - PIPE_SIZE

\* write_pipe: no room.  It wakes the readers; then it returns with SIGPIPE
\* if the read end is closed, and sleeps otherwise.
WriteFull(t) ==
  /\ at[t] = "loop" /\ count[t] > 0 /\ Room = 0
  /\ IF i_count # 2
     THEN at' = Wake(Readers, t, "idle") /\ Forget(t)
     ELSE at' = Wake(Readers, t, "asleep") /\ UNCHANGED locals
  /\ UNCHANGED <<head, tail, page, open, pending, last>>

\* write_pipe: the bytes of this round, and the pointer.
WriteRound(t) ==
  LET n == Least({PAGE_SIZE - head, count[t], Room}) IN
  /\ at[t] = "loop" /\ count[t] > 0 /\ Room > 0
  /\ count' = [count EXCEPT ![t] = @ - n]
  /\ chars' = [chars EXCEPT ![t] = n]
  /\ size' = [size EXCEPT ![t] = head]
  /\ head' = (head + n) % PAGE_SIZE
  /\ at' = [at EXCEPT ![t] = "copy"]
  /\ UNCHANGED <<tail, page, open, pending, last>>

\* The next byte of the round, or its end.
WriteByte(t) ==
  /\ MayRun(t)
  /\ at[t] = "copy"
  /\ \/ /\ chars[t] > 0
        /\ \E c \in Bytes : page' = [page EXCEPT ![size[t]] = c]
        /\ chars' = [chars EXCEPT ![t] = @ - 1]
        /\ size' = [size EXCEPT ![t] = @ + 1]
        /\ UNCHANGED at
     \/ /\ chars[t] = 0
        /\ at' = [at EXCEPT ![t] = "loop"]
        /\ size' = [size EXCEPT ![t] = 0]
        /\ UNCHANGED <<page, chars>>
  /\ UNCHANGED <<head, tail, open, count, pending, last>>

\* write_pipe has stored everything: it wakes the readers and returns.
WriteDone(t) ==
  /\ at[t] = "loop" /\ count[t] = 0
  /\ at' = Wake(Readers, t, "idle")
  /\ UNCHANGED <<head, tail, page, open, locals, pending, last>>
-----------------------------------------------------------------------------
Read(t) == ReadEmpty(t) \/ ReadRound(t) \/ ReadByte(t) \/ ReadDone(t)
Write(t) == WriteFull(t) \/ WriteRound(t) \/ WriteByte(t) \/ WriteDone(t)

PipeStep(t) == Resume(t) \/ (t \in Readers /\ Read(t)) \/ (t \in Writers /\ Write(t))

PipeNext ==
  \/ \E t \in Users : PipeStep(t)
  \/ \E t \in Users, n \in 1 .. MaxCount : Call(t, n)
  \/ \E t \in Readers : Signal(t)
  \/ \E e \in Ends : Close(e)

PipeSpec == PipeInit /\ [][PipeNext]_pipevars

\* A task that can run gets the processor again and again
\* (Scheduler!NoStarvation), also after a page fault.
PipeFairSpec == PipeSpec /\ \A t \in Users : SF_pipevars(PipeStep(t))
-----------------------------------------------------------------------------
\* What is inside the pipe, oldest first: from the cell a copying reader has
\* reached to the cell a copying writer has reached.
From == IF \E r \in Readers : at[r] = "copy"
        THEN size[CHOOSE r \in Readers : at[r] = "copy"] ELSE tail
To == IF \E w \in Writers : at[w] = "copy"
      THEN size[CHOOSE w \in Writers : at[w] = "copy"] ELSE head

Inside ==
  [i \in 1 .. (To - From) % PAGE_SIZE |-> page[(From + i - 1) % PAGE_SIZE]]

Promise == INSTANCE Fifo WITH q <- Inside, Capacity <- PAGE_SIZE - 1

\* While no page fault interrupts the copying, read_pipe and write_pipe
\* implement a bounded first-in first-out queue: across the wrap-around, the
\* split of a call into rounds, sleeping in the middle of a call, and several
\* tasks on each end, no byte is lost, duplicated or overwritten.
ImplementsFifo == Promise!Spec

\* Whenever nobody is in the middle of a call, a sleeping reader sleeps
\* because the pipe is empty and the write end open, and a sleeping writer
\* because it is full and the read end open: no wake_up was missed, and the
\* two never wait for each other.
SleepersHaveReason ==
  (\A t \in Users : at[t] \in {"idle", "asleep"}) =>
    \A t \in Users : at[t] = "asleep" =>
      /\ open = Ends
      /\ IF t \in Readers THEN PIPE_SIZE = 0 ELSE Room = 0

\* When the other end is closed, every call on the remaining end returns:
\* end of file for a reader, SIGPIPE for a writer.
CallsReturnAfterClose ==
  \A t \in Users : (at[t] # "idle" /\ open # Ends) ~> (at[t] = "idle")
=============================================================================
