---------------------------- MODULE BufferCache ----------------------------
(***************************************************************************)
(* fs/buffer.c: the buffer cache of one block device.  Tasks call bread(),  *)
(* breada() and brelse(), modify the buffers they hold, and write dirty     *)
(* buffers back with sync_dev(), which getblk() calls itself when it can    *)
(* only find a dirty buffer.                                                *)
(*                                                                          *)
(* A task gives up the processor only where it waits: for the lock of a     *)
(* buffer, for a free buffer, or in ll_rw_block() for a free request (see   *)
(* RequestQueue).  One action is what a task does from one such place to    *)
(* the next; everything it has looked at before may have changed after it.  *)
(* Waiting loops are guards, as WaitSpec promises.                          *)
(*                                                                          *)
(* The free list is searched for the least bad unused buffer; which of      *)
(* equally bad ones comes first is left open.  Data are abstracted to       *)
(* whether they are the last ones written to the block by a task.           *)
(***************************************************************************)
EXTENDS Naturals, FiniteSets

CONSTANTS
  Tasks,
  Readers,   \* the tasks that read ahead
  Buffers,   \* the NR_BUFFERS buffer heads
  Blocks,    \* block numbers of the device
  BadBlocks, \* the blocks whose reads and writes may fail
  Faults,    \* may the user memory that file_write() copies from be absent?
  NONE       \* no block (b_dev = 0), no buffer

ASSUME SubsetAssumption == Readers \subseteq Tasks /\ BadBlocks \subseteq Blocks /\ Faults \in BOOLEAN
ASSUME NoneAssumption == NONE \notin Blocks /\ NONE \notin Buffers
ASSUME TasksAssumption == IsFiniteSet(Tasks)
\* breada() holds a buffer while it asks for another one.
ASSUME BuffersAssumption == Buffers # {} /\ (Readers # {} => \E b, c \in Buffers : b # c)

VARIABLES
  buf,        \* the buffer heads
  task,       \* the tasks
  diskFresh,  \* does the device hold the last data written to a block?
  spoilt      \* the blocks whose last data may be lost: a write has failed, or
              \* file_write() has copied into a buffer that was clean again

vars == <<buf, task, diskFresh, spoilt>>

\* A buffer head: its block, b_count, b_dirt, b_lock, b_uptodate, the request
\* it has with the driver, and whether b_data are the last data of the block.
BufferHead ==
  [blk : Blocks \cup {NONE}, count : 0 .. 2 * Cardinality(Tasks), dirt : BOOLEAN, lock : BOOLEAN,
   uptodate : BOOLEAN, io : {"none", "read", "write", "written"}, fresh : BOOLEAN]

\* A task: where it is, the block and the buffer it works on; in breada() the
\* block to read ahead and, while that is done, the first buffer; in
\* sync_dev() the buffers still to look at, the passes over them still to make
\* and the buffer being written.
Task ==
  [pc : {"idle", "find", "hashwait", "pick", "bufwait", "sync", "syncq",
         "rdlock", "rdq", "rdwait", "hold", "fault", "rel"},
   want : Blocks \cup {NONE}, bh : Buffers \cup {NONE},
   ahead : Blocks \cup {NONE}, first : Buffers \cup {NONE},
   todo : SUBSET Buffers, passes : 0 .. 1, sb : Buffers \cup {NONE}]

TypeOK ==
  /\ buf \in [Buffers -> BufferHead]
  /\ task \in [Tasks -> Task]
  /\ diskFresh \in [Blocks -> BOOLEAN]
  /\ spoilt \in SUBSET Blocks

Idle == [pc |-> "idle", want |-> NONE, bh |-> NONE, ahead |-> NONE, first |-> NONE,
         todo |-> {}, passes |-> 0, sb |-> NONE]

\* buffer_init
Init ==
  /\ buf = [b \in Buffers |-> [blk |-> NONE, count |-> 0, dirt |-> FALSE, lock |-> FALSE,
                               uptodate |-> FALSE, io |-> "none", fresh |-> FALSE]]
  /\ task = [t \in Tasks |-> Idle]
  /\ diskFresh = [k \in Blocks |-> TRUE]
  /\ spoilt = {}

At(t, l) == task[t].pc = l
Goto(t, l) == task' = [task EXCEPT ![t].pc = l]
Bh(t) == buf[task[t].bh]
-----------------------------------------------------------------------------
\* bread(block), or breada(block, ahead).
Call(t, block, ahead) ==
  /\ At(t, "idle")
  /\ task' = [task EXCEPT ![t] = [Idle EXCEPT !.pc = "find", !.want = block, !.ahead = ahead]]
  /\ UNCHANGED <<buf, diskFresh, spoilt>>

find_buffer(block) == {b \in Buffers : buf[b].blk = block}

BADNESS(b) == (IF buf[b].dirt THEN 2 ELSE 0) + (IF buf[b].lock THEN 1 ELSE 0)
Unused == {b \in Buffers : buf[b].count = 0}
LeastBad == {b \in Unused : \A c \in Unused : BADNESS(b) <= BADNESS(c)}

\* Mutant: get_hash_table counts its reference only after it has waited.
FindUncounted(t) ==
  /\ At(t, "find")
  /\ LET found == find_buffer(task[t].want)
     IN  \/ \E b \in found : task' = [task EXCEPT ![t].pc = "hashwait", ![t].bh = b]
         \/ /\ found = {}
            /\ \E b \in LeastBad : task' = [task EXCEPT ![t].pc = "pick", ![t].bh = b]
         \/ /\ found = {} /\ Unused = {}
            /\ Goto(t, "bufwait")
  /\ UNCHANGED <<buf, diskFresh, spoilt>>

\* getblk from "repeat": the block is in the cache, and counted before the task
\* waits for it (get_hash_table); or an unused buffer is chosen; or all
\* buffers are in use, and the task sleeps on buffer_wait.
Find(t) ==
  /\ At(t, "find")
  /\ LET found == find_buffer(task[t].want)
     IN  \/ \E b \in found :
              /\ buf' = [buf EXCEPT ![b].count = @ + 1]
              /\ task' = [task EXCEPT ![t].pc = "hashwait", ![t].bh = b]
         \/ /\ found = {}
            /\ \E b \in LeastBad : task' = [task EXCEPT ![t].pc = "pick", ![t].bh = b]
            /\ UNCHANGED buf
         \/ /\ found = {} /\ Unused = {}
            /\ Goto(t, "bufwait")
            /\ UNCHANGED buf
  /\ UNCHANGED <<diskFresh, spoilt>>

\* bread() waits for the buffer it has; breada() first turns to the other block.
Proceed(t, b, l) ==
  task' = [task EXCEPT ![t] =
             IF @.ahead = NONE THEN [@ EXCEPT !.pc = l, !.bh = b]
             ELSE [Idle EXCEPT !.pc = "find", !.want = task[t].ahead, !.first = b]]

\* What the caller of getblk does with buffer b, which is head now, as far as
\* it comes without waiting: bread() returns a valid buffer and reads another
\* one.  With the first buffer in hand, breada() has b read too unless it is
\* valid, locked, or there is no free request, and lets it go without wake_up.
Obtained(t, b, head) ==
  \/ /\ task[t].first = NONE
     /\ buf' = [buf EXCEPT ![b] = head]
     /\ IF head.uptodate THEN Proceed(t, b, "hold")
        ELSE task' = [task EXCEPT ![t].pc = "rdlock", ![t].bh = b]
  \/ /\ task[t].first # NONE
     /\ \E reads \in BOOLEAN :
          /\ reads => ~head.uptodate /\ ~head.lock
          /\ buf' = [buf EXCEPT ![b] =
                       [head EXCEPT !.count = @ - 1, !.lock = @ \/ reads, !.dirt = @ /\ ~reads,
                                    !.io = IF reads THEN "read" ELSE @]]
     /\ task' = [task EXCEPT ![t] = [Idle EXCEPT !.pc = "rdwait", !.bh = task[t].first]]

\* get_hash_table after wait_on_buffer.
HashWait(t) ==
  /\ At(t, "hashwait")
  /\ ~Bh(t).lock
  /\ \/ /\ Bh(t).blk = task[t].want
        /\ Obtained(t, task[t].bh, Bh(t))
     \/ /\ Bh(t).blk # task[t].want
        /\ buf' = [buf EXCEPT ![task[t].bh].count = @ - 1]
        /\ Goto(t, "find")
  /\ UNCHANGED <<diskFresh, spoilt>>

\* Mutants of Pick: no second search of the cache; no look at b_dirt; and
\* "b_uptodate = 0" left out.
PickUnsearched(t) ==
  /\ At(t, "pick")
  /\ ~Bh(t).lock
  /\ Bh(t).count = 0 /\ ~Bh(t).dirt
  /\ Obtained(t, task[t].bh,
              [Bh(t) EXCEPT !.blk = task[t].want, !.count = 1, !.uptodate = FALSE, !.fresh = FALSE])
  /\ UNCHANGED <<diskFresh, spoilt>>

PickDirty(t) ==
  /\ At(t, "pick")
  /\ ~Bh(t).lock
  /\ Bh(t).count = 0 /\ find_buffer(task[t].want) = {}
  /\ Obtained(t, task[t].bh,
              [Bh(t) EXCEPT !.blk = task[t].want, !.count = 1, !.uptodate = FALSE, !.fresh = FALSE,
                            !.dirt = FALSE])
  /\ UNCHANGED <<diskFresh, spoilt>>

PickStale(t) ==
  /\ At(t, "pick")
  /\ ~Bh(t).lock
  /\ Bh(t).count = 0 /\ ~Bh(t).dirt /\ find_buffer(task[t].want) = {}
  /\ Obtained(t, task[t].bh, [Bh(t) EXCEPT !.blk = task[t].want, !.count = 1, !.fresh = FALSE])
  /\ UNCHANGED <<diskFresh, spoilt>>

\* getblk after wait_on_buffer: the buffer may be used by now, or dirty, or the
\* block may be in the cache; else the buffer is given to the block.
Pick(t) ==
  /\ At(t, "pick")
  /\ ~Bh(t).lock
  /\ \/ /\ Bh(t).count > 0
        /\ Goto(t, "find")
        /\ UNCHANGED buf
     \/ /\ Bh(t).count = 0 /\ Bh(t).dirt
        /\ task' = [task EXCEPT ![t].pc = "sync", ![t].todo = Buffers, ![t].passes = 1]
        /\ UNCHANGED buf
     \/ /\ Bh(t).count = 0 /\ ~Bh(t).dirt
        /\ find_buffer(task[t].want) # {}
        /\ Goto(t, "find")
        /\ UNCHANGED buf
     \/ /\ Bh(t).count = 0 /\ ~Bh(t).dirt
        /\ find_buffer(task[t].want) = {}
        /\ Obtained(t, task[t].bh,
                    [Bh(t) EXCEPT !.blk = task[t].want, !.count = 1, !.uptodate = FALSE, !.fresh = FALSE])
  /\ UNCHANGED <<diskFresh, spoilt>>
-----------------------------------------------------------------------------
\* sys_sync(): sync_dev() without a getblk to come back to.
CallSync(t) ==
  /\ At(t, "idle")
  /\ task' = [task EXCEPT ![t].pc = "sync", ![t].todo = Buffers]
  /\ UNCHANGED <<buf, diskFresh, spoilt>>

\* The loop goes on without buffer b; after the last one sync_dev() makes its
\* second pass, or returns to getblk or to the user.
SyncNext(r, b) ==
  LET left == r.todo \ {b}
  IN  IF left # {} THEN [r EXCEPT !.pc = "sync", !.todo = left, !.sb = NONE]
      ELSE IF r.passes > 0 THEN [r EXCEPT !.pc = "sync", !.todo = Buffers, !.passes = @ - 1, !.sb = NONE]
      ELSE IF r.bh # NONE THEN [r EXCEPT !.pc = "pick", !.todo = {}, !.sb = NONE]
      ELSE Idle

\* One buffer of the loop of sync_dev(): after wait_on_buffer a dirty one is
\* locked by ll_rw_block(WRITE)...
SyncBuffer(t, b) ==
  /\ At(t, "sync")
  /\ b \in task[t].todo
  /\ ~buf[b].lock
  /\ \/ /\ buf[b].dirt
        /\ buf' = [buf EXCEPT ![b].lock = TRUE]
        /\ task' = [task EXCEPT ![t].pc = "syncq", ![t].sb = b]
     \/ /\ ~buf[b].dirt
        /\ task' = [task EXCEPT ![t] = SyncNext(@, b)]
        /\ UNCHANGED buf
  /\ UNCHANGED <<diskFresh, spoilt>>

\* ...and queued as soon as there is a free request.
SyncQueue(t) ==
  /\ At(t, "syncq")
  /\ buf' = [buf EXCEPT ![task[t].sb].io = "write", ![task[t].sb].dirt = FALSE]
  /\ task' = [task EXCEPT ![t] = SyncNext(@, @.sb)]
  /\ UNCHANGED <<diskFresh, spoilt>>
-----------------------------------------------------------------------------
\* ll_rw_block(READ, bh): lock_buffer, and nothing to do if the buffer has
\* become valid...
ReadLock(t) ==
  /\ At(t, "rdlock")
  /\ ~Bh(t).lock
  /\ \/ Bh(t).uptodate /\ Proceed(t, task[t].bh, "rdwait") /\ UNCHANGED buf
     \/ ~Bh(t).uptodate /\ Goto(t, "rdq") /\ buf' = [buf EXCEPT ![task[t].bh].lock = TRUE]
  /\ UNCHANGED <<diskFresh, spoilt>>

\* ...else it is queued as soon as there is a free request.
ReadQueue(t) ==
  /\ At(t, "rdq")
  /\ buf' = [buf EXCEPT ![task[t].bh].io = "read", ![task[t].bh].dirt = FALSE]
  /\ Proceed(t, task[t].bh, "rdwait")
  /\ UNCHANGED <<diskFresh, spoilt>>

\* bread after wait_on_buffer: the buffer is handed out if it was read.
ReadWait(t) ==
  /\ At(t, "rdwait")
  /\ ~Bh(t).lock
  /\ Goto(t, IF Bh(t).uptodate THEN "hold" ELSE "rel")
  /\ UNCHANGED <<buf, diskFresh, spoilt>>

\* New data in the buffer of task t: the other copies of the block are old.
NewData(t, dirt) ==
  /\ buf' = [b \in Buffers |->
               IF b = task[t].bh THEN [buf[b] EXCEPT !.fresh = TRUE, !.dirt = dirt]
               ELSE [buf[b] EXCEPT !.fresh = @ /\ buf[b].blk # Bh(t).blk]]
  /\ diskFresh' = [diskFresh EXCEPT ![Bh(t).blk] = FALSE]

\* The holder marks the buffer dirty and changes the data, even while it is
\* being written.
Modify(t) ==
  /\ At(t, "hold")
  /\ NewData(t, TRUE)
  /\ UNCHANGED <<task, spoilt>>

\* file_write() marks the buffer dirty, and get_fs_byte() faults: the task
\* sleeps until the page of user memory is there...
ModifyFaults(t) ==
  /\ Faults
  /\ At(t, "hold")
  /\ buf' = [buf EXCEPT ![task[t].bh].dirt = TRUE]
  /\ Goto(t, "fault")
  /\ UNCHANGED <<diskFresh, spoilt>>

\* ...copies its data after that, and calls brelse().
ModifyResumes(t) ==
  /\ At(t, "fault")
  /\ NewData(t, Bh(t).dirt)
  /\ Goto(t, "rel")
  /\ spoilt' = spoilt \cup (IF Bh(t).dirt THEN {} ELSE {Bh(t).blk})

Release(t) ==
  /\ At(t, "hold")
  /\ Goto(t, "rel")
  /\ UNCHANGED <<buf, diskFresh, spoilt>>

\* Mutant: nobody is woken up.
brelseSilently(t) ==
  /\ At(t, "rel")
  /\ ~Bh(t).lock
  /\ buf' = [buf EXCEPT ![task[t].bh].count = @ - 1]
  /\ task' = [task EXCEPT ![t] = Idle]
  /\ UNCHANGED <<diskFresh, spoilt>>

\* brelse: wait_on_buffer, b_count--, wake_up(&buffer_wait).
brelse(t) ==
  /\ At(t, "rel")
  /\ ~Bh(t).lock
  /\ buf' = [buf EXCEPT ![task[t].bh].count = @ - 1]
  /\ task' = [u \in Tasks |->
                IF u = t THEN Idle
                ELSE IF At(u, "bufwait") THEN [task[u] EXCEPT !.pc = "find"] ELSE task[u]]
  /\ UNCHANGED <<diskFresh, spoilt>>
-----------------------------------------------------------------------------
\* The driver copies the data to the drive some time after the request.
Transfer(b) ==
  /\ buf[b].io = "write"
  /\ buf' = [buf EXCEPT ![b].io = "written"]
  /\ diskFresh' = [diskFresh EXCEPT ![buf[b].blk] = buf[b].fresh]
  /\ UNCHANGED <<task, spoilt>>

\* end_request(uptodate) from the interrupt.
end_request(b, uptodate) ==
  /\ buf[b].io \in IF uptodate THEN {"read", "written"} ELSE {"read", "write", "written"}
  /\ uptodate \/ buf[b].blk \in BadBlocks
  /\ buf' = [buf EXCEPT ![b].io = "none", ![b].lock = FALSE, ![b].uptodate = uptodate,
                        ![b].fresh = IF buf[b].io = "read" THEN uptodate /\ diskFresh[buf[b].blk] ELSE @]
  /\ spoilt' = spoilt \cup (IF ~uptodate /\ buf[b].io # "read" THEN {buf[b].blk} ELSE {})
  /\ UNCHANGED <<task, diskFresh>>

Step(t) ==
  \/ Find(t) \/ HashWait(t) \/ Pick(t)
  \/ \E b \in Buffers : SyncBuffer(t, b)
  \/ SyncQueue(t)
  \/ ReadLock(t) \/ ReadQueue(t) \/ ReadWait(t)
  \/ ModifyResumes(t) \/ Release(t) \/ brelse(t)

Next ==
  \/ \E t \in Tasks :
       \/ \E k \in Blocks : Call(t, k, NONE) \/ \E a \in Blocks \ {k} : t \in Readers /\ Call(t, k, a)
       \/ CallSync(t) \/ Step(t) \/ Modify(t) \/ ModifyFaults(t)
  \/ \E b \in Buffers : Transfer(b) \/ \E ok \in BOOLEAN : end_request(b, ok)

Spec == Init /\ [][Next]_vars

\* A task that is not waiting goes on, a buffer that is held is released some
\* time, and the driver ends every request.
Fairness ==
  /\ \A t \in Tasks : WF_vars(Step(t))
  /\ \A b \in Buffers : WF_vars(Transfer(b) \/ \E ok \in BOOLEAN : end_request(b, ok))
FairSpec == Spec /\ Fairness
-----------------------------------------------------------------------------
\* The references to buffer b: the task that works on it with a count of its
\* own, and the breada() that keeps it as its first buffer.
Owners(b) ==
  {t \in Tasks : \/ task[t].bh = b /\ task[t].pc \in {"hashwait", "rdlock", "rdq", "rdwait", "hold", "fault", "rel"}
                 \/ task[t].first = b}

\* A block is never in two buffers (buffer.c:422-430), although every getblk
\* that misses may sleep between its search and its insertion.
OneBufferPerBlock ==
  \A b, c \in Buffers : b # c /\ buf[b].blk # NONE => buf[b].blk # buf[c].blk

\* b_count is the number of references: a buffer in use is never taken for
\* unused, and none stays in use for ever ("Trying to free free buffer").
CountsAreReferences == \A b \in Buffers : buf[b].count = Cardinality(Owners(b))

\* A buffer given to another block is unused, unlocked, clean and without a
\* request (buffer.c:429-430).
ReusedBuffersAreIdle ==
  [][\A b \in Buffers : buf'[b].blk # buf[b].blk =>
       /\ buf[b].count = 0 /\ ~buf[b].lock /\ ~buf[b].dirt /\ buf[b].io = "none"]_vars

\* What a task reads is what was written last, by whomever, through whichever
\* buffer, unless the block is spoilt.
HoldersSeeLastWrite ==
  \A t \in Tasks : At(t, "hold") /\ Bh(t).blk \notin spoilt => Bh(t).uptodate /\ Bh(t).fresh

\* Nothing else is lost: the last data of a block are on the device or in a
\* valid buffer that is dirty or being written.
NoWriteLost ==
  \A k \in Blocks \ spoilt :
    \/ diskFresh[k]
    \/ \E b \in find_buffer(k) :
         buf[b].fresh /\ buf[b].uptodate /\ (buf[b].dirt \/ buf[b].io = "write")

\* The comment at b_dirt: 0 is a buffer that was not modified.  Stated of a
\* valid buffer without a request: b_data are what the device holds.
CleanMeansUnmodified ==
  \A b \in Buffers :
    buf[b].uptodate /\ ~buf[b].dirt /\ buf[b].io = "none"
      => (buf[b].fresh => diskFresh[buf[b].blk])

\* A task sleeps on buffer_wait only while another one has a buffer to
\* release, although breada() releases without a wake_up.
BufferWaitEnds ==
  \A t \in Tasks : At(t, "bufwait") =>
    \E b \in Buffers, u \in Tasks \ {t} : u \in Owners(b)

\* If the tasks stop making calls, every call that is under way comes to its
\* end: the waiting for locks, buffers and requests has no deadlock, and the
\* repetitions in getblk (buffer.c:389-428) do not go on for ever.
CallsReturn ==
  <>[][\A t \in Tasks : At(t, "idle") => task'[t].pc = "idle"]_vars
     => <>[](\A t \in Tasks : At(t, "idle"))
=============================================================================
