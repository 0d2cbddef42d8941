------------------------------- MODULE Inode --------------------------------
(***************************************************************************)
(* inode.c, and free_inode() and new_inode() of bitmap.c: the table of      *)
(* inodes in memory.  Tasks look a file up and get its inode, change it,    *)
(* put it back, create and unlink files, and sync.                          *)
(*                                                                          *)
(* Kernel code runs to the next sleep without another task in between.  It  *)
(* sleeps for the lock of an inode, in bread() of read_inode() and          *)
(* write_inode(), in truncate(), and in brelse() between a name and its     *)
(* inode.  The queue i_wait is that of WaitQueue, but lies in the inode,    *)
(* which get_empty_inode() and free_inode() clear.                          *)
(*                                                                          *)
(* One device, nothing mounted on it; its directory is the set dir of the   *)
(* numbers with an entry.                                                   *)
(***************************************************************************)
EXTENDS Naturals, FiniteSets, FiniteSetsExt

CONSTANTS
  Tasks,
  NR_INODE,   \* size of the table (64)
  Nums,       \* inode numbers of the device
  Overlaps,   \* what may overlap although the code does nothing about it: an
              \* unlink with the way of another task from the name to the
              \* inode ("name"), a sync with the end of a file ("sync")
  NULL        \* no slot, no number (i_dev = 0), nobody

ASSUME TasksAssumption == IsFiniteSet(Tasks)
ASSUME TableAssumption == NR_INODE \in Nat \ {0} /\ Nums \subseteq Nat
ASSUME NullAssumption == NULL \notin Nat /\ NULL \notin Tasks

VARIABLES
  inode,      \* inode_table[]
  imap, dir,  \* numbers in use, and with a name
  disk,       \* the inodes in the buffer cache
  held,       \* the inode a task has got
  call        \* what each task is doing

vars == <<inode, imap, dir, disk, held, call>>

Slots == 0 .. NR_INODE - 1

\* latest is a history: whether the contents include the last change made.
InodeRec == [i_num : Nums \cup {NULL}, i_count : Nat, i_dirt : BOOLEAN, i_lock : BOOLEAN,
             i_nlinks : 0 .. 1, i_wait : Tasks \cup {NULL}, latest : BOOLEAN]
Zero == [i_num |-> NULL, i_count |-> 0, i_dirt |-> FALSE, i_lock |-> FALSE,
         i_nlinks |-> 0, i_wait |-> NULL, latest |-> FALSE]

\* Where a task is: with a name but before iget(), waiting for the inode it
\* has found, in read_inode(); in iput(), in its write_inode(), in truncate();
\* in sync_inodes(), and its write_inode(); in a panic().  "asleep" is in
\* __sleep_on() for i_wait of the inode "slot", "awake" the same after a
\* wake-up.
Call == [at : {"idle", "name", "found", "read", "put", "putwrite", "truncate",
               "sync", "syncwrite", "panic"},
         nr : Nums \cup {NULL}, slot : Slots \cup {NULL}, empty : Slots \cup {NULL},
         wait : {"no", "asleep", "awake"}, tmp : Tasks \cup {NULL}]
Idle == [at |-> "idle", nr |-> NULL, slot |-> NULL, empty |-> NULL, wait |-> "no", tmp |-> NULL]

TypeOK ==
  /\ inode \in [Slots -> InodeRec]
  /\ imap \subseteq Nums /\ dir \subseteq imap
  /\ disk \in [Nums -> [i_nlinks : 0 .. 1, latest : BOOLEAN]]
  /\ held \in [Tasks -> Slots \cup {NULL}]
  /\ call \in [Tasks -> Call]

\* Every file but one exists, and no inode is in memory.
Init ==
  /\ inode = [s \in Slots |-> Zero]
  /\ imap = Nums \ {Max(Nums)} /\ dir = imap
  /\ disk = [n \in Nums |-> [i_nlinks |-> 1, latest |-> TRUE]]
  /\ held = [t \in Tasks |-> NULL]
  /\ call = [t \in Tasks |-> Idle]

At(t, l) == call[t].at = l /\ call[t].wait = "no"
Goto(t, l) == call' = [call EXCEPT ![t].at = l]
Return(t, s) == call' = [call EXCEPT ![t] = Idle] /\ held' = [held EXCEPT ![t] = s]
-----------------------------------------------------------------------------
\* wait_on_inode() and __sleep_on().

SleepOn(t) ==
  LET s == call[t].slot
  IN  /\ \E l \in {"found", "put", "sync"} : At(t, l)
      /\ inode[s].i_lock
      /\ call' = [call EXCEPT ![t].wait = "asleep", ![t].tmp = inode[s].i_wait]
      /\ inode' = [inode EXCEPT ![s].i_wait = t]
      /\ UNCHANGED <<imap, dir, disk, held>>

Woken(c, p) == [t \in Tasks |-> IF t = p /\ c[t].wait = "asleep" THEN [c[t] EXCEPT !.wait = "awake"] ELSE c[t]]

\* Behind schedule(): somebody who came later goes first; or the one before
\* is woken, and the task looks at the lock again.
Resume(t) ==
  LET s == call[t].slot
      p == inode[s].i_wait
      go == Woken(call, call[t].tmp)
  IN  /\ call[t].wait = "awake"
      /\ IF p \notin {NULL, t}
         THEN call' = Woken([call EXCEPT ![t].wait = "asleep"], p) /\ UNCHANGED inode
         ELSE IF inode[s].i_lock
         THEN /\ inode' = [inode EXCEPT ![s].i_wait = t]
              /\ call' = [go EXCEPT ![t].wait = "asleep"]
         ELSE /\ inode' = [inode EXCEPT ![s].i_wait = call[t].tmp]
              /\ call' = [go EXCEPT ![t].wait = "no", ![t].tmp = NULL]
      /\ UNCHANGED <<imap, dir, disk, held>>

Unlocked(t) == ~inode[call[t].slot].i_lock

\* write_inode(): lock_inode(), and bread() ...
WriteInode(t, l) ==
  /\ inode' = [inode EXCEPT ![call[t].slot].i_lock = TRUE]
  /\ Goto(t, l)
  /\ UNCHANGED <<imap, dir, disk, held>>

\* ... and the copy, unlock_inode().
WriteDone(t, from, to) ==
  LET s == call[t].slot
      n == inode[s].i_num
  IN  /\ At(t, from)
      /\ disk' = [disk EXCEPT ![n] = [i_nlinks |-> inode[s].i_nlinks, latest |-> inode[s].latest]]
      /\ inode' = [inode EXCEPT ![s].i_dirt = FALSE, ![s].i_lock = FALSE]
      /\ call' = Woken([call EXCEPT ![t].at = to], inode[s].i_wait)
      /\ UNCHANGED <<imap, dir, held>>
-----------------------------------------------------------------------------
\* Mutant: the scan passes over an inode that is locked.
ScanUnlocked(t, tab, e) ==
  LET nr == call[t].nr
      found == {s \in Slots : tab[s].i_num = nr /\ ~tab[s].i_lock}
  IN  IF found = {}
      THEN /\ inode' = [tab EXCEPT ![e].i_num = nr, ![e].i_lock = TRUE]
           /\ call' = [call EXCEPT ![t].at = "read", ![t].slot = e, ![t].empty = NULL]
           /\ UNCHANGED held
      ELSE LET f == Min(found)
           IN  /\ inode' = [tab EXCEPT ![f].i_count = @ + 1, ![e].i_count = @ - 1]
               /\ Return(t, f)

\* The scan of iget() over the table tab, with the empty inode e: the inode is
\* found, and locked or not, or e becomes the inode and is read.
Scan(t, tab, e) ==
  LET nr == call[t].nr
      found == {s \in Slots : tab[s].i_num = nr}
  IN  IF found = {}
      THEN /\ inode' = [tab EXCEPT ![e].i_num = nr, ![e].i_lock = TRUE]
           /\ call' = [call EXCEPT ![t].at = "read", ![t].slot = e, ![t].empty = NULL]
           /\ UNCHANGED held
      ELSE LET f == Min(found)
           IN  IF tab[f].i_lock
               THEN /\ inode' = tab
                    /\ call' = [call EXCEPT ![t].at = "found", ![t].slot = f, ![t].empty = e]
                    /\ UNCHANGED held
               ELSE /\ inode' = [tab EXCEPT ![f].i_count = @ + 1, ![e].i_count = @ - 1]
                    /\ Return(t, f)

\* The rest of new_inode(): the first free bit of the bitmap, and a name for
\* the file; without a free bit the inode is put back.
Create(t, tab, e) ==
  LET free == Nums \ imap
      n == Min(free)
  IN  IF free = {}
      THEN inode' = [tab EXCEPT ![e].i_count = @ - 1] /\ Return(t, NULL) /\ UNCHANGED <<imap, dir, disk>>
      ELSE /\ inode' = [tab EXCEPT ![e].i_num = n, ![e].i_nlinks = 1, ![e].i_dirt = TRUE, ![e].latest = TRUE]
           /\ imap' = imap \cup {n} /\ dir' = dir \cup {n}
           /\ disk' = [disk EXCEPT ![n].latest = FALSE]
           /\ Return(t, e)

\* get_empty_inode(), from wherever last_inode is.  It would wait for a lock
\* and write what is dirty, and search again if somebody has got the inode
\* meanwhile; but a free inode never is locked or dirty (CountsAreReferences).
\* Without a free one the code panics.
Free == {s \in Slots : inode[s].i_count = 0}
Emptied(s) == [inode EXCEPT ![s] = [Zero EXCEPT !.i_count = 1]]
NoneEmpty(t) == Free = {} /\ Goto(t, "panic") /\ UNCHANGED <<inode, imap, dir, disk, held>>

\* find_entry() has found a name, and its buffer is put back ...
Lookup(t, n) ==
  /\ At(t, "idle") /\ held[t] = NULL
  /\ n \in dir
  /\ call' = [call EXCEPT ![t].at = "name", ![t].nr = n]
  /\ UNCHANGED <<inode, imap, dir, disk, held>>

\* ... before iget().
iget(t) ==
  /\ At(t, "name")
  /\ \/ NoneEmpty(t)
     \/ \E s \in Free : Scan(t, Emptied(s), s) /\ UNCHANGED <<imap, dir, disk>>

new_inode(t) ==
  /\ At(t, "idle") /\ held[t] = NULL
  /\ NoneEmpty(t) \/ \E s \in Free : Create(t, Emptied(s), s)

\* Mutant: iget() does not look again after it has waited.
FoundInodeUnchecked(t) ==
  LET s == call[t].slot
  IN  /\ At(t, "found") /\ Unlocked(t)
      /\ inode' = [inode EXCEPT ![s].i_count = @ + 1, ![call[t].empty].i_count = @ - 1]
      /\ Return(t, s)
      /\ UNCHANGED <<imap, dir, disk>>

\* The inode that was found is unlocked; if it is another one now, the scan
\* starts again.
FoundInode(t) ==
  LET s == call[t].slot
  IN  /\ At(t, "found") /\ Unlocked(t)
      /\ IF inode[s].i_num = call[t].nr
         THEN /\ inode' = [inode EXCEPT ![s].i_count = @ + 1, ![call[t].empty].i_count = @ - 1]
              /\ Return(t, s)
         ELSE Scan(t, inode, call[t].empty)
      /\ UNCHANGED <<imap, dir, disk>>

\* The end of read_inode().
ReadDone(t) ==
  LET s == call[t].slot
      n == inode[s].i_num
  IN  /\ At(t, "read")
      /\ inode' = [inode EXCEPT ![s].i_nlinks = disk[n].i_nlinks, ![s].latest = disk[n].latest,
                                ![s].i_lock = FALSE]
      /\ call' = [Woken(call, inode[s].i_wait) EXCEPT ![t] = Idle]
      /\ held' = [held EXCEPT ![t] = s]
      /\ UNCHANGED <<imap, dir, disk>>
-----------------------------------------------------------------------------
\* A task that has an inode changes it, locked or not.
Modify(t) ==
  LET s == held[t]
  IN  /\ At(t, "idle") /\ s # NULL
      /\ inode' = [inode EXCEPT ![s].i_dirt = TRUE]
      /\ disk' = [disk EXCEPT ![inode[s].i_num].latest = FALSE]
      /\ UNCHANGED <<imap, dir, held, call>>

\* sys_unlink() of the last name.
Unlink(t) ==
  LET s == held[t]
      n == inode[s].i_num
  IN  /\ At(t, "idle") /\ s # NULL
      /\ n \in dir
      /\ "name" \in Overlaps \/ \A u \in Tasks : call[u].nr # n
      /\ dir' = dir \ {n}
      /\ inode' = [inode EXCEPT ![s].i_nlinks = 0, ![s].i_dirt = TRUE]
      /\ disk' = [disk EXCEPT ![n].latest = FALSE]
      /\ UNCHANGED <<imap, held, call>>

iput(t) ==
  /\ At(t, "idle") /\ held[t] # NULL
  /\ call' = [call EXCEPT ![t].at = "put", ![t].slot = held[t]]
  /\ held' = [held EXCEPT ![t] = NULL]
  /\ UNCHANGED <<inode, imap, dir, disk>>

\* Mutant: iput() does not repeat its test after write_inode().
PutInodeOnce(t) ==
  LET s == call[t].slot
  IN  /\ At(t, "put") /\ Unlocked(t)
      /\ inode' = [inode EXCEPT ![s].i_count = 0]
      /\ Return(t, NULL)
      /\ UNCHANGED <<imap, dir, disk>>

\* iput() from "repeat" on: somebody else has it, its last name is gone, it
\* has to be written first, or it is only given back.
PutInode(t) ==
  LET s == call[t].slot
      i == inode[s]
  IN  /\ At(t, "put") /\ Unlocked(t)
      /\ \/ i.i_count = 0 /\ Goto(t, "panic") /\ UNCHANGED <<inode, imap, dir, disk, held>>
         \/ /\ i.i_count = 1 /\ i.i_nlinks = 0
            /\ Goto(t, "truncate")
            /\ UNCHANGED <<inode, imap, dir, disk, held>>
         \/ i.i_count = 1 /\ i.i_nlinks > 0 /\ i.i_dirt /\ WriteInode(t, "putwrite")
         \/ /\ i.i_count > 1 \/ (i.i_count = 1 /\ i.i_nlinks > 0 /\ ~i.i_dirt)
            /\ inode' = [inode EXCEPT ![s].i_count = @ - 1]
            /\ Return(t, NULL)
            /\ UNCHANGED <<imap, dir, disk>>

\* The end of truncate(), and free_inode().
FreeInode(t) ==
  LET s == call[t].slot
      n == inode[s].i_num
  IN  /\ At(t, "truncate")
      /\ \/ /\ inode[s].i_count > 1
            /\ Goto(t, "panic")
            /\ UNCHANGED <<inode, imap, dir, disk, held>>
         \/ /\ inode[s].i_count = 1
            /\ imap' = imap \ {n}
            /\ disk' = [disk EXCEPT ![n].latest = TRUE]
            /\ inode' = [inode EXCEPT ![s] = Zero]
            /\ Return(t, NULL)
            /\ UNCHANGED dir
-----------------------------------------------------------------------------
\* sync_inodes() goes through the table.
sync_inodes(t) ==
  /\ At(t, "idle")
  /\ call' = [call EXCEPT ![t].at = "sync", ![t].slot = 0]
  /\ UNCHANGED <<inode, imap, dir, disk, held>>

SyncInode(t) ==
  LET s == call[t].slot
  IN  /\ At(t, "sync") /\ Unlocked(t)
      /\ \/ /\ inode[s].i_dirt
            /\ "sync" \in Overlaps \/ \A u \in Tasks : call[u].at = "truncate" => call[u].slot # s
            /\ WriteInode(t, "syncwrite")
         \/ /\ ~inode[s].i_dirt
            /\ call' = [call EXCEPT ![t] = IF s = NR_INODE - 1 THEN Idle ELSE [@ EXCEPT !.slot = s + 1]]
            /\ UNCHANGED <<inode, imap, dir, disk, held>>
-----------------------------------------------------------------------------
Step(t) ==
  \/ SleepOn(t) \/ Resume(t)
  \/ iget(t) \/ FoundInode(t) \/ ReadDone(t)
  \/ PutInode(t) \/ FreeInode(t) \/ SyncInode(t)
  \/ WriteDone(t, "putwrite", "put") \/ WriteDone(t, "syncwrite", "sync")

Next ==
  \E t \in Tasks :
    \/ Step(t)
    \/ \E n \in Nums : Lookup(t, n)
    \/ new_inode(t) \/ Modify(t) \/ Unlink(t) \/ iput(t) \/ sync_inodes(t)

Spec == Init /\ [][Next]_vars
-----------------------------------------------------------------------------
\* iget() never makes a second inode for a number: the scan and the new
\* identity are not separated by a sleep, and what was found is looked at
\* again after each one.
OneInodePerNumber ==
  \A s, u \in Slots : inode[s].i_num = inode[u].i_num /\ s # u => inode[s].i_num = NULL

\* The references that tasks have, or will have when a call goes on.
References(s) ==
  Cardinality({t \in Tasks : held[t] = s})
  + Cardinality({t \in Tasks : call[t].empty = s})
  + Cardinality({t \in Tasks : call[t].slot = s /\
                   call[t].at \in {"read", "put", "putwrite", "truncate"}})

\* i_count is exact, with every way out of iget() and iput() and through all
\* their repetitions: nothing is given away that somebody has got, and neither
\* free_inode() ("trying to free inode with count=") nor iput() ("iput: trying
\* to free free inode") panics.  And an inode that nobody has is written and
\* not locked, so that get_empty_inode() takes it at once.
CountsAreReferences ==
  /\ \A t \in Tasks : call[t].at # "panic"
  /\ \A s \in Slots :
       /\ inode[s].i_count = References(s)
       /\ inode[s].i_count = 0 => ~inode[s].i_dirt /\ ~inode[s].i_lock

\* Whoever has an inode sees the last change, and a change is in the buffer
\* cache or in an inode that is still to be written.
ChangesSurvive ==
  /\ \A t \in Tasks : held[t] # NULL => inode[held[t]].latest
  /\ \A n \in imap :
       disk[n].latest \/ \E s \in Slots : inode[s].i_num = n /\ inode[s].latest /\ inode[s].i_dirt
-----------------------------------------------------------------------------
\* The comment at unlock_inode(): it wakes all the processes that wait in the
\* queue i_wait of the inode.
NoWaiterForgotten ==
  \A t \in Tasks :
    call[t].wait = "asleep" =>
      \/ inode[call[t].slot].i_lock
      \/ \E u \in Tasks : call[u].wait = "awake" /\ call[u].slot = call[t].slot
=============================================================================
