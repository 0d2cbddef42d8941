---------------------------- MODULE InodeProofs ----------------------------
(***************************************************************************)
(* The table of inodes, for every number of tasks, slots and files, when    *)
(* neither an unlink nor a sync overlaps with what the code leaves          *)
(* unprotected (Overlaps = {}).                                             *)
(*                                                                          *)
(* A task refers to at most one slot (RefOf), by the inode it has got or by *)
(* the call it is in, and i_count counts the tasks that refer to the slot.  *)
(* Three of these references are exclusive: the empty inode of iget() while *)
(* it waits for another one, the inode that is being read, and the one that *)
(* is being truncated.  That no second task comes to them depends on the    *)
(* locks and on the names: what iget() is called for has a name, and what   *)
(* is truncated has none.                                                   *)
(***************************************************************************)
EXTENDS Inode, FiniteSetTheorems, WellFoundedInduction, TLAPS

RefOf(t) ==
  IF held[t] # NULL THEN held[t]
  ELSE IF call[t].at = "found" THEN call[t].empty
  ELSE IF call[t].at \in {"read", "put", "putwrite", "truncate"} THEN call[t].slot
  ELSE NULL
Refs(s) == {t \in Tasks : RefOf(t) = s}
Sole(t, s) == \A u \in Tasks : RefOf(u) = s => u = t
Reading(s) == \E t \in Tasks : call[t].at = "read" /\ call[t].slot = s
Locks(t, s) == call[t].at \in {"read", "putwrite", "syncwrite"} /\ call[t].slot = s

\* What a call is about.
Shape(t) ==
  /\ held[t] # NULL => call[t].at \in {"idle", "sync", "syncwrite"}
  /\ call[t].wait # "no" => call[t].at \in {"found", "put", "sync"}
  /\ call[t].nr # NULL => call[t].nr \in dir
  /\ call[t].at \in {"name", "found", "read"} => call[t].nr # NULL
  /\ call[t].at \in {"found", "read", "put", "putwrite", "truncate", "sync", "syncwrite"}
       => call[t].slot \in Slots
  /\ call[t].at = "found" <=> call[t].empty # NULL

\* What a task may rely on of the slot it refers to.
RefOK(t) ==
  /\ RefOf(t) # NULL /\ call[t].at # "found" => inode[RefOf(t)].i_num # NULL
  /\ call[t].at = "found" => inode[call[t].empty].i_num = NULL
  /\ call[t].at \in {"found", "read", "truncate"} => Sole(t, RefOf(t))
  /\ call[t].at = "read" =>
       inode[call[t].slot].i_num = call[t].nr /\ ~inode[call[t].slot].i_dirt
  /\ call[t].at = "truncate" =>
       ~inode[call[t].slot].i_lock /\ inode[call[t].slot].i_nlinks = 0

\* The lock of an inode is that of one task.
LockOK(s) ==
  /\ inode[s].i_lock <=> \E t \in Tasks : Locks(t, s)
  /\ \A t, u \in Tasks : Locks(t, s) /\ Locks(u, s) => t = u

\* The inode on the disk is as the last change has left it.
OnDisk(n) == disk[n].latest /\ (disk[n].i_nlinks = 1 <=> n \in dir)

SlotOK(s) ==
  /\ inode[s].i_num = NULL => ~inode[s].i_dirt /\ ~inode[s].i_lock
  /\ inode[s].i_num # NULL => inode[s].i_num \in imap
  /\ inode[s].i_count = 0 => ~inode[s].i_dirt /\ ~inode[s].i_lock
  /\ inode[s].i_count = 0 /\ inode[s].i_num # NULL => inode[s].i_num \in dir
  /\ inode[s].i_num # NULL /\ ~Reading(s) =>
       inode[s].latest /\ (inode[s].i_nlinks = 1 <=> inode[s].i_num \in dir)
  /\ inode[s].i_num # NULL /\ ~inode[s].i_dirt => OnDisk(inode[s].i_num)

CountOK(s) == inode[s].i_count = Cardinality(Refs(s))

\* A file whose inode is not in memory.
NumOK(n) == (\A s \in Slots : inode[s].i_num # n) => n \in dir /\ OnDisk(n)

\* The inductive invariant.
IInv ==
  /\ TypeOK
  /\ \A t \in Tasks : Shape(t)
  /\ \A t \in Tasks : RefOK(t)
  /\ \A s \in Slots : LockOK(s)
  /\ \A s \in Slots : SlotOK(s)
  /\ \A s \in Slots : CountOK(s)
  /\ \A n \in imap : NumOK(n)
  /\ OneInodePerNumber
-----------------------------------------------------------------------------
(* Sets.                                                                   *)

\* A nonempty set of naturals has a least element, which Min() finds.
LEMMA MinIsLeast ==
  ASSUME NEW T \in SUBSET Nat, T # {}
  PROVE  Min(T) \in T
<1>1. PICK x \in T : \A y \in T : <<y, x>> \notin OpToRel(<, Nat)
  BY NatLessThanWellFounded, WFMin
<1>2. \A y \in T : ~ (y < x)
  BY <1>1 DEF OpToRel
<1>3. \A y \in T : x <= y
  BY <1>2
<1> QED
  BY <1>3 DEF Min

\* The tasks that refer to a slot can be counted, and one more or one fewer
\* is one more or one fewer.
LEMMA CountRefs ==
  ASSUME NEW R \in SUBSET Tasks
  PROVE  /\ Cardinality(R) \in Nat
         /\ Cardinality(R) = 0 <=> R = {}
         /\ \A t \in Tasks : t \notin R => Cardinality(R \cup {t}) = Cardinality(R) + 1
         /\ \A t \in R : Cardinality(R \ {t}) = Cardinality(R) - 1
         /\ \A t : R = {t} => Cardinality(R) = 1
<1>1. IsFiniteSet(R)
  BY TasksAssumption, FS_Subset
<1>2. Cardinality(R) \in Nat
  BY <1>1, FS_CardinalityType
<1>3. Cardinality(R) = 0 <=> R = {}
  BY <1>1, FS_EmptySet
<1>4. \A t \in Tasks : t \notin R => Cardinality(R \cup {t}) = Cardinality(R) + 1
  BY <1>1, FS_AddElement
<1>5. \A t \in R : Cardinality(R \ {t}) = Cardinality(R) - 1
  BY <1>1, FS_RemoveElement
<1>6. \A t : R = {t} => Cardinality(R) = 1
  BY FS_Singleton
<1> QED
  BY <1>2, <1>3, <1>4, <1>5, <1>6

\* With one reference that is counted, there is no other.
LEMMA OneRef ==
  ASSUME NEW R \in SUBSET Tasks, Cardinality(R) = 1, NEW t \in R
  PROVE  R = {t}
<1>1. PICK x : R = {x}
  BY TasksAssumption, FS_Subset, FS_Singleton
<1> QED
  BY <1>1

LEMMA IdleCall ==
  /\ Idle \in Call /\ Idle.at = "idle" /\ Idle.nr = NULL /\ Idle.slot = NULL
  /\ Idle.empty = NULL /\ Idle.wait = "no"
BY DEF Idle, Call

LEMMA ZeroInode ==
  /\ Zero \in InodeRec /\ Zero.i_num = NULL /\ Zero.i_count = 0
  /\ Zero.i_dirt = FALSE /\ Zero.i_lock = FALSE
BY DEF Zero, InodeRec

LEMMA InitOK == Init => IInv
<1> SUFFICES ASSUME Init
             PROVE  IInv
  OBVIOUS
<1>1. /\ inode = [s \in Slots |-> Zero] /\ held = [t \in Tasks |-> NULL]
      /\ call = [t \in Tasks |-> Idle] /\ imap \subseteq Nums /\ dir = imap
      /\ disk = [n \in Nums |-> [i_nlinks |-> 1, latest |-> TRUE]]
  BY DEF Init
<1>2. TypeOK
  <2>1. inode \in [Slots -> InodeRec] /\ call \in [Tasks -> Call]
    BY <1>1, IdleCall, ZeroInode
  <2>2. disk \in [Nums -> [i_nlinks : 0 .. 1, latest : BOOLEAN]]
    BY <1>1
  <2> QED
    BY <2>1, <2>2, <1>1 DEF TypeOK
<1>3. \A t \in Tasks : held[t] = NULL /\ call[t] = Idle
  BY <1>1
<1>4. \A s \in Slots : inode[s] = Zero
  BY <1>1
<1>5. \A t \in Tasks : RefOf(t) = NULL /\ Shape(t)
  BY <1>3, IdleCall DEF RefOf, Shape
<1>6. \A t \in Tasks : RefOK(t)
  BY <1>3, <1>5, IdleCall DEF RefOK
<1>7. NULL \notin Slots
  BY NullAssumption, TableAssumption DEF Slots
<1>8. \A s \in Slots : Refs(s) = {} /\ \A t \in Tasks : ~Locks(t, s)
  BY <1>3, <1>5, <1>7, IdleCall DEF Refs, Locks
<1>9. \A s \in Slots : LockOK(s) /\ SlotOK(s)
  BY <1>4, <1>8, ZeroInode DEF LockOK, SlotOK
<1>10. \A s \in Slots : CountOK(s)
  BY <1>4, <1>8, ZeroInode, FS_EmptySet DEF CountOK
<1>11. \A n \in imap : NumOK(n)
  BY <1>1 DEF NumOK, OnDisk
<1>12. OneInodePerNumber
  BY <1>4, ZeroInode DEF OneInodePerNumber
<1> QED
  BY <1>2, <1>5, <1>6, <1>9, <1>10, <1>11, <1>12 DEF IInv

-----------------------------------------------------------------------------
(* A step of task t, as the others see it.                                 *)

\* A task is where it was; it may have been woken.
SameCall(u) ==
  /\ call'[u].at = call[u].at /\ call'[u].nr = call[u].nr
  /\ call'[u].slot = call[u].slot /\ call'[u].empty = call[u].empty
  /\ call'[u].wait # "no" => call[u].wait # "no"
  /\ held'[u] = held[u]
OthersWait(t) == \A u \in Tasks : u # t => SameCall(u)

\* An inode is as it was; its queue may have changed.
SameInode(s) ==
  /\ inode'[s].i_num = inode[s].i_num /\ inode'[s].i_count = inode[s].i_count
  /\ inode'[s].i_dirt = inode[s].i_dirt /\ inode'[s].i_lock = inode[s].i_lock
  /\ inode'[s].i_nlinks = inode[s].i_nlinks /\ inode'[s].latest = inode[s].latest

LEMMA SameRefs ==
  ASSUME NEW u, SameCall(u)
  PROVE  RefOf(u)' = RefOf(u) /\ \A s \in Slots : Locks(u, s)' <=> Locks(u, s)
BY DEF SameCall, RefOf, Locks

LEMMA SameShape ==
  ASSUME NEW u \in Tasks, SameCall(u), Shape(u), call[u].nr # NULL => call[u].nr \in dir'
  PROVE  Shape(u)'
BY DEF SameCall, Shape

\* The reference of another task is as good as before if the slot keeps its
\* number, and what the task may rely on, and t does not come to it.
LEMMA RefStaysOK ==
  ASSUME NEW t \in Tasks, OthersWait(t),
         NEW u \in Tasks, u # t, Shape(u), RefOK(u),
         NEW s, s = RefOf(u),
         s # NULL =>
           /\ inode'[s].i_num = inode[s].i_num
           /\ call[u].at = "read" => ~inode'[s].i_dirt
           /\ call[u].at = "truncate" => ~inode'[s].i_lock /\ inode'[s].i_nlinks = 0
           /\ call[u].at \in {"found", "read", "truncate"} => RefOf(t)' # s,
         NULL \notin Slots
  PROVE  RefOK(u)'
<1>1. SameCall(u) /\ RefOf(u)' = s
  BY SameRefs DEF OthersWait
<1>2. call[u].at = "found" => s = call[u].empty /\ s # NULL
  BY DEF Shape, RefOf
<1>3. call[u].at \in {"read", "truncate"} => s = call[u].slot /\ s # NULL
  BY DEF Shape, RefOf
<1>4. ASSUME call[u].at \in {"found", "read", "truncate"}
      PROVE  Sole(u, s)'
  <2>1. Sole(u, s) /\ RefOf(t)' # s
    BY <1>2, <1>3, <1>4 DEF RefOK
  <2>2. \A v \in Tasks : v # t => RefOf(v)' = RefOf(v)
    BY SameRefs DEF OthersWait
  <2>3. \A v \in Tasks : RefOf(v)' = s => v = u
    BY <2>1, <2>2 DEF Sole
  <2>4. s' = s
    OBVIOUS
  <2> QED
    BY <2>3, <2>4 DEF Sole
<1>5. s # NULL /\ call[u].at # "found" => inode'[s].i_num # NULL
  BY DEF RefOK
<1>6. call[u].at = "found" => inode'[call[u].empty].i_num = NULL
  BY <1>2 DEF RefOK
<1>7. call[u].at = "read" => inode'[call[u].slot].i_num = call[u].nr /\ ~inode'[call[u].slot].i_dirt
  BY <1>3 DEF RefOK
<1>8. call[u].at = "truncate" =>
        ~inode'[call[u].slot].i_lock /\ inode'[call[u].slot].i_nlinks = 0
  BY <1>3
<1> QED
  BY <1>1, <1>4, <1>5, <1>6, <1>7, <1>8 DEF RefOK, SameCall

\* A slot that is not touched.
LEMMA SlotStaysOK ==
  ASSUME NEW s \in Slots, SlotOK(s), SameInode(s),
         Reading(s)' <=> Reading(s),
         inode[s].i_num # NULL =>
           /\ inode[s].i_num \in imap'
           /\ inode[s].i_num \in dir' <=> inode[s].i_num \in dir
           /\ disk'[inode[s].i_num] = disk[inode[s].i_num]
  PROVE  SlotOK(s)'
BY DEF SlotOK, SameInode, OnDisk

\* The locks that t takes and gives back are those of the slots.
LEMMA LocksMove ==
  ASSUME NEW t \in Tasks, OthersWait(t), NEW s \in Slots, LockOK(s),
         \/ (inode'[s].i_lock <=> inode[s].i_lock) /\ (Locks(t, s)' <=> Locks(t, s))
         \/ ~inode[s].i_lock /\ inode'[s].i_lock /\ Locks(t, s)'
         \/ Locks(t, s) /\ ~Locks(t, s)' /\ ~inode'[s].i_lock
  PROVE  LockOK(s)'
<1>1. \A u \in Tasks : u # t => (Locks(u, s)' <=> Locks(u, s))
  BY SameRefs DEF OthersWait
<1>2. /\ inode[s].i_lock <=> \E u \in Tasks : Locks(u, s)
      /\ \A u, v \in Tasks : Locks(u, s) /\ Locks(v, s) => u = v
  BY DEF LockOK
<1> SUFFICES /\ inode'[s].i_lock <=> \E u \in Tasks : Locks(u, s)'
             /\ \A u, v \in Tasks : Locks(u, s)' /\ Locks(v, s)' => u = v
  BY Zenon DEF LockOK
<1>3. CASE (inode'[s].i_lock <=> inode[s].i_lock) /\ (Locks(t, s)' <=> Locks(t, s))
  BY <1>1, <1>2, <1>3
<1>4. CASE ~inode[s].i_lock /\ inode'[s].i_lock /\ Locks(t, s)'
  BY <1>1, <1>2, <1>4
<1>5. CASE Locks(t, s) /\ ~Locks(t, s)' /\ ~inode'[s].i_lock
  BY <1>1, <1>2, <1>5
<1> QED
  BY <1>3, <1>4, <1>5

\* Reading is said of slots that t does not read.
LEMMA SameReading ==
  ASSUME NEW t \in Tasks, OthersWait(t), NEW s \in Slots,
         (call'[t].at = "read" /\ call'[t].slot = s) <=> (call[t].at = "read" /\ call[t].slot = s)
  PROVE  Reading(s)' <=> Reading(s)
BY DEF Reading, OthersWait, SameCall

\* The counts follow the reference of t.
LEMMA CountsMove ==
  ASSUME NEW t \in Tasks, OthersWait(t), NEW s \in Slots, CountOK(s),
         \/ (RefOf(t)' = s <=> RefOf(t) = s) /\ inode'[s].i_count = inode[s].i_count
         \/ RefOf(t)' = s /\ RefOf(t) # s /\ inode'[s].i_count = inode[s].i_count + 1
         \/ RefOf(t)' # s /\ RefOf(t) = s /\ inode'[s].i_count = inode[s].i_count - 1
  PROVE  CountOK(s)'
<1>1. \A u \in Tasks : u # t => RefOf(u)' = RefOf(u)
  BY SameRefs DEF OthersWait
<1>2. Refs(s) \in SUBSET Tasks /\ (t \in Refs(s) <=> RefOf(t) = s)
  BY DEF Refs
<1>3. CASE (RefOf(t)' = s <=> RefOf(t) = s) /\ inode'[s].i_count = inode[s].i_count
  <2>1. Refs(s)' = Refs(s)
    BY <1>1, <1>3 DEF Refs
  <2> QED
    BY <2>1, <1>3 DEF CountOK
<1>4. CASE RefOf(t)' = s /\ RefOf(t) # s /\ inode'[s].i_count = inode[s].i_count + 1
  <2>1. Refs(s)' = Refs(s) \cup {t} /\ t \notin Refs(s)
    BY <1>1, <1>4 DEF Refs
  <2>2. Cardinality(Refs(s)') = Cardinality(Refs(s)) + 1
    BY <2>1, <1>2, CountRefs
  <2> QED
    BY <2>2, <1>4 DEF CountOK
<1>5. CASE RefOf(t)' # s /\ RefOf(t) = s /\ inode'[s].i_count = inode[s].i_count - 1
  <2>1. Refs(s)' = Refs(s) \ {t} /\ t \in Refs(s)
    BY <1>1, <1>5 DEF Refs
  <2>2. Cardinality(Refs(s)') = Cardinality(Refs(s)) - 1
    BY <2>1, <1>2, CountRefs
  <2> QED
    BY <2>2, <1>5 DEF CountOK
<1> QED
  BY <1>3, <1>4, <1>5

-----------------------------------------------------------------------------
(* Steps that change no inode, or only its queue.                          *)

LEMMA NullIsNone == NULL \notin Slots /\ NULL \notin Nums /\ 0 \in Slots
<1>1. NULL \notin Slots
  BY NullAssumption DEF Slots
<1>2. NULL \notin Nums
  <2>1. Nums \subseteq Nat /\ NULL \notin Nat
    BY NullAssumption, TableAssumption
  <2> QED
    BY <2>1, Zenon
<1>3. 0 \in Slots
  BY TableAssumption DEF Slots
<1> QED
  BY <1>1, <1>2, <1>3

\* The table of calls with another one for t.
LEMMA NewCall ==
  ASSUME TypeOK, NEW t \in Tasks, NEW c \in Call, call' = [call EXCEPT ![t] = c]
  PROVE  /\ call' \in [Tasks -> Call] /\ call'[t] = c
         /\ \A u \in Tasks : u # t => call'[u] = call[u]
BY DEF TypeOK

\* __wake_up() only wakes.
LEMMA WokenSame ==
  ASSUME NEW c \in [Tasks -> Call], NEW p
  PROVE  /\ Woken(c, p) \in [Tasks -> Call]
         /\ \A u \in Tasks :
              /\ Woken(c, p)[u].at = c[u].at /\ Woken(c, p)[u].nr = c[u].nr
              /\ Woken(c, p)[u].slot = c[u].slot /\ Woken(c, p)[u].empty = c[u].empty
              /\ Woken(c, p)[u].wait # "no" => c[u].wait # "no"
<1>1. ASSUME NEW u \in Tasks
      PROVE  /\ Woken(c, p)[u] \in Call
             /\ Woken(c, p)[u].at = c[u].at /\ Woken(c, p)[u].nr = c[u].nr
             /\ Woken(c, p)[u].slot = c[u].slot /\ Woken(c, p)[u].empty = c[u].empty
             /\ Woken(c, p)[u].wait # "no" => c[u].wait # "no"
  <2>1. PICK d : d = [c[u] EXCEPT !.wait = "awake"]
    OBVIOUS
  <2>2. c[u] \in Call
    OBVIOUS
  <2>3. d \in Call /\ d.at = c[u].at /\ d.nr = c[u].nr /\ d.slot = c[u].slot /\ d.empty = c[u].empty
    BY <2>1, <2>2 DEF Call
  <2>4. Woken(c, p)[u] = IF u = p /\ c[u].wait = "asleep" THEN d ELSE c[u]
    BY <2>1 DEF Woken
  <2>5. CASE u = p /\ c[u].wait = "asleep"
    BY <2>3, <2>4, <2>5
  <2>6. CASE ~(u = p /\ c[u].wait = "asleep")
    BY <2>2, <2>4, <2>6
  <2> QED
    BY <2>5, <2>6
<1>2. Woken(c, p) = [u \in Tasks |-> Woken(c, p)[u]]
  BY DEF Woken
<1>3. Woken(c, p) \in [Tasks -> Call]
  BY <1>1, <1>2
<1> QED
  BY <1>1, <1>3

\* t goes from one call to another with the reference it has.
LEMMA Moves ==
  ASSUME IInv, TypeOK', NEW t \in Tasks,
         UNCHANGED <<imap, dir, disk>>, \A s \in Slots : SameInode(s),
         OthersWait(t), RefOf(t)' = RefOf(t),
         \A s \in Slots : Locks(t, s)' <=> Locks(t, s),
         call[t].at # "read", call'[t].at # "read",
         Shape(t)', RefOK(t)'
  PROVE  IInv'
<1>1. \A u \in Tasks : u # t => SameCall(u) /\ RefOf(u)' = RefOf(u)
  BY SameRefs DEF OthersWait
<1>2. ASSUME NEW u \in Tasks
      PROVE  Shape(u)'
  BY <1>1, SameShape DEF IInv, Shape
<1>3. ASSUME NEW u \in Tasks, u # t
      PROVE  RefOK(u)'
  <2>1. RefOK(u) /\ Shape(u) /\ RefOf(u)' = RefOf(u) /\ SameCall(u)
    BY <1>1, <1>3 DEF IInv
  <2>2. \A v \in Tasks : RefOf(v)' = RefOf(v)
    BY <1>1
  <2>3. Sole(u, RefOf(u)) => Sole(u, RefOf(u))'
    BY <2>2 DEF Sole
  <2>4. RefOf(u) # NULL => RefOf(u) \in Slots
    BY <2>1 DEF RefOf, Shape, IInv, TypeOK, Call
  <2>5. call[u].at = "found" => call[u].empty \in Slots
    BY <2>1 DEF Shape, IInv, TypeOK, Call
  <2>6. call[u].at \in {"read", "truncate"} => call[u].slot \in Slots
    BY <2>1 DEF Shape
  <2> QED
    BY <2>1, <2>3, <2>4, <2>5, <2>6 DEF RefOK, SameCall, SameInode
<1>4. ASSUME NEW s \in Slots
      PROVE  LockOK(s)' /\ SlotOK(s)' /\ CountOK(s)'
  <2>1. LockOK(s) /\ SlotOK(s) /\ CountOK(s) /\ SameInode(s)
    BY DEF IInv
  <2>2. Reading(s)' <=> Reading(s)
    BY SameReading
  <2>3. SlotOK(s)'
    BY <2>1, <2>2 DEF SlotOK, SameInode, OnDisk
  <2>4. LockOK(s)'
    BY <2>1, LocksMove DEF SameInode
  <2>5. CountOK(s)'
    BY <2>1, CountsMove DEF SameInode
  <2> QED
    BY <2>3, <2>4, <2>5
<1>5. ASSUME NEW n \in imap
      PROVE  NumOK(n)'
  BY DEF IInv, NumOK, OnDisk, SameInode
<1>6. OneInodePerNumber'
  BY DEF IInv, OneInodePerNumber, SameInode
<1> QED
  BY <1>2, <1>3, <1>4, <1>5, <1>6 DEF IInv

\* The same, where it even stays in its call and only waits.
LEMMA Waits ==
  ASSUME IInv, TypeOK', NEW t \in Tasks,
         UNCHANGED <<imap, dir, disk, held>>, \A s \in Slots : SameInode(s),
         OthersWait(t),
         call'[t].at = call[t].at, call'[t].nr = call[t].nr,
         call'[t].slot = call[t].slot, call'[t].empty = call[t].empty,
         call[t].at \in {"found", "put", "sync"}
  PROVE  IInv'
<1>1. RefOf(t)' = RefOf(t) /\ \A s \in Slots : Locks(t, s)' <=> Locks(t, s)
  BY DEF RefOf, Locks
<1>2. Shape(t)'
  BY DEF IInv, Shape
<1>3. \A u \in Tasks : RefOf(u)' = RefOf(u)
  BY <1>1, SameRefs DEF OthersWait
<1>4. RefOK(t)'
  <2>1. RefOK(t) /\ Shape(t)
    BY DEF IInv
  <2>2. Sole(t, RefOf(t)) => Sole(t, RefOf(t))'
    BY <1>3 DEF Sole
  <2>3. RefOf(t) # NULL => RefOf(t) \in Slots
    BY <2>1 DEF RefOf, Shape, IInv, TypeOK, Call
  <2>4. call[t].at = "found" => call[t].empty \in Slots
    BY <2>1 DEF Shape, IInv, TypeOK, Call
  <2> QED
    BY <1>1, <2>1, <2>2, <2>3, <2>4 DEF RefOK, SameInode
<1> QED
  BY <1>1, <1>2, <1>4, Moves

\* A change of the queue of an inode.
LEMMA QueueChanges ==
  ASSUME TypeOK, NEW s \in Slots, NEW p \in Tasks \cup {NULL},
         inode' = [inode EXCEPT ![s].i_wait = p]
  PROVE  inode' \in [Slots -> InodeRec] /\ \A u \in Slots : SameInode(u)
<1>1. PICK i : i = [inode[s] EXCEPT !.i_wait = p]
  OBVIOUS
<1>2. inode[s] \in InodeRec /\ inode \in [Slots -> InodeRec]
  BY DEF TypeOK
<1>3. i \in InodeRec
  BY <1>1, <1>2 DEF InodeRec
<1>4. i.i_num = inode[s].i_num /\ i.i_count = inode[s].i_count /\ i.i_dirt = inode[s].i_dirt
      /\ i.i_lock = inode[s].i_lock /\ i.i_nlinks = inode[s].i_nlinks /\ i.latest = inode[s].latest
  BY <1>1, <1>2 DEF InodeRec
<1>5. inode' = [inode EXCEPT ![s] = i]
  BY <1>1
<1> QED
  BY <1>2, <1>3, <1>4, <1>5 DEF SameInode

LEMMA SleepOnOK ==
  ASSUME IInv, NEW t \in Tasks, SleepOn(t)
  PROVE  IInv'
<1>1. TypeOK /\ call[t] \in Call /\ Shape(t) /\ call[t].at \in {"found", "put", "sync"}
      /\ UNCHANGED <<imap, dir, disk, held>>
  BY DEF IInv, TypeOK, SleepOn, At
<1>2. PICK s \in Slots : s = call[t].slot
  BY <1>1 DEF Shape
<1>3. inode' \in [Slots -> InodeRec] /\ \A u \in Slots : SameInode(u)
  BY <1>1, <1>2, QueueChanges DEF SleepOn
<1>4. inode[s].i_wait \in Tasks \cup {NULL}
  BY <1>1 DEF TypeOK, InodeRec
<1>5. PICK c : c = [call[t] EXCEPT !.wait = "asleep", !.tmp = inode[s].i_wait]
  OBVIOUS
<1>6. c \in Call /\ c.at = call[t].at /\ c.nr = call[t].nr /\ c.slot = call[t].slot
      /\ c.empty = call[t].empty
  BY <1>1, <1>4, <1>5 DEF Call
<1>7. call' = [call EXCEPT ![t] = c]
  BY <1>2, <1>5 DEF SleepOn
<1>8. call' \in [Tasks -> Call] /\ call'[t] = c /\ \A u \in Tasks : u # t => call'[u] = call[u]
  BY <1>1, <1>6, <1>7, NewCall
<1>9. TypeOK' /\ OthersWait(t)
  BY <1>1, <1>3, <1>8 DEF TypeOK, OthersWait, SameCall
<1> QED
  BY <1>1, <1>3, <1>6, <1>8, <1>9, Waits

\* The calls d are those there are, but for what waits and wakes.
Alike(d, t) ==
  \A u \in Tasks :
    /\ d[u].at = call[u].at /\ d[u].nr = call[u].nr
    /\ d[u].slot = call[u].slot /\ d[u].empty = call[u].empty
    /\ u # t /\ d[u].wait # "no" => call[u].wait # "no"

LEMMA SetWait ==
  ASSUME NEW t \in Tasks, NEW d \in [Tasks -> Call], Alike(d, t),
         NEW w \in {"no", "asleep"}, NEW x \in Tasks \cup {NULL},
         NEW g, g = [d EXCEPT ![t] = [d[t] EXCEPT !.wait = w, !.tmp = x]]
  PROVE  g \in [Tasks -> Call] /\ Alike(g, t)
<1>1. PICK c : c = [d[t] EXCEPT !.wait = w, !.tmp = x]
  OBVIOUS
<1>2. d[t] \in Call
  OBVIOUS
<1>3. c \in Call /\ c.at = d[t].at /\ c.nr = d[t].nr /\ c.slot = d[t].slot /\ c.empty = d[t].empty
  BY <1>1, <1>2 DEF Call
<1>4. g = [d EXCEPT ![t] = c]
  BY <1>1
<1>5. g \in [Tasks -> Call] /\ g[t] = c /\ \A u \in Tasks : u # t => g[u] = d[u]
  BY <1>3, <1>4
<1> QED
  BY <1>3, <1>5 DEF Alike

LEMMA WokenAlike ==
  ASSUME NEW t \in Tasks, NEW d \in [Tasks -> Call], Alike(d, t), NEW p
  PROVE  Woken(d, p) \in [Tasks -> Call] /\ Alike(Woken(d, p), t)
<1>1. PICK g : g = Woken(d, p)
  OBVIOUS
<1>2. /\ g \in [Tasks -> Call]
      /\ \A u \in Tasks :
           /\ g[u].at = d[u].at /\ g[u].nr = d[u].nr
           /\ g[u].slot = d[u].slot /\ g[u].empty = d[u].empty
           /\ g[u].wait # "no" => d[u].wait # "no"
  BY <1>1, WokenSame
<1> QED
  BY <1>1, <1>2 DEF Alike

LEMMA ResumeOK ==
  ASSUME IInv, NEW t \in Tasks, Resume(t)
  PROVE  IInv'
<1>1. TypeOK /\ call[t] \in Call /\ Shape(t) /\ call[t].at \in {"found", "put", "sync"}
      /\ call \in [Tasks -> Call] /\ UNCHANGED <<imap, dir, disk, held>>
  BY DEF IInv, TypeOK, Resume, Shape
<1>2. PICK s \in Slots : s = call[t].slot
  BY <1>1 DEF Shape
<1>3. inode[s].i_wait \in Tasks \cup {NULL} /\ call[t].tmp \in Tasks \cup {NULL} /\ Alike(call, t)
  BY <1>1 DEF TypeOK, InodeRec, Call, Alike
<1>4. ASSUME call' \in [Tasks -> Call], Alike(call', t),
             inode' \in [Slots -> InodeRec], \A u \in Slots : SameInode(u)
      PROVE  IInv'
  <2>1. TypeOK' /\ OthersWait(t)
    BY <1>1, <1>4 DEF TypeOK, OthersWait, SameCall, Alike
  <2>2. call'[t].at = call[t].at /\ call'[t].nr = call[t].nr
        /\ call'[t].slot = call[t].slot /\ call'[t].empty = call[t].empty
    BY <1>4 DEF Alike
  <2> QED
    BY <1>1, <1>4, <2>1, <2>2, Waits
<1>5. ASSUME NEW w \in {"no", "asleep"}, NEW x \in Tasks \cup {NULL}, NEW y \in Tasks \cup {NULL},
             NEW d \in [Tasks -> Call], Alike(d, t),
             call' = [d EXCEPT ![t] = [d[t] EXCEPT !.wait = w, !.tmp = x]],
             inode' = [inode EXCEPT ![s].i_wait = y]
      PROVE  IInv'
  <2>1. inode' \in [Slots -> InodeRec] /\ \A u \in Slots : SameInode(u)
    BY <1>1, <1>5, QueueChanges
  <2>2. call' \in [Tasks -> Call] /\ Alike(call', t)
    BY <1>5, SetWait
  <2> QED
    BY <1>4, <2>1, <2>2
<1>6. CASE call' = Woken([call EXCEPT ![t].wait = "asleep"], inode[s].i_wait) /\ UNCHANGED inode
  <2>1. PICK g : g = [call EXCEPT ![t] = [call[t] EXCEPT !.wait = "asleep", !.tmp = call[t].tmp]]
    OBVIOUS
  <2>2. [call[t] EXCEPT !.wait = "asleep", !.tmp = call[t].tmp] = [call[t] EXCEPT !.wait = "asleep"]
    BY <1>1 DEF Call
  <2>3. call' = Woken(g, inode[s].i_wait)
    BY <1>6, <2>1, <2>2
  <2>4. g \in [Tasks -> Call] /\ Alike(g, t)
    BY <1>1, <1>3, <2>1, SetWait
  <2>5. call' \in [Tasks -> Call] /\ Alike(call', t)
    BY <2>3, <2>4, WokenAlike
  <2>6. inode' \in [Slots -> InodeRec] /\ \A u \in Slots : SameInode(u)
    BY <1>1, <1>6 DEF TypeOK, SameInode
  <2> QED
    BY <1>4, <2>5, <2>6
<1>7. PICK go : go = Woken(call, call[t].tmp)
  OBVIOUS
<1>8. go \in [Tasks -> Call] /\ Alike(go, t)
  BY <1>1, <1>3, <1>7, WokenAlike
<1>9. go[t] \in Call /\ go[t].tmp \in Tasks \cup {NULL}
  BY <1>8 DEF Call
<1>10. CASE inode' = [inode EXCEPT ![s].i_wait = t] /\ call' = [go EXCEPT ![t].wait = "asleep"]
  <2>1. [go[t] EXCEPT !.wait = "asleep", !.tmp = go[t].tmp] = [go[t] EXCEPT !.wait = "asleep"]
    BY <1>9 DEF Call
  <2>2. call' = [go EXCEPT ![t] = [go[t] EXCEPT !.wait = "asleep", !.tmp = go[t].tmp]]
    BY <1>10, <2>1
  <2> QED
    BY <1>5, <1>8, <1>9, <1>10, <2>2
<1>11. CASE inode' = [inode EXCEPT ![s].i_wait = call[t].tmp]
            /\ call' = [go EXCEPT ![t].wait = "no", ![t].tmp = NULL]
  <2>1. call' = [go EXCEPT ![t] = [go[t] EXCEPT !.wait = "no", !.tmp = NULL]]
    BY <1>11
  <2> QED
    BY <1>3, <1>5, <1>8, <1>11, <2>1
<1> QED
  BY <1>2, <1>6, <1>7, <1>10, <1>11 DEF Resume

-----------------------------------------------------------------------------
(* Steps that go from one call to the next.                                *)

Places == {"idle", "name", "found", "read", "put", "putwrite", "truncate", "sync", "syncwrite", "panic"}

LEMMA RefType ==
  ASSUME IInv, NEW t \in Tasks
  PROVE  /\ RefOf(t) \in Slots \cup {NULL}
         /\ call[t] \in Call /\ held[t] \in Slots \cup {NULL}
         /\ Shape(t) /\ RefOK(t)
         /\ RefOf(t) \in Slots => t \in Refs(RefOf(t)) /\ inode[RefOf(t)].i_count # 0
<1>1. call[t] \in Call /\ held[t] \in Slots \cup {NULL} /\ Shape(t) /\ RefOK(t)
  BY DEF IInv, TypeOK
<1>2. RefOf(t) \in Slots \cup {NULL}
  BY <1>1 DEF RefOf, Shape, Call
<1>3. ASSUME RefOf(t) \in Slots
      PROVE  t \in Refs(RefOf(t)) /\ inode[RefOf(t)].i_count # 0
  <2>1. PICK s \in Slots : s = RefOf(t)
    BY <1>3
  <2>2. t \in Refs(s) /\ Refs(s) \in SUBSET Tasks
    BY <2>1 DEF Refs
  <2>3. Cardinality(Refs(s)) # 0
    BY <2>2, CountRefs
  <2> QED
    BY <2>1, <2>2, <2>3 DEF IInv, CountOK
<1> QED
  BY <1>1, <1>2, <1>3

\* Goto() only changes where a task is.
LEMMA GotoMoves ==
  ASSUME TypeOK, NEW t \in Tasks, NEW l \in Places, Goto(t, l)
  PROVE  /\ call' \in [Tasks -> Call]
         /\ \A u \in Tasks : u # t => call'[u] = call[u]
         /\ call'[t].at = l /\ call'[t].nr = call[t].nr /\ call'[t].slot = call[t].slot
         /\ call'[t].empty = call[t].empty /\ call'[t].wait = call[t].wait
<1>1. PICK c : c = [call[t] EXCEPT !.at = l]
  OBVIOUS
<1>2. call[t] \in Call
  BY DEF TypeOK
<1>3. c \in Call /\ c.at = l /\ c.nr = call[t].nr /\ c.slot = call[t].slot
      /\ c.empty = call[t].empty /\ c.wait = call[t].wait
  BY <1>1, <1>2 DEF Call, Places
<1>4. call' = [call EXCEPT ![t] = c]
  BY <1>1 DEF Goto
<1> QED
  BY <1>3, <1>4, NewCall

\* A step to another call c, with the same reference.
LEMMA MovesTo ==
  ASSUME IInv, NEW t \in Tasks, NEW c \in Call,
         call' = [call EXCEPT ![t] = c],
         UNCHANGED <<inode, imap, dir, disk>>,
         held' \in [Tasks -> Slots \cup {NULL}], \A u \in Tasks : u # t => held'[u] = held[u],
         call[t].at \notin {"read", "putwrite", "syncwrite"},
         c.at \notin {"read", "putwrite", "syncwrite"},
         RefOf(t)' = RefOf(t), Shape(t)', RefOK(t)'
  PROVE  IInv'
<1>1. /\ call' \in [Tasks -> Call] /\ call'[t] = c
      /\ \A u \in Tasks : u # t => call'[u] = call[u]
  BY NewCall DEF IInv
<1>2. TypeOK'
  BY <1>1 DEF IInv, TypeOK
<1>3. OthersWait(t) /\ \A s \in Slots : SameInode(s)
  BY <1>1 DEF OthersWait, SameCall, SameInode
<1>4. \A s \in Slots : Locks(t, s)' <=> Locks(t, s)
  BY <1>1 DEF Locks
<1> QED
  BY <1>1, <1>2, <1>3, <1>4, Moves

LEMMA LookupOK ==
  ASSUME IInv, NEW t \in Tasks, NEW n \in Nums, Lookup(t, n)
  PROVE  IInv'
<1>1. call[t] \in Call /\ Shape(t) /\ call[t].at = "idle" /\ call[t].wait = "no" /\ held[t] = NULL
      /\ n \in dir /\ UNCHANGED <<inode, imap, dir, disk, held>>
      /\ held \in [Tasks -> Slots \cup {NULL}]
  BY RefType DEF Lookup, At, IInv, TypeOK
<1>2. PICK c : c = [call[t] EXCEPT !.at = "name", !.nr = n]
  OBVIOUS
<1>3. c \in Call /\ c.at = "name" /\ c.nr = n /\ c.empty = call[t].empty /\ c.wait = "no"
  BY <1>1, <1>2 DEF Call
<1>4. call' = [call EXCEPT ![t] = c]
  BY <1>2 DEF Lookup
<1>5. call'[t] = c
  BY <1>3, <1>4, NewCall DEF IInv
<1>6. RefOf(t)' = NULL /\ RefOf(t) = NULL
  BY <1>1, <1>3, <1>5 DEF RefOf
<1>7. Shape(t)'
  <2>1. held'[t] = NULL /\ call'[t].nr \in dir' /\ call'[t].at = "name" /\ call'[t].wait = "no"
    BY <1>1, <1>3, <1>5
  <2>2. call'[t].empty = NULL
    BY <1>1, <1>3, <1>5 DEF Shape
  <2>3. call'[t].nr # NULL
    BY <1>3, <1>5, NullIsNone
  <2> QED
    BY <2>1, <2>2, <2>3 DEF Shape
<1>8. RefOK(t)'
  BY <1>3, <1>5, <1>6 DEF RefOK
<1> QED
  BY <1>1, <1>3, <1>4, <1>6, <1>7, <1>8, MovesTo

LEMMA iputOK ==
  ASSUME IInv, NEW t \in Tasks, iput(t)
  PROVE  IInv'
<1>1. call[t] \in Call /\ Shape(t) /\ RefOK(t) /\ call[t].at = "idle" /\ call[t].wait = "no"
      /\ held[t] \in Slots /\ UNCHANGED <<inode, imap, dir, disk>>
      /\ held \in [Tasks -> Slots \cup {NULL}] /\ NULL \notin Slots
  BY RefType, NullIsNone DEF iput, At, IInv, TypeOK
<1>2. PICK c : c = [call[t] EXCEPT !.at = "put", !.slot = held[t]]
  OBVIOUS
<1>3. c \in Call /\ c.at = "put" /\ c.slot = held[t] /\ c.nr = call[t].nr
      /\ c.empty = call[t].empty /\ c.wait = "no"
  BY <1>1, <1>2 DEF Call
<1>4. call' = [call EXCEPT ![t] = c]
  BY <1>2 DEF iput
<1>5. call'[t] = c
  BY <1>3, <1>4, NewCall DEF IInv
<1>6. /\ held' \in [Tasks -> Slots \cup {NULL}] /\ held'[t] = NULL
      /\ \A u \in Tasks : u # t => held'[u] = held[u]
  BY <1>1 DEF iput
<1>7. RefOf(t)' = held[t] /\ RefOf(t) = held[t]
  BY <1>1, <1>3, <1>5, <1>6 DEF RefOf
<1>8. Shape(t)'
  BY <1>1, <1>3, <1>5, <1>6 DEF Shape
<1>9. RefOK(t)'
  BY <1>1, <1>3, <1>5, <1>7 DEF RefOK
<1> QED
  BY <1>1, <1>3, <1>4, <1>6, <1>7, <1>8, <1>9, MovesTo

LEMMA sync_inodesOK ==
  ASSUME IInv, NEW t \in Tasks, sync_inodes(t)
  PROVE  IInv'
<1>1. call[t] \in Call /\ Shape(t) /\ RefOK(t) /\ call[t].at = "idle" /\ call[t].wait = "no"
      /\ UNCHANGED <<inode, imap, dir, disk, held>>
      /\ held \in [Tasks -> Slots \cup {NULL}] /\ 0 \in Slots
  BY RefType, NullIsNone DEF sync_inodes, At, IInv, TypeOK
<1>2. PICK c : c = [call[t] EXCEPT !.at = "sync", !.slot = 0]
  OBVIOUS
<1>3. c \in Call /\ c.at = "sync" /\ c.slot = 0 /\ c.nr = call[t].nr
      /\ c.empty = call[t].empty /\ c.wait = "no"
  BY <1>1, <1>2 DEF Call
<1>4. call' = [call EXCEPT ![t] = c]
  BY <1>2 DEF sync_inodes
<1>5. call'[t] = c
  BY <1>3, <1>4, NewCall DEF IInv
<1>6. RefOf(t)' = held[t] /\ RefOf(t) = held[t]
  BY <1>1, <1>3, <1>5 DEF RefOf
<1>7. Shape(t)'
  BY <1>1, <1>3, <1>5 DEF Shape
<1>8. RefOK(t)'
  BY <1>1, <1>3, <1>5, <1>6 DEF RefOK
<1> QED
  BY <1>1, <1>3, <1>4, <1>6, <1>7, <1>8, MovesTo

\* A panic, of a task that has got nothing yet.
LEMMA NoneEmptyOK ==
  ASSUME IInv, NEW t \in Tasks, NoneEmpty(t),
         At(t, "name") \/ At(t, "idle"), held[t] = NULL
  PROVE  IInv'
<1>1. call[t] \in Call /\ Shape(t) /\ call[t].at \in {"name", "idle"} /\ call[t].wait = "no"
      /\ UNCHANGED <<inode, imap, dir, disk, held>> /\ Goto(t, "panic")
      /\ held \in [Tasks -> Slots \cup {NULL}]
  BY RefType DEF NoneEmpty, At, IInv, TypeOK
<1>2. PICK c : c = [call[t] EXCEPT !.at = "panic"]
  OBVIOUS
<1>3. c \in Call /\ c.at = "panic" /\ c.nr = call[t].nr
      /\ c.empty = call[t].empty /\ c.wait = "no"
  BY <1>1, <1>2 DEF Call
<1>4. call' = [call EXCEPT ![t] = c]
  BY <1>1, <1>2 DEF Goto
<1>5. call'[t] = c
  BY <1>3, <1>4, NewCall DEF IInv
<1>6. RefOf(t)' = NULL /\ RefOf(t) = NULL
  BY <1>1, <1>3, <1>5 DEF RefOf
<1>7. Shape(t)'
  BY <1>1, <1>3, <1>5 DEF Shape
<1>8. RefOK(t)'
  BY <1>3, <1>5, <1>6 DEF RefOK
<1> QED
  BY <1>1, <1>3, <1>4, <1>6, <1>7, <1>8, MovesTo

\* The end of the loop of iput() whose inode has no name.
LEMMA TruncateOK ==
  ASSUME IInv, NEW t \in Tasks, At(t, "put"), Unlocked(t), Goto(t, "truncate"),
         inode[call[t].slot].i_count = 1, inode[call[t].slot].i_nlinks = 0,
         UNCHANGED <<inode, imap, dir, disk, held>>
  PROVE  IInv'
<1>1. call[t] \in Call /\ Shape(t) /\ RefOK(t) /\ call[t].at = "put" /\ call[t].wait = "no"
      /\ held \in [Tasks -> Slots \cup {NULL}] /\ NULL \notin Slots
  BY RefType, NullIsNone DEF At, IInv, TypeOK
<1>2. held[t] = NULL
  BY <1>1 DEF Shape
<1>3. PICK s \in Slots : s = call[t].slot
  BY <1>1 DEF Shape
<1>4. RefOf(t) = s /\ ~inode[s].i_lock /\ inode[s].i_count = 1 /\ inode[s].i_nlinks = 0
  BY <1>1, <1>2, <1>3 DEF RefOf, Unlocked
<1>5. \A u \in Tasks : RefOf(u) = s => u = t
  <2>1. t \in Refs(s) /\ Refs(s) \in SUBSET Tasks
    BY <1>4 DEF Refs
  <2>2. Cardinality(Refs(s)) = 1
    BY <1>4 DEF IInv, CountOK
  <2>3. Refs(s) = {t}
    BY <2>1, <2>2, OneRef
  <2> QED
    BY <2>3 DEF Refs
<1>6. PICK c : c = [call[t] EXCEPT !.at = "truncate"]
  OBVIOUS
<1>7. c \in Call /\ c.at = "truncate" /\ c.nr = call[t].nr /\ c.slot = s
      /\ c.empty = call[t].empty /\ c.wait = "no"
  BY <1>1, <1>3, <1>6 DEF Call
<1>8. call' = [call EXCEPT ![t] = c]
  BY <1>6 DEF Goto
<1>9. call'[t] = c /\ \A u \in Tasks : u # t => call'[u] = call[u]
  BY <1>7, <1>8, NewCall DEF IInv
<1>10. RefOf(t)' = s
  BY <1>2, <1>7, <1>9 DEF RefOf
<1>11. Shape(t)'
  BY <1>1, <1>2, <1>7, <1>9 DEF Shape
<1>12. Sole(t, RefOf(t))'
  <2>1. \A u \in Tasks : u # t => RefOf(u)' = RefOf(u)
    BY <1>9 DEF RefOf
  <2> QED
    BY <2>1, <1>5, <1>10 DEF Sole
<1>13. RefOK(t)'
  BY <1>1, <1>3, <1>4, <1>7, <1>9, <1>10, <1>12 DEF RefOK
<1> QED
  BY <1>1, <1>4, <1>7, <1>8, <1>10, <1>11, <1>13, MovesTo

\* sync_inodes() passes to the next inode, or ends.
LEMMA SyncNextOK ==
  ASSUME IInv, NEW t \in Tasks, At(t, "sync"), UNCHANGED <<inode, imap, dir, disk, held>>,
         call' = [call EXCEPT ![t] = IF call[t].slot = NR_INODE - 1 THEN Idle
                                     ELSE [@ EXCEPT !.slot = call[t].slot + 1]]
  PROVE  IInv'
<1>1. call[t] \in Call /\ Shape(t) /\ RefOK(t) /\ call[t].at = "sync" /\ call[t].wait = "no"
      /\ held \in [Tasks -> Slots \cup {NULL}]
  BY RefType DEF At, IInv, TypeOK
<1>2. PICK d : d = [call[t] EXCEPT !.slot = call[t].slot + 1]
  OBVIOUS
<1>3. PICK c : c = IF call[t].slot = NR_INODE - 1 THEN Idle ELSE d
  OBVIOUS
<1>4. c \in Call /\ c.at \in {"idle", "sync"} /\ c.nr \in {NULL, call[t].nr} /\ c.wait = "no"
      /\ c.empty = NULL /\ (c.at = "sync" => c.slot \in Slots)
  <2>1. call[t].slot \in Slots /\ call[t].empty = NULL
    BY <1>1 DEF Shape
  <2>2. CASE call[t].slot = NR_INODE - 1
    BY <2>2, <1>3, IdleCall
  <2>3. CASE call[t].slot # NR_INODE - 1
    <3>1. call[t].slot + 1 \in Slots
      BY <2>1, <2>3, TableAssumption DEF Slots
    <3>2. d \in Call /\ d.at = "sync" /\ d.nr = call[t].nr /\ d.wait = "no" /\ d.empty = NULL
          /\ d.slot \in Slots
      BY <1>1, <1>2, <2>1, <3>1 DEF Call
    <3> QED
      BY <2>3, <1>3, <3>2
  <2> QED
    BY <2>2, <2>3
<1>5. call' = [call EXCEPT ![t] = c]
  BY <1>2, <1>3
<1>6. call'[t] = c
  BY <1>4, <1>5, NewCall DEF IInv
<1>7. RefOf(t)' = held[t] /\ RefOf(t) = held[t]
  BY <1>1, <1>4, <1>6 DEF RefOf
<1>8. Shape(t)'
  <2>1. call'[t].nr # NULL => call'[t].nr \in dir'
    BY <1>1, <1>4, <1>6 DEF Shape
  <2>2. call'[t].at \in {"idle", "sync"} /\ call'[t].wait = "no" /\ call'[t].empty = NULL
    BY <1>4, <1>6
  <2>3. call'[t].at = "sync" => call'[t].slot \in Slots'
    BY <1>4, <1>6 DEF Slots
  <2> QED
    BY <2>1, <2>2, <2>3 DEF Shape
<1>9. RefOK(t)'
  BY <1>1, <1>4, <1>6, <1>7 DEF RefOK
<1> QED
  BY <1>1, <1>4, <1>5, <1>7, <1>8, <1>9, MovesTo

-----------------------------------------------------------------------------
(* Steps that change inodes.                                               *)

\* The slot r is not concerned by a step of t.
Apart(r, t) ==
  /\ SameInode(r)
  /\ RefOf(t)' = r <=> RefOf(t) = r
  /\ Locks(t, r)' <=> Locks(t, r)
  /\ (call'[t].at = "read" /\ call'[t].slot = r) <=> (call[t].at = "read" /\ call[t].slot = r)
  /\ inode[r].i_num # NULL =>
       /\ inode[r].i_num \in imap'
       /\ inode[r].i_num \in dir' <=> inode[r].i_num \in dir
       /\ disk'[inode[r].i_num] = disk[inode[r].i_num]

\* What another task u refers to keeps what u relies on.
Kept(u, t) ==
  RefOf(u) # NULL =>
    /\ inode'[RefOf(u)].i_num = inode[RefOf(u)].i_num
    /\ call[u].at = "read" => ~inode'[RefOf(u)].i_dirt
    /\ call[u].at = "truncate" => ~inode'[RefOf(u)].i_lock /\ inode'[RefOf(u)].i_nlinks = 0
    /\ call[u].at \in {"found", "read", "truncate"} => RefOf(t)' # RefOf(u)

\* A step that concerns the slots T only.
LEMMA Touches ==
  ASSUME IInv, TypeOK', NEW t \in Tasks, OthersWait(t), NEW T \in SUBSET Slots,
         \A r \in Slots \ T : Apart(r, t),
         \A r \in T : LockOK(r)' /\ SlotOK(r)' /\ CountOK(r)',
         \A u \in Tasks : u # t /\ RefOf(u) \in T => Kept(u, t),
         \A u \in Tasks : u # t /\ call[u].nr # NULL => call[u].nr \in dir',
         Shape(t)', RefOK(t)',
         \A n \in imap' : NumOK(n)',
         OneInodePerNumber'
  PROVE  IInv'
<1>1. ASSUME NEW u \in Tasks
      PROVE  Shape(u)'
  BY <1>1, SameShape DEF IInv, OthersWait
<1>2. ASSUME NEW u \in Tasks, u # t
      PROVE  RefOK(u)'
  <2>1. Shape(u) /\ RefOK(u) /\ RefOf(u) \in Slots \cup {NULL}
    BY RefType
  <2>2. PICK s : s = RefOf(u)
    OBVIOUS
  <2>3. ASSUME s \in Slots \ T
        PROVE  Kept(u, t)
    <3>1. Apart(s, t)
      BY <2>3
    <3>2. call[u].at = "read" => ~inode[s].i_dirt /\ call[u].slot = s
      BY <2>1, <2>2, NullIsNone, <2>3 DEF RefOK, RefOf, Shape
    <3>3. call[u].at = "truncate" => ~inode[s].i_lock /\ inode[s].i_nlinks = 0 /\ call[u].slot = s
      BY <2>1, <2>2, NullIsNone, <2>3 DEF RefOK, RefOf, Shape
    <3>4. call[u].at \in {"found", "read", "truncate"} => RefOf(t) # s
      BY <2>1, <2>2, <1>2 DEF RefOK, Sole
    <3> QED
      BY <3>1, <3>2, <3>3, <3>4, <2>2 DEF Apart, SameInode, Kept
  <2>4. Kept(u, t)
    <3>1. CASE s = NULL
      BY <3>1, <2>2 DEF Kept
    <3>2. CASE s \in T
      BY <3>2, <2>2, <1>2
    <3> QED
      BY <3>1, <3>2, <2>3, <2>1, <2>2
  <2>5. s # NULL =>
           /\ inode'[s].i_num = inode[s].i_num
           /\ call[u].at = "read" => ~inode'[s].i_dirt
           /\ call[u].at = "truncate" => ~inode'[s].i_lock /\ inode'[s].i_nlinks = 0
           /\ call[u].at \in {"found", "read", "truncate"} => RefOf(t)' # s
    BY <2>2, <2>4 DEF Kept
  <2> QED
    BY <1>2, <2>1, <2>2, <2>5, NullIsNone, RefStaysOK
<1>3. ASSUME NEW s \in Slots
      PROVE  LockOK(s)' /\ SlotOK(s)' /\ CountOK(s)'
  <2>1. CASE s \in T
    BY <2>1
  <2>2. CASE s \notin T
    <3>1. LockOK(s) /\ SlotOK(s) /\ CountOK(s) /\ Apart(s, t) /\ SameInode(s)
      BY <2>2 DEF IInv, Apart
    <3>2. Reading(s)' <=> Reading(s)
      BY <3>1, SameReading DEF Apart
    <3>3. SlotOK(s)'
      BY <3>1, <3>2, SlotStaysOK DEF Apart
    <3>4. LockOK(s)'
      BY <3>1, LocksMove DEF SameInode, Apart
    <3>5. CountOK(s)'
      BY <3>1, CountsMove DEF SameInode, Apart
    <3> QED
      BY <3>3, <3>4, <3>5
  <2> QED
    BY <2>1, <2>2
<1>4. RefOK(t)' /\ Slots' = Slots
  BY DEF Slots
<1> QED
  BY <1>1, <1>2, <1>3, <1>4 DEF IInv

\* Another inode in the table.
LEMMA NewInode ==
  ASSUME TypeOK, NEW s \in Slots, NEW i \in InodeRec, inode' = [inode EXCEPT ![s] = i]
  PROVE  /\ inode' \in [Slots -> InodeRec] /\ inode'[s] = i
         /\ \A r \in Slots : r # s => SameInode(r)
BY DEF TypeOK, SameInode

LEMMA NewDisk ==
  ASSUME TypeOK, NEW n \in Nums, NEW e \in [i_nlinks : 0 .. 1, latest : BOOLEAN],
         disk' = [disk EXCEPT ![n] = e]
  PROVE  /\ disk' \in [Nums -> [i_nlinks : 0 .. 1, latest : BOOLEAN]] /\ disk'[n] = e
         /\ \A m \in Nums : m # n => disk'[m] = disk[m]
<1>1. disk \in [Nums -> [i_nlinks : 0 .. 1, latest : BOOLEAN]]
  BY DEF TypeOK
<1>2. PICK D : D = [i_nlinks : 0 .. 1, latest : BOOLEAN]
  OBVIOUS
<1>3. disk \in [Nums -> D] /\ e \in D
  BY <1>1, <1>2
<1>4. disk' \in [Nums -> D] /\ disk'[n] = e /\ \A m \in Nums : m # n => disk'[m] = disk[m]
  BY <1>3
<1> QED
  BY <1>2, <1>4

\* A step that changes one inode and keeps its number.
LEMMA SlotChanges ==
  ASSUME IInv, TypeOK', NEW t \in Tasks, OthersWait(t),
         NEW s \in Slots, NEW i \in InodeRec, inode' = [inode EXCEPT ![s] = i],
         i.i_num = inode[s].i_num, i.i_num # NULL,
         imap' = imap,
         \A n \in Nums : n # i.i_num => (n \in dir' <=> n \in dir) /\ disk'[n] = disk[n],
         \/ RefOf(t)' = RefOf(t)
         \/ RefOf(t) = s /\ RefOf(t)' = NULL,
         \A r \in Slots : r # s =>
           /\ Locks(t, r)' <=> Locks(t, r)
           /\ (call'[t].at = "read" /\ call'[t].slot = r) <=> (call[t].at = "read" /\ call[t].slot = r),
         LockOK(s)', SlotOK(s)', CountOK(s)',
         \A u \in Tasks : u # t /\ RefOf(u) = s => Kept(u, t),
         \A u \in Tasks : u # t /\ call[u].nr # NULL => call[u].nr \in dir',
         Shape(t)', RefOK(t)'
  PROVE  IInv'
<1>1. inode'[s] = i /\ \A r \in Slots : r # s => SameInode(r)
  BY NewInode DEF IInv
<1>2. \A r \in Slots : inode'[r].i_num = inode[r].i_num
  BY <1>1 DEF SameInode
<1>3. OneInodePerNumber'
  <2>1. Slots' = Slots
    BY DEF Slots
  <2>2. OneInodePerNumber
    BY DEF IInv
  <2> QED
    BY <1>2, <2>1, <2>2 DEF OneInodePerNumber
<1>4. ASSUME NEW n \in imap'
      PROVE  NumOK(n)'
  <2>1. CASE n = i.i_num
    BY <2>1, <1>1 DEF NumOK
  <2>2. CASE n # i.i_num
    <3>1. NumOK(n) /\ n \in Nums
      BY DEF IInv, TypeOK
    <3> QED
      BY <2>2, <3>1, <1>2 DEF NumOK, OnDisk
  <2> QED
    BY <2>1, <2>2
<1>5. ASSUME NEW r \in Slots, r # s
      PROVE  Apart(r, t)
  <2>1. RefOf(t)' = r <=> RefOf(t) = r
    BY <1>5, NullIsNone
  <2>2. SameInode(r)
    BY <1>1, <1>5
  <2>3. ASSUME inode[r].i_num # NULL
        PROVE  /\ inode[r].i_num \in imap'
               /\ inode[r].i_num \in dir' <=> inode[r].i_num \in dir
               /\ disk'[inode[r].i_num] = disk[inode[r].i_num]
    <3>1. inode[r].i_num \in imap /\ inode[r].i_num # i.i_num
      BY <1>5, <2>3 DEF IInv, SlotOK, OneInodePerNumber
    <3>2. inode[r].i_num \in Nums
      BY <3>1 DEF IInv, TypeOK
    <3> QED
      BY <3>1, <3>2
  <2> QED
    BY <1>5, <2>1, <2>2, <2>3 DEF Apart
<1>6. PICK T : T = {s}
  OBVIOUS
<1>7. T \in SUBSET Slots /\ \A r \in T : r = s
  BY <1>6
<1>8. \A r \in Slots \ T : Apart(r, t)
  BY <1>5, <1>6
<1>9. \A r \in T : LockOK(r)' /\ SlotOK(r)' /\ CountOK(r)'
  BY <1>6
<1>10. \A u \in Tasks : u # t /\ RefOf(u) \in T => Kept(u, t)
  BY <1>6
<1> QED
  BY <1>3, <1>4, <1>7, <1>8, <1>9, <1>10, Touches

\* A reader has the lock.
LEMMA ReadersLock ==
  ASSUME IInv, NEW s \in Slots, Reading(s)
  PROVE  inode[s].i_lock /\ \A t \in Tasks : Locks(t, s) => call[t].at = "read"
BY DEF IInv, LockOK, Locks, Reading

\* Another task has no exclusive reference to a slot t refers to.
LEMMA NotSole ==
  ASSUME IInv, NEW t \in Tasks, NEW u \in Tasks, u # t,
         RefOf(t) # NULL, RefOf(u) = RefOf(t)
  PROVE  call[u].at \notin {"found", "read", "truncate"}
BY DEF IInv, RefOK, Sole

\* lock_inode() of write_inode().
LEMMA WriteInodeOK ==
  ASSUME IInv, NEW t \in Tasks, NEW l, WriteInode(t, l), Unlocked(t),
         call[t].wait = "no", inode[call[t].slot].i_dirt,
         \/ call[t].at = "put" /\ l = "putwrite"
         \/ call[t].at = "sync" /\ l = "syncwrite"
              /\ \A u \in Tasks : call[u].at = "truncate" => call[u].slot # call[t].slot
  PROVE  IInv'
<1>1. call[t] \in Call /\ Shape(t) /\ RefOK(t) /\ RefOf(t) \in Slots \cup {NULL}
      /\ call[t].at \in {"put", "sync"} /\ NULL \notin Slots /\ TypeOK
      /\ UNCHANGED <<imap, dir, disk, held>> /\ l \in {"putwrite", "syncwrite"}
  BY RefType, NullIsNone DEF IInv, WriteInode
<1>2. PICK s \in Slots : s = call[t].slot
  BY <1>1 DEF Shape
<1>3. PICK i : i = [inode[s] EXCEPT !.i_lock = TRUE]
  OBVIOUS
<1>4. inode[s] \in InodeRec
  BY <1>1 DEF TypeOK
<1>5. /\ i \in InodeRec /\ i.i_lock = TRUE /\ i.i_num = inode[s].i_num
      /\ i.i_count = inode[s].i_count /\ i.i_dirt = inode[s].i_dirt
      /\ i.i_nlinks = inode[s].i_nlinks /\ i.latest = inode[s].latest
  BY <1>3, <1>4 DEF InodeRec
<1>6. inode' = [inode EXCEPT ![s] = i]
  BY <1>2, <1>3 DEF WriteInode
<1>7. inode' \in [Slots -> InodeRec] /\ inode'[s] = i
  BY <1>1, <1>5, <1>6, NewInode
<1>8. /\ call' \in [Tasks -> Call]
      /\ \A u \in Tasks : u # t => call'[u] = call[u]
      /\ call'[t].at = l /\ call'[t].nr = call[t].nr /\ call'[t].slot = s
      /\ call'[t].empty = call[t].empty /\ call'[t].wait = call[t].wait
  <2>1. Goto(t, l) /\ l \in Places
    BY <1>1 DEF WriteInode, Places
  <2> QED
    BY <2>1, <1>1, <1>2, GotoMoves
<1>9. TypeOK'
  BY <1>1, <1>7, <1>8 DEF TypeOK
<1>10. OthersWait(t)
  BY <1>1, <1>8 DEF OthersWait, SameCall
<1>11. RefOf(t)' = RefOf(t)
  BY <1>1, <1>2, <1>8 DEF RefOf
<1>12. inode[s].i_dirt /\ ~inode[s].i_lock /\ inode[s].i_num # NULL /\ inode[s].i_count # 0
  BY <1>2 DEF Unlocked, IInv, SlotOK
<1>13. Locks(t, s)' /\ \A r \in Slots : r # s => ~Locks(t, r) /\ ~Locks(t, r)'
  BY <1>1, <1>8 DEF Locks
<1>14. LockOK(s)'
  BY <1>5, <1>7, <1>10, <1>12, <1>13, LocksMove DEF IInv
<1>15. Reading(s)' <=> Reading(s)
  BY <1>1, <1>8, <1>10, SameReading
<1>16. SlotOK(s)'
  <2>1. SlotOK(s)
    BY DEF IInv
  <2> QED
    BY <1>1, <1>5, <1>7, <1>12, <1>15, <2>1 DEF SlotOK, OnDisk
<1>17. CountOK(s)'
  BY <1>5, <1>7, <1>10, <1>11, CountsMove DEF IInv
<1>18. ASSUME NEW u \in Tasks, u # t, RefOf(u) = s
       PROVE  Kept(u, t)
  <2>1. Shape(u) /\ RefOK(u)
    BY RefType
  <2>2. call[u].at = "read" => call[u].slot = s /\ ~inode[s].i_dirt
    BY <1>18, <2>1, <1>1 DEF RefOf, Shape, RefOK
  <2>3. call[u].at = "truncate" => call[u].slot = s
    BY <1>18, <2>1, <1>1 DEF RefOf, Shape
  <2>4. call[u].at # "truncate"
    <3>1. CASE call[t].at = "put"
      <4>1. RefOf(t) = s
        BY <3>1, <1>1, <1>2 DEF RefOf, Shape
      <4> QED
        BY <4>1, <1>1, <1>18, NotSole
    <3>2. CASE call[t].at = "sync"
      BY <3>2, <2>3, <1>2
    <3> QED
      BY <3>1, <3>2, <1>1
  <2>5. call[u].at \in {"found", "read", "truncate"} => RefOf(t) # s
    BY <1>1, <1>18, NotSole
  <2> QED
    BY <1>5, <1>7, <1>11, <1>18, <2>2, <2>4, <2>5 DEF Kept
<1>19. Shape(t)'
  BY <1>1, <1>2, <1>8 DEF Shape
<1>20. RefOK(t)'
  <2>1. RefOf(t)' # NULL => inode'[RefOf(t)'].i_num # NULL
    <3>1. CASE RefOf(t) = s
      BY <3>1, <1>5, <1>7, <1>11, <1>12
    <3>2. CASE RefOf(t) # s
      BY <3>2, <1>1, <1>6, <1>11 DEF RefOK
    <3> QED
      BY <3>1, <3>2
  <2> QED
    BY <2>1, <1>1, <1>8 DEF RefOK
<1>21. /\ \A n \in Nums : n # i.i_num => (n \in dir' <=> n \in dir) /\ disk'[n] = disk[n]
       /\ \A r \in Slots : r # s =>
            (call'[t].at = "read" /\ call'[t].slot = r) <=> (call[t].at = "read" /\ call[t].slot = r)
       /\ \A u \in Tasks : u # t /\ call[u].nr # NULL => call[u].nr \in dir'
  BY <1>1, <1>8 DEF IInv, Shape
<1> QED
  BY <1>1, <1>5, <1>6, <1>9, <1>10, <1>11, <1>12, <1>13, <1>14, <1>16, <1>17, <1>18, <1>19, <1>20,
     <1>21, SlotChanges

\* Going on to l, and waking p.
LEMMA GoAndWake ==
  ASSUME TypeOK, NEW t \in Tasks, NEW l \in Places, NEW p,
         call' = Woken([call EXCEPT ![t].at = l], p), call[t].wait = "no",
         UNCHANGED held
  PROVE  /\ call' \in [Tasks -> Call] /\ OthersWait(t)
         /\ call'[t].at = l /\ call'[t].nr = call[t].nr /\ call'[t].slot = call[t].slot
         /\ call'[t].empty = call[t].empty /\ call'[t].wait = "no"
<1>1. PICK c : c = [call[t] EXCEPT !.at = l]
  OBVIOUS
<1>2. call[t] \in Call /\ call \in [Tasks -> Call]
  BY DEF TypeOK
<1>3. c \in Call /\ c.at = l /\ c.nr = call[t].nr /\ c.slot = call[t].slot
      /\ c.empty = call[t].empty /\ c.wait = "no"
  BY <1>1, <1>2 DEF Call, Places
<1>4. PICK d : d = [call EXCEPT ![t] = c]
  OBVIOUS
<1>5. d \in [Tasks -> Call] /\ d[t] = c /\ \A u \in Tasks : u # t => d[u] = call[u]
  BY <1>2, <1>3, <1>4
<1>6. call' = Woken(d, p)
  BY <1>1, <1>4
<1>7. PICK g : g = Woken(d, p)
  OBVIOUS
<1>8. /\ g \in [Tasks -> Call]
      /\ \A u \in Tasks :
           /\ g[u].at = d[u].at /\ g[u].nr = d[u].nr
           /\ g[u].slot = d[u].slot /\ g[u].empty = d[u].empty
           /\ g[u].wait # "no" => d[u].wait # "no"
  BY <1>5, <1>7, WokenSame
<1>9. call' = g
  BY <1>6, <1>7
<1>10. OthersWait(t)
  BY <1>5, <1>8, <1>9 DEF OthersWait, SameCall
<1>11. call'[t].wait = "no"
  BY <1>3, <1>5, <1>8, <1>9
<1> QED
  BY <1>3, <1>5, <1>8, <1>9, <1>10, <1>11

\* The copy of write_inode(), and unlock_inode().
LEMMA WriteDoneOK ==
  ASSUME IInv, NEW t \in Tasks, NEW from, NEW to, WriteDone(t, from, to),
         \/ from = "putwrite" /\ to = "put"
         \/ from = "syncwrite" /\ to = "sync"
  PROVE  IInv'
<1>1. call[t] \in Call /\ Shape(t) /\ RefOK(t) /\ RefOf(t) \in Slots \cup {NULL}
      /\ call[t].at = from /\ call[t].wait = "no" /\ NULL \notin Slots /\ TypeOK
      /\ UNCHANGED <<imap, dir, held>> /\ to \in {"put", "sync"} /\ to \in Places
  BY RefType, NullIsNone DEF IInv, WriteDone, At, Places
<1>2. PICK s \in Slots : s = call[t].slot
  BY <1>1 DEF Shape
<1>3. PICK i : i = [inode[s] EXCEPT !.i_dirt = FALSE, !.i_lock = FALSE]
  OBVIOUS
<1>4. inode[s] \in InodeRec
  BY <1>1 DEF TypeOK
<1>5. /\ i \in InodeRec /\ i.i_lock = FALSE /\ i.i_num = inode[s].i_num
      /\ i.i_count = inode[s].i_count /\ i.i_dirt = FALSE
      /\ i.i_nlinks = inode[s].i_nlinks /\ i.latest = inode[s].latest
  BY <1>3, <1>4 DEF InodeRec
<1>6. inode' = [inode EXCEPT ![s] = i]
  BY <1>2, <1>3 DEF WriteDone
<1>7. inode' \in [Slots -> InodeRec] /\ inode'[s] = i
  BY <1>1, <1>5, <1>6, NewInode
<1>8. /\ call' \in [Tasks -> Call] /\ OthersWait(t)
      /\ call'[t].at = to /\ call'[t].nr = call[t].nr /\ call'[t].slot = s
      /\ call'[t].empty = call[t].empty /\ call'[t].wait = "no"
  <2>1. call' = Woken([call EXCEPT ![t].at = to], inode[s].i_wait)
    BY <1>2 DEF WriteDone
  <2> QED
    BY <2>1, <1>1, <1>2, GoAndWake
<1>9. Locks(t, s) /\ LockOK(s) /\ SlotOK(s) /\ ~Locks(t, s)'
  BY <1>1, <1>2, <1>8 DEF Locks, IInv
<1>10. inode[s].i_lock /\ \A u \in Tasks : Locks(u, s) => u = t
  BY <1>9 DEF LockOK
<1>11. ~Reading(s)
  BY <1>1, <1>9, ReadersLock
<1>12. inode[s].i_num # NULL /\ inode[s].i_num \in imap /\ inode[s].i_count # 0
       /\ inode[s].latest /\ (inode[s].i_nlinks = 1 <=> inode[s].i_num \in dir)
  BY <1>9, <1>10, <1>11 DEF SlotOK
<1>13. PICK n \in Nums : n = inode[s].i_num
  BY <1>12 DEF IInv, TypeOK
<1>14. PICK e : e = [i_nlinks |-> inode[s].i_nlinks, latest |-> inode[s].latest]
  OBVIOUS
<1>15. e \in [i_nlinks : 0 .. 1, latest : BOOLEAN] /\ e.i_nlinks = inode[s].i_nlinks
       /\ e.latest = inode[s].latest
  BY <1>4, <1>14 DEF InodeRec
<1>16. disk' = [disk EXCEPT ![n] = e]
  BY <1>2, <1>13, <1>14 DEF WriteDone
<1>17. /\ disk' \in [Nums -> [i_nlinks : 0 .. 1, latest : BOOLEAN]] /\ disk'[n] = e
       /\ \A m \in Nums : m # n => disk'[m] = disk[m]
  BY <1>1, <1>15, <1>16 DEF TypeOK
<1>18. TypeOK'
  BY <1>1, <1>7, <1>8, <1>17 DEF TypeOK
<1>19. RefOf(t)' = RefOf(t)
  BY <1>1, <1>2, <1>8 DEF RefOf
<1>20. LockOK(s)'
  BY <1>5, <1>7, <1>8, <1>9, LocksMove
<1>21. Reading(s)' <=> Reading(s)
  BY <1>1, <1>8, SameReading
<1>22. SlotOK(s)'
  BY <1>1, <1>5, <1>7, <1>12, <1>13, <1>15, <1>17, <1>21, <1>11 DEF SlotOK, OnDisk
<1>23. CountOK(s)'
  BY <1>5, <1>7, <1>8, <1>19, CountsMove DEF IInv
<1>24. ASSUME NEW u \in Tasks, u # t, RefOf(u) = s
       PROVE  Kept(u, t)
  <2>1. Shape(u) /\ RefOK(u)
    BY RefType
  <2>2. call[u].at = "truncate" => inode[s].i_nlinks = 0
    BY <1>24, <2>1, <1>1 DEF RefOf, Shape, RefOK
  <2>3. call[u].at \in {"found", "read", "truncate"} => RefOf(t) # s
    BY <1>1, <1>24, NotSole
  <2> QED
    BY <1>5, <1>7, <1>19, <1>24, <2>2, <2>3 DEF Kept
<1>25. Shape(t)'
  BY <1>1, <1>2, <1>8 DEF Shape
<1>26. RefOK(t)'
  <2>1. RefOf(t)' # NULL => inode'[RefOf(t)'].i_num # NULL
    <3>1. CASE RefOf(t) = s
      BY <3>1, <1>5, <1>7, <1>12, <1>19
    <3>2. CASE RefOf(t) # s
      BY <3>2, <1>1, <1>6, <1>19 DEF RefOK
    <3> QED
      BY <3>1, <3>2
  <2> QED
    BY <2>1, <1>1, <1>8 DEF RefOK
<1>27. /\ \A m \in Nums : m # i.i_num => (m \in dir' <=> m \in dir) /\ disk'[m] = disk[m]
       /\ \A u \in Tasks : u # t /\ call[u].nr # NULL => call[u].nr \in dir'
  BY <1>1, <1>5, <1>13, <1>17 DEF IInv, Shape
<1>28. \A r \in Slots : r # s =>
         /\ Locks(t, r)' <=> Locks(t, r)
         /\ (call'[t].at = "read" /\ call'[t].slot = r) <=> (call[t].at = "read" /\ call[t].slot = r)
  BY <1>1, <1>2, <1>8 DEF Locks
<1> QED
  BY <1>1, <1>5, <1>6, <1>8, <1>12, <1>18, <1>19, <1>20, <1>22, <1>23, <1>24, <1>25, <1>26,
     <1>27, <1>28, SlotChanges

\* The holder of an inode changes it, and perhaps takes its name away.
LEMMA HolderChanges ==
  ASSUME IInv, NEW t \in Tasks, At(t, "idle"), NEW s \in Slots, s = held[t],
         NEW i \in InodeRec, inode' = [inode EXCEPT ![s] = i],
         i.i_num = inode[s].i_num, i.i_count = inode[s].i_count, i.i_lock = inode[s].i_lock,
         i.latest = inode[s].latest, i.i_dirt = TRUE,
         disk' = [disk EXCEPT ![i.i_num].latest = FALSE],
         UNCHANGED <<imap, held, call>>,
         \/ dir' = dir /\ i.i_nlinks = inode[s].i_nlinks
         \/ /\ dir' = dir \ {i.i_num} /\ i.i_nlinks = 0
            /\ \A u \in Tasks : call[u].nr # i.i_num
  PROVE  IInv'
<1>1. call[t] \in Call /\ Shape(t) /\ RefOK(t)
      /\ call[t].at = "idle" /\ call[t].wait = "no" /\ NULL \notin Slots /\ TypeOK
  BY RefType, NullIsNone DEF IInv, At
<1>2. RefOf(t) = s /\ \A u \in Tasks : RefOf(u)' = RefOf(u)
  BY <1>1 DEF RefOf
<1>3. inode[s].i_num # NULL /\ inode[s].i_count # 0 /\ SlotOK(s)
  BY <1>1, <1>2, RefType DEF RefOK, IInv
<1>4. PICK n \in Nums : n = inode[s].i_num /\ n \in imap
  BY <1>3 DEF SlotOK, IInv, TypeOK
<1>5. inode' \in [Slots -> InodeRec] /\ inode'[s] = i
  BY <1>1, NewInode
<1>6. PICK e : e = [disk[n] EXCEPT !.latest = FALSE]
  OBVIOUS
<1>7. e \in [i_nlinks : 0 .. 1, latest : BOOLEAN]
  <2>1. disk[n] \in [i_nlinks : 0 .. 1, latest : BOOLEAN]
    BY <1>1 DEF TypeOK
  <2> QED
    BY <1>6, <2>1
<1>8. disk' = [disk EXCEPT ![n] = e]
  BY <1>4, <1>6
<1>9. /\ disk' \in [Nums -> [i_nlinks : 0 .. 1, latest : BOOLEAN]]
      /\ \A m \in Nums : m # n => disk'[m] = disk[m]
  BY <1>1, <1>7, <1>8, NewDisk
<1>10. dir' \subseteq imap /\ \A m \in Nums : m # n => (m \in dir' <=> m \in dir)
  BY <1>1, <1>4 DEF TypeOK
<1>11. TypeOK'
  BY <1>1, <1>5, <1>9, <1>10 DEF TypeOK
<1>12. OthersWait(t)
  BY DEF OthersWait, SameCall
<1>13. \A r \in Slots : Locks(t, r)' <=> Locks(t, r)
  BY DEF Locks
<1>14. LockOK(s)'
  BY <1>5, <1>12, <1>13, LocksMove DEF IInv
<1>15. Reading(s)' <=> Reading(s)
  BY <1>12, SameReading
<1>16. ~Reading(s)
  <2>1. ASSUME NEW u \in Tasks, call[u].at = "read", call[u].slot = s
        PROVE  FALSE
    <3>1. RefOf(u) = s
      BY <2>1, RefType DEF RefOf, Shape
    <3> QED
      BY <3>1, <2>1, <1>1, <1>2, NotSole
  <2> QED
    BY <2>1 DEF Reading
<1>17. SlotOK(s)'
  BY <1>3, <1>4, <1>5, <1>15, <1>16, <1>10 DEF SlotOK
<1>18. CountOK(s)'
  BY <1>5, <1>2, <1>12, CountsMove DEF IInv
<1>19. ASSUME NEW u \in Tasks, u # t, RefOf(u) = s
       PROVE  Kept(u, t)
  BY <1>1, <1>2, <1>5, <1>19, NotSole DEF Kept
<1>20. Shape(t)'
  <2>1. call[t].nr # NULL => call[t].nr \in dir /\ call[t].nr \in Nums
    BY <1>1 DEF Shape, Call
  <2>2. call[t].nr # NULL => call[t].nr \in dir'
    BY <2>1
  <2> QED
    BY <1>1, <2>2 DEF Shape
<1>21. RefOK(t)'
  BY <1>1, <1>2, <1>3, <1>5 DEF RefOK
<1>22. \A u \in Tasks : u # t /\ call[u].nr # NULL => call[u].nr \in dir'
  BY DEF IInv, Shape
<1>23. \A m \in Nums : m # i.i_num => (m \in dir' <=> m \in dir) /\ disk'[m] = disk[m]
  BY <1>4, <1>9, <1>10
<1> QED
  BY <1>2, <1>3, <1>11, <1>12, <1>13, <1>14, <1>17, <1>18, <1>19, <1>20, <1>21, <1>22, <1>23,
     SlotChanges

LEMMA ModifyOK ==
  ASSUME IInv, NEW t \in Tasks, Modify(t)
  PROVE  IInv'
<1>1. PICK s \in Slots : s = held[t]
  BY RefType DEF Modify
<1>2. PICK i : i = [inode[s] EXCEPT !.i_dirt = TRUE]
  OBVIOUS
<1>3. inode[s] \in InodeRec
  BY DEF IInv, TypeOK
<1>4. /\ i \in InodeRec /\ i.i_lock = inode[s].i_lock /\ i.i_num = inode[s].i_num
      /\ i.i_count = inode[s].i_count /\ i.i_dirt = TRUE
      /\ i.i_nlinks = inode[s].i_nlinks /\ i.latest = inode[s].latest
  BY <1>2, <1>3 DEF InodeRec
<1>5. inode' = [inode EXCEPT ![s] = i]
  BY <1>1, <1>2 DEF Modify
<1>6. disk' = [disk EXCEPT ![i.i_num].latest = FALSE] /\ UNCHANGED <<imap, dir, held, call>>
      /\ At(t, "idle")
  BY <1>1, <1>4 DEF Modify
<1> QED
  BY <1>1, <1>4, <1>5, <1>6, HolderChanges

LEMMA UnlinkOK ==
  ASSUME IInv, Overlaps = {}, NEW t \in Tasks, Unlink(t)
  PROVE  IInv'
<1>1. PICK s \in Slots : s = held[t]
  BY RefType DEF Unlink
<1>2. PICK i : i = [inode[s] EXCEPT !.i_nlinks = 0, !.i_dirt = TRUE]
  OBVIOUS
<1>3. inode[s] \in InodeRec
  BY DEF IInv, TypeOK
<1>4. /\ i \in InodeRec /\ i.i_lock = inode[s].i_lock /\ i.i_num = inode[s].i_num
      /\ i.i_count = inode[s].i_count /\ i.i_dirt = TRUE
      /\ i.i_nlinks = 0 /\ i.latest = inode[s].latest
  <2>1. 0 \in 0 .. 1
    OBVIOUS
  <2> QED
    BY <1>2, <1>3, <2>1 DEF InodeRec
<1>5. inode' = [inode EXCEPT ![s] = i]
  BY <1>1, <1>2 DEF Unlink
<1>6. disk' = [disk EXCEPT ![i.i_num].latest = FALSE] /\ UNCHANGED <<imap, held, call>>
      /\ At(t, "idle") /\ dir' = dir \ {i.i_num} /\ \A u \in Tasks : call[u].nr # i.i_num
  BY <1>1, <1>4 DEF Unlink
<1> QED
  BY <1>1, <1>4, <1>5, <1>6, HolderChanges

\* Return() from a call, with the inode h or without one; d are the calls.
LEMMA ReturnMoves ==
  ASSUME TypeOK, NEW t \in Tasks, NEW h \in Slots \cup {NULL},
         call' = [call EXCEPT ![t] = Idle], held' = [held EXCEPT ![t] = h]
  PROVE  /\ call' \in [Tasks -> Call] /\ held' \in [Tasks -> Slots \cup {NULL}]
         /\ call'[t] = Idle /\ held'[t] = h /\ OthersWait(t)
         /\ RefOf(t)' = h /\ Shape(t)'
         /\ \A r : ~Locks(t, r)'
<1>1. call' \in [Tasks -> Call] /\ call'[t] = Idle /\ \A u \in Tasks : u # t => call'[u] = call[u]
  BY IdleCall, NewCall
<1>2. /\ held' \in [Tasks -> Slots \cup {NULL}] /\ held'[t] = h
      /\ \A u \in Tasks : u # t => held'[u] = held[u]
  BY DEF TypeOK
<1>3. OthersWait(t)
  BY <1>1, <1>2 DEF OthersWait, SameCall
<1>4. RefOf(t)' = h
  BY <1>1, <1>2, IdleCall DEF RefOf
<1>5. Shape(t)'
  BY <1>1, IdleCall DEF Shape
<1>6. \A r : ~Locks(t, r)'
  BY <1>1, IdleCall DEF Locks
<1> QED
  BY <1>1, <1>2, <1>3, <1>4, <1>5, <1>6

\* The end of read_inode().
LEMMA ReadDoneOK ==
  ASSUME IInv, NEW t \in Tasks, ReadDone(t)
  PROVE  IInv'
<1>1. call[t] \in Call /\ Shape(t) /\ RefOK(t)
      /\ call[t].at = "read" /\ call[t].wait = "no" /\ NULL \notin Slots /\ TypeOK
      /\ UNCHANGED <<imap, dir, disk>>
  BY RefType, NullIsNone DEF IInv, ReadDone, At
<1>2. PICK s \in Slots : s = call[t].slot
  BY <1>1 DEF Shape
<1>3. RefOf(t) = s /\ SlotOK(s) /\ LockOK(s) /\ held[t] = NULL /\ call[t].empty = NULL
  BY <1>1, <1>2 DEF RefOf, Shape, IInv
<1>4. PICK n \in Nums : n = inode[s].i_num /\ n \in dir /\ n \in imap
  BY <1>1, <1>2 DEF RefOK, Shape, TypeOK
<1>5. /\ inode[s].i_num # NULL /\ ~inode[s].i_dirt /\ inode[s].i_count # 0
      /\ disk[n].latest = TRUE /\ disk[n].i_nlinks = 1
  <2>1. inode[s].i_num # NULL /\ ~inode[s].i_dirt /\ inode[s].i_count # 0
    BY <1>1, <1>2, <1>3, <1>4, NullIsNone, RefType DEF RefOK
  <2>2. OnDisk(n)
    BY <2>1, <1>3, <1>4 DEF SlotOK
  <2>3. disk[n].latest \in BOOLEAN
    BY <1>1 DEF TypeOK
  <2> QED
    BY <2>1, <2>2, <2>3, <1>4 DEF OnDisk
<1>6. PICK i : i = [inode[s] EXCEPT !.i_nlinks = 1, !.latest = TRUE, !.i_lock = FALSE]
  OBVIOUS
<1>7. /\ i \in InodeRec /\ i.i_lock = FALSE /\ i.i_num = inode[s].i_num
      /\ i.i_count = inode[s].i_count /\ i.i_dirt = inode[s].i_dirt
      /\ i.i_nlinks = 1 /\ i.latest = TRUE
  <2>1. inode[s] \in InodeRec /\ 1 \in 0 .. 1
    BY <1>1 DEF TypeOK
  <2> QED
    BY <1>6, <2>1 DEF InodeRec
<1>8. inode' = [inode EXCEPT ![s] = i]
  <2>1. inode' = [inode EXCEPT ![s].i_nlinks = disk[n].i_nlinks, ![s].latest = disk[n].latest,
                               ![s].i_lock = FALSE]
    BY <1>2, <1>4 DEF ReadDone
  <2> QED
    BY <2>1, <1>5, <1>6
<1>9. inode' \in [Slots -> InodeRec] /\ inode'[s] = i
  BY <1>1, <1>7, <1>8, NewInode
<1>10. /\ call' \in [Tasks -> Call] /\ call'[t] = Idle
       /\ \A u \in Tasks : u # t =>
            /\ call'[u].at = call[u].at /\ call'[u].nr = call[u].nr
            /\ call'[u].slot = call[u].slot /\ call'[u].empty = call[u].empty
            /\ call'[u].wait # "no" => call[u].wait # "no"
  <2>1. PICK g : g = Woken(call, inode[s].i_wait)
    OBVIOUS
  <2>2. call \in [Tasks -> Call]
    BY <1>1 DEF TypeOK
  <2>3. /\ g \in [Tasks -> Call]
        /\ \A u \in Tasks :
             /\ g[u].at = call[u].at /\ g[u].nr = call[u].nr
             /\ g[u].slot = call[u].slot /\ g[u].empty = call[u].empty
             /\ g[u].wait # "no" => call[u].wait # "no"
    BY <2>1, <2>2, WokenSame
  <2>4. call' = [g EXCEPT ![t] = Idle]
    BY <2>1, <1>2 DEF ReadDone
  <2>5. call' \in [Tasks -> Call] /\ call'[t] = Idle /\ \A u \in Tasks : u # t => call'[u] = g[u]
    BY <2>3, <2>4, IdleCall
  <2> QED
    BY <2>3, <2>5
<1>11. /\ held' \in [Tasks -> Slots \cup {NULL}] /\ held'[t] = s
       /\ \A u \in Tasks : u # t => held'[u] = held[u]
  BY <1>1, <1>2 DEF TypeOK, ReadDone
<1>12. OthersWait(t)
  BY <1>10, <1>11 DEF OthersWait, SameCall
<1>13. TypeOK'
  BY <1>1, <1>9, <1>10, <1>11 DEF TypeOK
<1>14. RefOf(t)' = s
  BY <1>1, <1>11 DEF RefOf
<1>15. Locks(t, s) /\ \A r \in Slots : ~Locks(t, r)' /\ (r # s => ~Locks(t, r))
  BY <1>1, <1>2, <1>10, IdleCall DEF Locks
<1>16. LockOK(s)'
  BY <1>3, <1>7, <1>9, <1>12, <1>15, LocksMove
<1>17. SlotOK(s)'
  BY <1>1, <1>3, <1>4, <1>5, <1>7, <1>9 DEF SlotOK, OnDisk
<1>18. CountOK(s)'
  BY <1>3, <1>7, <1>9, <1>12, <1>14, CountsMove DEF IInv
<1>19. ASSUME NEW u \in Tasks, u # t, RefOf(u) = s
       PROVE  Kept(u, t)
  BY <1>1, <1>3, <1>19 DEF RefOK, Sole
<1>20. Shape(t)'
  BY <1>10, IdleCall DEF Shape
<1>21. RefOK(t)'
  BY <1>5, <1>7, <1>9, <1>10, <1>14, IdleCall DEF RefOK
<1>22. /\ \A m \in Nums : m # i.i_num => (m \in dir' <=> m \in dir) /\ disk'[m] = disk[m]
       /\ \A u \in Tasks : u # t /\ call[u].nr # NULL => call[u].nr \in dir'
  BY <1>1 DEF IInv, Shape
<1>23. \A r \in Slots : r # s =>
         /\ Locks(t, r)' <=> Locks(t, r)
         /\ (call'[t].at = "read" /\ call'[t].slot = r) <=> (call[t].at = "read" /\ call[t].slot = r)
  BY <1>2, <1>10, <1>15, IdleCall
<1>24. imap' = imap /\ RefOf(t)' = RefOf(t) /\ i.i_num # NULL
  BY <1>1, <1>3, <1>5, <1>7, <1>14
<1> QED
  BY <1>7, <1>8, <1>12, <1>13, <1>16, <1>17, <1>18, <1>19, <1>20, <1>21, <1>22, <1>23, <1>24,
     SlotChanges

\* iput() gives the inode back.
LEMMA GiveBackOK ==
  ASSUME IInv, NEW t \in Tasks, At(t, "put"), Unlocked(t),
         LET i == inode[call[t].slot]
         IN  i.i_count > 1 \/ (i.i_count = 1 /\ i.i_nlinks > 0 /\ ~i.i_dirt),
         inode' = [inode EXCEPT ![call[t].slot].i_count = @ - 1],
         Return(t, NULL), UNCHANGED <<imap, dir, disk>>
  PROVE  IInv'
<1>1. call[t] \in Call /\ Shape(t) /\ RefOK(t)
      /\ call[t].at = "put" /\ call[t].wait = "no" /\ NULL \notin Slots /\ TypeOK
  BY RefType, NullIsNone DEF IInv, At
<1>2. PICK s \in Slots : s = call[t].slot
  BY <1>1 DEF Shape
<1>3. RefOf(t) = s /\ SlotOK(s) /\ LockOK(s) /\ ~inode[s].i_lock
  BY <1>1, <1>2 DEF RefOf, Shape, IInv, Unlocked
<1>4. inode[s].i_num # NULL /\ inode[s] \in InodeRec /\ ~Reading(s)
  BY <1>1, <1>2, <1>3, ReadersLock DEF RefOK, TypeOK
<1>5. PICK n \in Nums : n = inode[s].i_num /\ n \in imap
  BY <1>1, <1>3, <1>4 DEF SlotOK, TypeOK
<1>6. inode[s].i_count \in Nat /\ inode[s].i_nlinks \in 0 .. 1
  BY <1>4 DEF InodeRec
<1>7. inode[s].i_count > 1 \/ (inode[s].i_count = 1 /\ inode[s].i_nlinks = 1 /\ ~inode[s].i_dirt)
  BY <1>2, <1>6
<1>8. PICK k \in Nat : k = inode[s].i_count - 1
  BY <1>6, <1>7
<1>9. k = 0 => inode[s].i_nlinks = 1 /\ ~inode[s].i_dirt
  BY <1>6, <1>7, <1>8
<1>10. PICK i : i = [inode[s] EXCEPT !.i_count = k]
  OBVIOUS
<1>11. /\ i \in InodeRec /\ i.i_lock = inode[s].i_lock /\ i.i_num = inode[s].i_num
       /\ i.i_count = k /\ i.i_dirt = inode[s].i_dirt
       /\ i.i_nlinks = inode[s].i_nlinks /\ i.latest = inode[s].latest
  BY <1>4, <1>10 DEF InodeRec
<1>12. inode' = [inode EXCEPT ![s] = i]
  BY <1>2, <1>8, <1>10
<1>13. inode' \in [Slots -> InodeRec] /\ inode'[s] = i
  BY <1>1, <1>11, <1>12, NewInode
<1>14. call' = [call EXCEPT ![t] = Idle] /\ held' = [held EXCEPT ![t] = NULL]
  BY DEF Return
<1>15. /\ call' \in [Tasks -> Call] /\ held' \in [Tasks -> Slots \cup {NULL}]
       /\ call'[t] = Idle /\ OthersWait(t) /\ RefOf(t)' = NULL /\ Shape(t)'
       /\ \A r : ~Locks(t, r)'
  BY <1>1, <1>14, ReturnMoves
<1>16. TypeOK'
  BY <1>1, <1>13, <1>15 DEF TypeOK
<1>17. \A r \in Slots : ~Locks(t, r)
  BY <1>1 DEF Locks
<1>18. LockOK(s)'
  BY <1>3, <1>11, <1>13, <1>15, <1>17, LocksMove
<1>19. Reading(s)' <=> Reading(s)
  BY <1>1, <1>15, IdleCall, SameReading
<1>20. SlotOK(s)'
  <2>1. n \in imap' /\ (n \in dir' <=> n \in dir) /\ disk'[n] = disk[n]
    BY <1>5
  <2>2. /\ inode'[s].i_num = n /\ inode'[s].i_count = k /\ ~inode'[s].i_lock
        /\ inode'[s].i_dirt = inode[s].i_dirt /\ inode'[s].i_nlinks = inode[s].i_nlinks
        /\ inode'[s].latest = inode[s].latest
    BY <1>3, <1>5, <1>11, <1>13
  <2>3. inode[s].latest /\ (inode[s].i_nlinks = 1 <=> n \in dir)
    BY <1>3, <1>4, <1>5 DEF SlotOK
  <2>4. ~inode[s].i_dirt => OnDisk(n)
    BY <1>3, <1>4, <1>5 DEF SlotOK
  <2>5. OnDisk(n)' <=> OnDisk(n)
    BY <2>1 DEF OnDisk
  <2> QED
    BY <1>4, <1>5, <1>9, <2>1, <2>2, <2>3, <2>4, <2>5 DEF SlotOK
<1>21. CountOK(s)'
  <2>1. RefOf(t)' # s /\ RefOf(t) = s /\ inode'[s].i_count = inode[s].i_count - 1
    BY <1>1, <1>3, <1>8, <1>11, <1>13, <1>15
  <2>2. CountOK(s)
    BY DEF IInv
  <2> QED
    BY <1>15, <2>1, <2>2, CountsMove
<1>22. ASSUME NEW u \in Tasks, u # t, RefOf(u) = s
       PROVE  Kept(u, t)
  <2>1. call[u].at \notin {"found", "read", "truncate"}
    BY <1>1, <1>3, <1>22, NotSole
  <2> QED
    BY <1>11, <1>13, <1>22, <2>1 DEF Kept
<1>23. RefOK(t)'
  BY <1>15, IdleCall DEF RefOK
<1>24. /\ \A m \in Nums : m # i.i_num => (m \in dir' <=> m \in dir) /\ disk'[m] = disk[m]
       /\ \A u \in Tasks : u # t /\ call[u].nr # NULL => call[u].nr \in dir'
  BY DEF IInv, Shape
<1>25. \A r \in Slots : r # s =>
         /\ Locks(t, r)' <=> Locks(t, r)
         /\ (call'[t].at = "read" /\ call'[t].slot = r) <=> (call[t].at = "read" /\ call[t].slot = r)
  BY <1>1, <1>15, <1>17, IdleCall
<1> QED
  BY <1>3, <1>4, <1>11, <1>12, <1>15, <1>16, <1>18, <1>20, <1>21, <1>22, <1>23, <1>24, <1>25,
     SlotChanges

LEMMA PutInodeOK ==
  ASSUME IInv, NEW t \in Tasks, PutInode(t)
  PROVE  IInv'
<1>1. /\ call[t].at = "put" /\ call[t].wait = "no" /\ At(t, "put") /\ Unlocked(t)
      /\ Shape(t) /\ NULL \notin Slots
  BY RefType, NullIsNone DEF PutInode, At
<1>2. RefOf(t) = call[t].slot /\ call[t].slot \in Slots
  BY <1>1 DEF RefOf, Shape
<1>3. inode[call[t].slot].i_count # 0
  BY <1>2, RefType
<1>4. CASE /\ inode[call[t].slot].i_count = 1 /\ inode[call[t].slot].i_nlinks = 0
           /\ Goto(t, "truncate")
           /\ UNCHANGED <<inode, imap, dir, disk, held>>
  BY <1>1, <1>4, TruncateOK
<1>5. CASE inode[call[t].slot].i_dirt /\ WriteInode(t, "putwrite")
  BY <1>1, <1>5, WriteInodeOK
<1>6. CASE /\ LET i == inode[call[t].slot]
              IN  i.i_count > 1 \/ (i.i_count = 1 /\ i.i_nlinks > 0 /\ ~i.i_dirt)
           /\ inode' = [inode EXCEPT ![call[t].slot].i_count = @ - 1]
           /\ Return(t, NULL)
           /\ UNCHANGED <<imap, dir, disk>>
  BY <1>1, <1>6, GiveBackOK
<1> QED
  BY <1>3, <1>4, <1>5, <1>6 DEF PutInode

\* free_inode(): nobody else has got the inode, and its number has no name.
LEMMA FreeInodeOK ==
  ASSUME IInv, NEW t \in Tasks, FreeInode(t)
  PROVE  IInv'
<1>1. call[t] \in Call /\ Shape(t) /\ RefOK(t)
      /\ call[t].at = "truncate" /\ call[t].wait = "no" /\ NULL \notin Slots /\ TypeOK
  BY RefType, NullIsNone DEF IInv, FreeInode, At
<1>2. PICK s \in Slots : s = call[t].slot
  BY <1>1 DEF Shape
<1>3. RefOf(t) = s /\ SlotOK(s) /\ LockOK(s) /\ CountOK(s) /\ ~inode[s].i_lock
      /\ inode[s].i_num # NULL /\ inode[s].i_nlinks = 0
      /\ \A u \in Tasks : RefOf(u) = s => u = t
  BY <1>1, <1>2 DEF RefOf, Shape, IInv, RefOK, Sole
<1>4. inode[s].i_count = 1
  <2>1. Refs(s) = {t} /\ Refs(s) \in SUBSET Tasks
    BY <1>3 DEF Refs
  <2>2. Cardinality(Refs(s)) = 1
    BY <2>1, CountRefs
  <2> QED
    BY <2>2, <1>3 DEF CountOK
<1>5. PICK n \in Nums : n = inode[s].i_num /\ n \in imap
  BY <1>1, <1>3 DEF SlotOK, TypeOK
<1>6. ~Reading(s)
  BY <1>3, ReadersLock
<1>7. n \notin dir
  BY <1>3, <1>5, <1>6 DEF SlotOK
<1>8. /\ imap' = imap \ {n} /\ dir' = dir /\ Return(t, NULL)
      /\ inode' = [inode EXCEPT ![s] = Zero]
      /\ disk' = [disk EXCEPT ![n].latest = TRUE]
  BY <1>2, <1>4, <1>5 DEF FreeInode
<1>9. inode' \in [Slots -> InodeRec] /\ inode'[s] = Zero /\ \A r \in Slots : r # s => SameInode(r)
  BY <1>1, <1>8, ZeroInode, NewInode
<1>10. PICK e : e = [disk[n] EXCEPT !.latest = TRUE]
  OBVIOUS
<1>11. e \in [i_nlinks : 0 .. 1, latest : BOOLEAN]
  <2>1. disk[n] \in [i_nlinks : 0 .. 1, latest : BOOLEAN]
    BY <1>1 DEF TypeOK
  <2> QED
    BY <1>10, <2>1
<1>12. /\ disk' \in [Nums -> [i_nlinks : 0 .. 1, latest : BOOLEAN]]
       /\ \A m \in Nums : m # n => disk'[m] = disk[m]
  BY <1>1, <1>8, <1>10, <1>11, NewDisk
<1>13. call' = [call EXCEPT ![t] = Idle] /\ held' = [held EXCEPT ![t] = NULL]
  BY <1>8 DEF Return
<1>14. /\ call' \in [Tasks -> Call] /\ held' \in [Tasks -> Slots \cup {NULL}]
       /\ call'[t] = Idle /\ OthersWait(t) /\ RefOf(t)' = NULL /\ Shape(t)'
       /\ \A r : ~Locks(t, r)'
  BY <1>1, <1>13, ReturnMoves
<1>15. TypeOK'
  <2>1. imap' \subseteq Nums /\ dir' \subseteq imap'
    BY <1>1, <1>7, <1>8 DEF TypeOK
  <2> QED
    BY <1>9, <1>12, <1>14, <2>1 DEF TypeOK
<1>16. \A r \in Slots : ~Locks(t, r)
  BY <1>1 DEF Locks
<1>17. LockOK(s)'
  BY <1>3, <1>9, <1>14, <1>16, ZeroInode, LocksMove
<1>18. SlotOK(s)'
  BY <1>9, ZeroInode DEF SlotOK
<1>19. CountOK(s)'
  BY <1>1, <1>3, <1>4, <1>9, <1>14, ZeroInode, CountsMove
<1>20. ASSUME NEW r \in Slots, r # s
       PROVE  Apart(r, t)
  <2>1. SameInode(r) /\ (RefOf(t)' = r <=> RefOf(t) = r) /\ (Locks(t, r)' <=> Locks(t, r))
    BY <1>1, <1>3, <1>9, <1>14, <1>16, <1>20
  <2>2. (call'[t].at = "read" /\ call'[t].slot = r) <=> (call[t].at = "read" /\ call[t].slot = r)
    BY <1>1, <1>14, IdleCall
  <2>3. ASSUME inode[r].i_num # NULL
        PROVE  /\ inode[r].i_num \in imap'
               /\ inode[r].i_num \in dir' <=> inode[r].i_num \in dir
               /\ disk'[inode[r].i_num] = disk[inode[r].i_num]
    <3>1. inode[r].i_num \in imap /\ inode[r].i_num # n
      BY <1>5, <1>20, <2>3 DEF IInv, SlotOK, OneInodePerNumber
    <3>2. inode[r].i_num \in Nums
      BY <1>1, <3>1 DEF TypeOK
    <3> QED
      BY <3>1, <3>2, <1>8, <1>12
  <2> QED
    BY <2>1, <2>2, <2>3 DEF Apart
<1>21. ASSUME NEW m \in imap'
       PROVE  NumOK(m)'
  <2>1. NumOK(m) /\ m \in Nums /\ m # n
    BY <1>1, <1>8 DEF IInv, TypeOK
  <2>2. disk'[m] = disk[m] /\ (m \in dir' <=> m \in dir)
    BY <1>8, <1>12, <2>1
  <2>3. (\A r \in Slots : inode'[r].i_num # m) => \A r \in Slots : inode[r].i_num # m
    BY <1>5, <1>9, <2>1 DEF SameInode
  <2> QED
    BY <2>1, <2>2, <2>3 DEF NumOK, OnDisk
<1>22. OneInodePerNumber'
  <2>1. Slots' = Slots /\ OneInodePerNumber
    BY DEF Slots, IInv
  <2>2. \A r \in Slots : inode'[r].i_num \in {NULL, inode[r].i_num}
    BY <1>9, ZeroInode DEF SameInode
  <2> QED
    BY <2>1, <2>2 DEF OneInodePerNumber
<1>23. RefOK(t)'
  BY <1>14, IdleCall DEF RefOK
<1>24. \A u \in Tasks : u # t /\ call[u].nr # NULL => call[u].nr \in dir'
  BY <1>8 DEF IInv, Shape
<1>25. PICK T : T = {s}
  OBVIOUS
<1>26. /\ T \in SUBSET Slots /\ \A r \in Slots \ T : Apart(r, t)
       /\ \A r \in T : LockOK(r)' /\ SlotOK(r)' /\ CountOK(r)'
  BY <1>17, <1>18, <1>19, <1>20, <1>25
<1>27. \A u \in Tasks : u # t /\ RefOf(u) \in T => Kept(u, t)
  BY <1>3, <1>25
<1> QED
  BY <1>14, <1>15, <1>21, <1>22, <1>23, <1>24, <1>26, <1>27, Touches

-----------------------------------------------------------------------------
(* Steps that use an empty inode.                                          *)

\* The slot e is an empty inode that t has got, or just gets, in the table tab;
\* a file whose inode is in no other slot is on the disk.
Reserved(t, e, tab) ==
  /\ tab \in [Slots -> InodeRec]
  /\ tab[e].i_num = NULL /\ tab[e].i_count = 1 /\ ~tab[e].i_dirt /\ ~tab[e].i_lock
  /\ \A r \in Slots : r # e => tab[r] = inode[r]
  /\ \A u \in Tasks : RefOf(u) = e => u = t
  /\ RefOf(t) \in {NULL, e}
  /\ ~inode[e].i_lock
  /\ \A n \in imap : (\A r \in Slots : r # e => inode[r].i_num # n) => n \in dir /\ OnDisk(n)

\* get_empty_inode() finds a free one ...
LEMMA FreeIsReserved ==
  ASSUME IInv, NEW t \in Tasks, call[t].at \in {"idle", "name"}, held[t] = NULL, NEW e \in Free
  PROVE  e \in Slots /\ Reserved(t, e, Emptied(e))
<1>1. e \in Slots /\ inode[e].i_count = 0 /\ SlotOK(e) /\ CountOK(e) /\ TypeOK
  BY DEF Free, IInv
<1>2. PICK z : z = [Zero EXCEPT !.i_count = 1]
  OBVIOUS
<1>3. z \in InodeRec /\ z.i_num = NULL /\ z.i_count = 1 /\ ~z.i_dirt /\ ~z.i_lock
  <2>1. Zero \in InodeRec /\ 1 \in Nat
    BY ZeroInode
  <2>2. z \in InodeRec
    BY <1>2, <2>1 DEF InodeRec
  <2>3. z.i_num = NULL /\ z.i_count = 1 /\ ~z.i_dirt /\ ~z.i_lock
    BY <1>2 DEF Zero
  <2> QED
    BY <2>2, <2>3
<1>4. PICK tab : tab = [inode EXCEPT ![e] = z]
  OBVIOUS
<1>5. tab \in [Slots -> InodeRec] /\ tab[e] = z /\ \A r \in Slots : r # e => tab[r] = inode[r]
  BY <1>1, <1>3, <1>4 DEF TypeOK
<1>6. tab = Emptied(e)
  BY <1>2, <1>4 DEF Emptied
<1>7. \A u \in Tasks : RefOf(u) # e
  <2>1. Refs(e) \in SUBSET Tasks
    BY DEF Refs
  <2>2. Cardinality(Refs(e)) = 0
    BY <1>1 DEF CountOK
  <2>3. Refs(e) = {}
    BY <2>1, <2>2, CountRefs
  <2> QED
    BY <2>3 DEF Refs
<1>8. RefOf(t) = NULL
  BY DEF RefOf
<1>9. ~inode[e].i_lock
  BY <1>1 DEF SlotOK
<1>10. ASSUME NEW n \in imap, \A r \in Slots : r # e => inode[r].i_num # n
       PROVE  n \in dir /\ OnDisk(n)
  <2>1. n # NULL /\ NumOK(n)
    BY <1>1, NullIsNone DEF TypeOK, IInv
  <2>2. CASE inode[e].i_num = n
    BY <1>1, <2>1, <2>2 DEF SlotOK
  <2>3. CASE inode[e].i_num # n
    BY <2>1, <2>3, <1>10 DEF NumOK
  <2> QED
    BY <2>2, <2>3
<1>11. Reserved(t, e, tab)
  BY <1>3, <1>5, <1>7, <1>8, <1>9, <1>10 DEF Reserved
<1> QED
  BY <1>1, <1>6, <1>11

\* ... which iget() still has got when it has waited.
LEMMA WaiterHasReserved ==
  ASSUME IInv, NEW t \in Tasks, call[t].at = "found"
  PROVE  call[t].empty \in Slots /\ Reserved(t, call[t].empty, inode)
<1>1. call[t] \in Call /\ Shape(t) /\ RefOK(t) /\ TypeOK
  BY RefType DEF IInv
<1>2. PICK e \in Slots : e = call[t].empty
  BY <1>1 DEF Shape, Call
<1>3. RefOf(t) = e /\ SlotOK(e) /\ CountOK(e) /\ inode[e].i_num = NULL
      /\ \A u \in Tasks : RefOf(u) = e => u = t
  BY <1>1, <1>2 DEF RefOf, Shape, IInv, RefOK, Sole
<1>4. inode[e].i_count = 1
  <2>1. Refs(e) = {t} /\ Refs(e) \in SUBSET Tasks
    BY <1>3 DEF Refs
  <2>2. Cardinality(Refs(e)) = 1
    BY <2>1, CountRefs
  <2> QED
    BY <2>2, <1>3 DEF CountOK
<1>5. ~inode[e].i_dirt /\ ~inode[e].i_lock
  BY <1>3 DEF SlotOK
<1>6. ASSUME NEW n \in imap, \A r \in Slots : r # e => inode[r].i_num # n
      PROVE  n \in dir /\ OnDisk(n)
  <2>1. n # NULL /\ NumOK(n)
    BY <1>1, NullIsNone DEF TypeOK, IInv
  <2> QED
    BY <2>1, <1>3, <1>6 DEF NumOK
<1> QED
  BY <1>1, <1>2, <1>3, <1>4, <1>5, <1>6 DEF Reserved, TypeOK

\* A step that gives the empty inode a number or back, and at most changes the
\* slots F besides.
LEMMA EmptyTouches ==
  ASSUME IInv, TypeOK', NEW t \in Tasks, OthersWait(t),
         call[t].at \in {"idle", "name", "found"},
         NEW e \in Slots, NEW tab, Reserved(t, e, tab),
         NEW F \in SUBSET Slots, e \notin F,
         \A r \in Slots : r # e /\ r \notin F => SameInode(r) /\ RefOf(t)' # r,
         \A r \in Slots : r # e => inode'[r].i_num = inode[r].i_num /\ ~Locks(t, r)',
         \A r \in F : LockOK(r)' /\ SlotOK(r)' /\ CountOK(r)',
         \A u \in Tasks : u # t /\ RefOf(u) \in F => Kept(u, t),
         SlotOK(e)', inode'[e].i_lock <=> Locks(t, e)',
         \/ RefOf(t)' = e /\ inode'[e].i_count = 1
         \/ RefOf(t)' # e /\ inode'[e].i_count = 0,
         NEW x, inode'[e].i_num = x,
         x = NULL \/ \A r \in Slots : r # e => inode[r].i_num # x,
         imap \subseteq imap', \A n \in imap' : n \in imap \/ n = x,
         \A n \in imap : (n \in dir' <=> n \in dir) /\ disk'[n] = disk[n],
         Shape(t)', RefOK(t)'
  PROVE  IInv'
<1>1. \A r \in Slots : ~Locks(t, r)
  BY DEF Locks
<1>2. \A u \in Tasks : u # t => RefOf(u) # e
  BY DEF Reserved
<1>3. LockOK(e)'
  <2>1. LockOK(e) /\ ~inode[e].i_lock
    BY DEF IInv, Reserved
  <2> QED
    BY <1>1, <2>1, LocksMove
<1>4. CountOK(e)'
  <2>1. \A u \in Tasks : u # t => RefOf(u)' # e
    BY <1>2, SameRefs DEF OthersWait
  <2>2. CASE RefOf(t)' = e /\ inode'[e].i_count = 1
    <3>1. Refs(e)' = {t} /\ Refs(e)' \in SUBSET Tasks
      BY <2>1, <2>2 DEF Refs
    <3>2. Cardinality(Refs(e)') = 1
      BY <3>1, CountRefs
    <3> QED
      BY <3>2, <2>2 DEF CountOK
  <2>3. CASE RefOf(t)' # e /\ inode'[e].i_count = 0
    <3>1. Refs(e)' = {}
      BY <2>1, <2>3 DEF Refs
    <3>2. Cardinality(Refs(e)') = 0
      BY <3>1, FS_EmptySet, Zenon
    <3> QED
      BY <3>2, <2>3 DEF CountOK
  <2> QED
    BY <2>2, <2>3
<1>5. ASSUME NEW r \in Slots, r # e, r \notin F
      PROVE  Apart(r, t)
  <2>1. SameInode(r) /\ (RefOf(t)' = r <=> RefOf(t) = r) /\ (Locks(t, r)' <=> Locks(t, r))
    BY <1>1, <1>5, NullIsNone DEF Reserved
  <2>2. (call'[t].at = "read" /\ call'[t].slot = r) <=> (call[t].at = "read" /\ call[t].slot = r)
    BY <1>5 DEF Locks
  <2>3. ASSUME inode[r].i_num # NULL
        PROVE  /\ inode[r].i_num \in imap'
               /\ inode[r].i_num \in dir' <=> inode[r].i_num \in dir
               /\ disk'[inode[r].i_num] = disk[inode[r].i_num]
    <3>1. inode[r].i_num \in imap
      BY <2>3 DEF IInv, SlotOK
    <3> QED
      BY <3>1
  <2> QED
    BY <2>1, <2>2, <2>3 DEF Apart
<1>6. ASSUME NEW n \in imap'
      PROVE  NumOK(n)'
  <2>1. CASE n = x
    BY <2>1 DEF NumOK
  <2>2. CASE n # x
    <3>1. n \in imap
      BY <2>2
    <3>2. (\A r \in Slots : inode'[r].i_num # n) => n \in dir /\ OnDisk(n)
      <4>1. (\A r \in Slots : inode'[r].i_num # n) => \A r \in Slots : r # e => inode[r].i_num # n
        OBVIOUS
      <4> QED
        BY <3>1, <4>1 DEF Reserved
    <3>3. (n \in dir' <=> n \in dir) /\ disk'[n] = disk[n]
      BY <3>1
    <3> QED
      BY <3>2, <3>3 DEF NumOK, OnDisk
  <2> QED
    BY <2>1, <2>2
<1>7. OneInodePerNumber'
  <2>1. Slots' = Slots /\ OneInodePerNumber
    BY DEF Slots, IInv
  <2> QED
    BY <2>1 DEF OneInodePerNumber
<1>8. \A u \in Tasks : u # t /\ call[u].nr # NULL => call[u].nr \in dir'
  BY DEF IInv, Shape, TypeOK
<1>9. PICK T : T = F \cup {e}
  OBVIOUS
<1>10. /\ T \in SUBSET Slots /\ \A r \in Slots \ T : Apart(r, t)
       /\ \A r \in T : LockOK(r)' /\ SlotOK(r)' /\ CountOK(r)'
  BY <1>3, <1>4, <1>5, <1>9
<1>11. \A u \in Tasks : u # t /\ RefOf(u) \in T => Kept(u, t)
  BY <1>2, <1>9
<1> QED
  BY <1>6, <1>7, <1>8, <1>10, <1>11, Touches

\* ... and that changes no other.
LEMMA EmptyOnly ==
  ASSUME IInv, TypeOK', NEW t \in Tasks, OthersWait(t),
         call[t].at \in {"idle", "name", "found"},
         NEW e \in Slots, NEW tab, Reserved(t, e, tab),
         \A r \in Slots : r # e => inode'[r] = inode[r] /\ RefOf(t)' # r /\ ~Locks(t, r)',
         SlotOK(e)', inode'[e].i_lock <=> Locks(t, e)',
         \/ RefOf(t)' = e /\ inode'[e].i_count = 1
         \/ RefOf(t)' # e /\ inode'[e].i_count = 0,
         NEW x, inode'[e].i_num = x,
         x = NULL \/ \A r \in Slots : r # e => inode[r].i_num # x,
         imap \subseteq imap', \A n \in imap' : n \in imap \/ n = x,
         \A n \in imap : (n \in dir' <=> n \in dir) /\ disk'[n] = disk[n],
         Shape(t)', RefOK(t)'
  PROVE  IInv'
<1>1. PICK F : F = {}
  OBVIOUS
<1>2. /\ F \in SUBSET Slots /\ e \notin F
      /\ \A r \in F : LockOK(r)' /\ SlotOK(r)' /\ CountOK(r)'
      /\ \A u \in Tasks : u # t /\ RefOf(u) \in F => Kept(u, t)
  BY <1>1
<1>3. \A r \in Slots : r # e /\ r \notin F => SameInode(r) /\ RefOf(t)' # r
  BY DEF SameInode
<1>4. \A r \in Slots : r # e => inode'[r].i_num = inode[r].i_num /\ ~Locks(t, r)'
  OBVIOUS
<1> QED
  BY <1>2, <1>3, <1>4, EmptyTouches

\* iget() reads the inode into the empty one, ...
LEMMA ReadStartsOK ==
  ASSUME IInv, NEW t \in Tasks, call[t].at \in {"name", "found"}, call[t].wait = "no",
         NEW e \in Slots, NEW tab, Reserved(t, e, tab),
         \A s \in Slots : tab[s].i_num # call[t].nr,
         inode' = [tab EXCEPT ![e].i_num = call[t].nr, ![e].i_lock = TRUE],
         call' = [call EXCEPT ![t].at = "read", ![t].slot = e, ![t].empty = NULL],
         UNCHANGED <<imap, dir, disk, held>>
  PROVE  IInv'
<1>1. call[t] \in Call /\ Shape(t) /\ TypeOK /\ NULL \notin Slots /\ NULL \notin Nums /\ held[t] = NULL
  BY RefType, NullIsNone DEF IInv, Shape
<1>2. PICK n \in Nums : n = call[t].nr /\ n \in dir /\ n \in imap /\ n # NULL
  BY <1>1 DEF Shape, TypeOK
<1>3. tab \in [Slots -> InodeRec] /\ tab[e].i_count = 1 /\ ~tab[e].i_dirt
      /\ \A r \in Slots : r # e => tab[r] = inode[r]
  BY DEF Reserved
<1>4. PICK i : i = [tab[e] EXCEPT !.i_num = n, !.i_lock = TRUE]
  OBVIOUS
<1>5. i \in InodeRec /\ i.i_num = n /\ i.i_lock = TRUE /\ i.i_count = 1 /\ ~i.i_dirt
  <2>1. tab[e] \in InodeRec /\ n \in Nums \cup {NULL} /\ TRUE \in BOOLEAN
    BY <1>3
  <2>2. i \in InodeRec
    BY <1>4, <2>1 DEF InodeRec
  <2>3. i.i_num = n /\ i.i_lock = TRUE /\ i.i_count = tab[e].i_count /\ i.i_dirt = tab[e].i_dirt
    BY <1>4, <2>1 DEF InodeRec
  <2> QED
    BY <1>3, <2>2, <2>3
<1>6. inode' = [tab EXCEPT ![e] = i]
  BY <1>2, <1>4
<1>7. /\ inode' \in [Slots -> InodeRec] /\ inode'[e] = i
      /\ \A r \in Slots : r # e => inode'[r] = inode[r]
  BY <1>3, <1>5, <1>6
<1>8. PICK c : c = [call[t] EXCEPT !.at = "read", !.slot = e, !.empty = NULL]
  OBVIOUS
<1>9. c \in Call /\ c.at = "read" /\ c.slot = e /\ c.empty = NULL /\ c.nr = n /\ c.wait = "no"
  BY <1>1, <1>2, <1>8 DEF Call
<1>10. call' = [call EXCEPT ![t] = c]
  BY <1>8
<1>11. call' \in [Tasks -> Call] /\ call'[t] = c /\ \A u \in Tasks : u # t => call'[u] = call[u]
  BY <1>1, <1>9, <1>10, NewCall
<1>12. OthersWait(t)
  BY <1>11 DEF OthersWait, SameCall
<1>13. TypeOK'
  BY <1>1, <1>7, <1>11 DEF TypeOK
<1>14. RefOf(t)' = e
  BY <1>1, <1>9, <1>11 DEF RefOf
<1>15. \A r \in Slots : Locks(t, r)' <=> r = e
  BY <1>9, <1>11 DEF Locks
<1>16. \A r \in Slots : r # e => inode[r].i_num # n
  BY <1>2, <1>3
<1>17. SlotOK(e)'
  <2>1. OnDisk(n)
    BY <1>2, <1>16 DEF Reserved
  <2>2. OnDisk(n)'
    BY <2>1 DEF OnDisk
  <2>3. Reading(e)'
    BY <1>9, <1>11 DEF Reading
  <2>4. /\ inode'[e].i_num = n /\ inode'[e].i_num \in imap' /\ inode'[e].i_num # NULL
        /\ inode'[e].i_count = 1
    <3>1. n \in imap'
      BY <1>2
    <3> QED
      BY <1>2, <1>5, <1>7, <3>1, Zenon
  <2> QED
    BY <2>2, <2>3, <2>4 DEF SlotOK
<1>18. Shape(t)'
  BY <1>1, <1>2, <1>9, <1>11 DEF Shape
<1>19. RefOK(t)'
  <2>1. \A u \in Tasks : RefOf(u)' = e => u = t
    BY <1>12, SameRefs DEF OthersWait, Reserved
  <2>2. Sole(t, RefOf(t))'
    BY <2>1, <1>14 DEF Sole
  <2>3. /\ inode'[e].i_num = call'[t].nr /\ inode'[e].i_num # NULL /\ ~inode'[e].i_dirt
    BY <1>2, <1>5, <1>7, <1>9, <1>11
  <2> QED
    BY <1>9, <1>11, <1>14, <2>2, <2>3 DEF RefOK
<1>20. \A r \in Slots : r # e => inode'[r] = inode[r] /\ RefOf(t)' # r /\ ~Locks(t, r)'
  BY <1>7, <1>14, <1>15
<1>21. inode'[e].i_lock <=> Locks(t, e)'
  BY <1>5, <1>7, <1>15
<1>22. RefOf(t)' = e /\ inode'[e].i_count = 1 /\ inode'[e].i_num = n
  BY <1>5, <1>7, <1>14
<1>23. imap \subseteq imap' /\ (\A m \in imap' : m \in imap \/ m = n)
       /\ \A m \in imap : (m \in dir' <=> m \in dir) /\ disk'[m] = disk[m]
  OBVIOUS
<1>24. call[t].at \in {"idle", "name", "found"}
  OBVIOUS
<1>25. IInv /\ t \in Tasks /\ e \in Slots /\ Reserved(t, e, tab) /\ n \in Nums
  OBVIOUS
<1> QED
  BY ONLY <1>12, <1>13, <1>16, <1>17, <1>18, <1>19, <1>20, <1>21, <1>22, <1>23, <1>24, <1>25, EmptyOnly

LEMMA FoundLockedOK ==
  ASSUME IInv, NEW t \in Tasks, call[t].at \in {"name", "found"}, call[t].wait = "no",
         NEW e \in Slots, NEW tab, Reserved(t, e, tab), NEW f \in Slots,
         inode' = tab,
         call' = [call EXCEPT ![t].at = "found", ![t].slot = f, ![t].empty = e],
         UNCHANGED <<imap, dir, disk, held>>
  PROVE  IInv'
<1>1. call[t] \in Call /\ Shape(t) /\ TypeOK /\ NULL \notin Slots /\ held[t] = NULL
      /\ call[t].nr # NULL /\ call[t].nr \in dir
  BY RefType, NullIsNone DEF IInv, Shape
<1>2. /\ inode' \in [Slots -> InodeRec] /\ inode'[e].i_count = 1 /\ ~inode'[e].i_dirt
      /\ inode'[e].i_num = NULL /\ ~inode'[e].i_lock
      /\ \A r \in Slots : r # e => inode'[r] = inode[r]
  BY DEF Reserved
<1>3. PICK c : c = [call[t] EXCEPT !.at = "found", !.slot = f, !.empty = e]
  OBVIOUS
<1>4. c \in Call /\ c.at = "found" /\ c.slot = f /\ c.empty = e /\ c.nr = call[t].nr /\ c.wait = "no"
  BY <1>1, <1>3 DEF Call
<1>5. call' = [call EXCEPT ![t] = c]
  BY <1>3
<1>6. call' \in [Tasks -> Call] /\ call'[t] = c /\ \A u \in Tasks : u # t => call'[u] = call[u]
  BY <1>1, <1>4, <1>5, NewCall
<1>7. OthersWait(t)
  BY <1>6 DEF OthersWait, SameCall
<1>8. TypeOK'
  BY <1>1, <1>2, <1>6 DEF TypeOK
<1>9. RefOf(t)' = e
  BY <1>1, <1>4, <1>6 DEF RefOf
<1>10. \A r \in Slots : ~Locks(t, r)'
  BY <1>4, <1>6 DEF Locks
<1>11. SlotOK(e)'
  BY <1>2 DEF SlotOK
<1>12. Shape(t)'
  BY <1>1, <1>4, <1>6 DEF Shape
<1>13. RefOK(t)'
  <2>1. \A u \in Tasks : RefOf(u)' = e => u = t
    BY <1>7, SameRefs DEF OthersWait, Reserved
  <2>2. Sole(t, RefOf(t))'
    BY <2>1, <1>9 DEF Sole
  <2> QED
    BY <1>2, <1>4, <1>6, <1>9, <2>2 DEF RefOK
<1>14. \A r \in Slots : r # e => inode'[r] = inode[r] /\ RefOf(t)' # r /\ ~Locks(t, r)'
  BY <1>2, <1>9, <1>10
<1>15. inode'[e].i_lock <=> Locks(t, e)'
  BY <1>2, <1>10
<1>16. imap \subseteq imap' /\ (\A m \in imap' : m \in imap)
       /\ \A m \in imap : (m \in dir' <=> m \in dir) /\ disk'[m] = disk[m]
  OBVIOUS
<1> QED
  BY <1>2, <1>7, <1>8, <1>9, <1>11, <1>12, <1>13, <1>14, <1>15, <1>16, EmptyOnly

\* ... or gets the one it has found, and gives the empty one back.
LEMMA FoundFreeOK ==
  ASSUME IInv, NEW t \in Tasks, call[t].at \in {"name", "found"},
         NEW e \in Slots, NEW tab, Reserved(t, e, tab), NEW f \in Slots,
         tab[f].i_num = call[t].nr, ~tab[f].i_lock,
         inode' = [tab EXCEPT ![f].i_count = @ + 1, ![e].i_count = @ - 1],
         Return(t, f), UNCHANGED <<imap, dir, disk>>
  PROVE  IInv'
<1>1. call[t] \in Call /\ Shape(t) /\ TypeOK /\ NULL \notin Slots /\ NULL \notin Nums
  BY RefType, NullIsNone DEF IInv
<1>2. PICK n \in Nums : n = call[t].nr /\ n \in dir /\ n # NULL
  BY <1>1 DEF Shape, TypeOK
<1>3. tab \in [Slots -> InodeRec] /\ \A r \in Slots : r # e => tab[r] = inode[r]
  BY DEF Reserved
<1>4. f # e /\ tab[f] = inode[f]
  BY <1>2, <1>3 DEF Reserved
<1>5. inode[f].i_num = n /\ ~inode[f].i_lock /\ inode[f] \in InodeRec
      /\ SlotOK(f) /\ LockOK(f) /\ CountOK(f) /\ ~Reading(f)
  BY <1>2, <1>3, <1>4, ReadersLock DEF IInv
<1>6. tab[e] \in InodeRec /\ tab[e].i_num = NULL /\ tab[e].i_count = 1 /\ ~tab[e].i_dirt /\ ~tab[e].i_lock
  BY <1>3 DEF Reserved
<1>7. inode[f].i_count \in Nat /\ tab[e].i_count - 1 = 0 /\ 0 \in Nat
  BY <1>5, <1>6 DEF InodeRec
<1>8. PICK k \in Nat : k = inode[f].i_count + 1
  BY <1>7
<1>9. k # 0
  BY <1>7, <1>8
<1>10. PICK i : i = [inode[f] EXCEPT !.i_count = k]
  OBVIOUS
<1>11. /\ i \in InodeRec /\ i.i_lock = inode[f].i_lock /\ i.i_num = inode[f].i_num
       /\ i.i_count = k /\ i.i_dirt = inode[f].i_dirt
       /\ i.i_nlinks = inode[f].i_nlinks /\ i.latest = inode[f].latest
  BY ONLY <1>5, <1>8, <1>10 DEF InodeRec
<1>12. PICK z : z = [tab[e] EXCEPT !.i_count = 0]
  OBVIOUS
<1>13. /\ z \in InodeRec /\ z.i_lock = tab[e].i_lock /\ z.i_num = NULL
       /\ z.i_count = 0 /\ z.i_dirt = tab[e].i_dirt
  BY ONLY <1>6, <1>7, <1>12 DEF InodeRec
<1>14. inode' = [[tab EXCEPT ![f] = i] EXCEPT ![e] = z]
  <2>1. inode' = [[tab EXCEPT ![f] = [tab[f] EXCEPT !.i_count = tab[f].i_count + 1]]
                    EXCEPT ![e] = [tab[e] EXCEPT !.i_count = tab[e].i_count - 1]]
    BY <1>3, <1>4
  <2> QED
    BY ONLY <2>1, <1>4, <1>7, <1>8, <1>10, <1>12
<1>15. /\ inode' \in [Slots -> InodeRec] /\ inode'[f] = i /\ inode'[e] = z
       /\ \A r \in Slots : r # e /\ r # f => inode'[r] = inode[r]
  BY ONLY <1>3, <1>4, <1>11, <1>13, <1>14, e \in Slots, f \in Slots
<1>16. call' = [call EXCEPT ![t] = Idle] /\ held' = [held EXCEPT ![t] = f]
  BY DEF Return
<1>17. /\ call' \in [Tasks -> Call] /\ held' \in [Tasks -> Slots \cup {NULL}]
       /\ call'[t] = Idle /\ OthersWait(t) /\ RefOf(t)' = f /\ Shape(t)'
       /\ \A r : ~Locks(t, r)'
  BY ONLY <1>1, <1>16, ReturnMoves, t \in Tasks, f \in Slots
<1>18. TypeOK'
  BY <1>1, <1>15, <1>17 DEF TypeOK
<1>19. RefOf(t) # f /\ \A r \in Slots : ~Locks(t, r)
  BY <1>1, <1>4 DEF Reserved, Locks
<1>20. LockOK(f)'
  BY <1>5, <1>11, <1>15, <1>17, <1>19, LocksMove
<1>21. CountOK(f)'
  <2>1. RefOf(t)' = f /\ RefOf(t) # f /\ inode'[f].i_count = inode[f].i_count + 1
    BY <1>8, <1>11, <1>15, <1>17, <1>19
  <2> QED
    BY ONLY <2>1, <1>5, <1>17, CountsMove, t \in Tasks, f \in Slots
<1>22. SlotOK(f)'
  <2>1. n \in imap' /\ n \in dir' /\ (OnDisk(n)' <=> OnDisk(n))
    BY <1>1, <1>2 DEF TypeOK, OnDisk
  <2>2. inode[f].latest /\ inode[f].i_nlinks = 1 /\ (~inode[f].i_dirt => OnDisk(n))
    BY <1>2, <1>5 DEF SlotOK
  <2>3. /\ inode'[f].i_num = n /\ inode'[f].i_count = k /\ ~inode'[f].i_lock
        /\ inode'[f].i_dirt = inode[f].i_dirt /\ inode'[f].i_nlinks = 1 /\ inode'[f].latest
    BY ONLY <1>5, <1>11, <1>15, <2>2
  <2> QED
    BY ONLY <1>2, <1>9, <2>1, <2>2, <2>3 DEF SlotOK
<1>23. ASSUME NEW u \in Tasks, u # t, RefOf(u) = f
       PROVE  Kept(u, t)
  <2>1. Shape(u) /\ RefOK(u)
    BY RefType
  <2>2. call[u].at # "found"
    BY <1>1, <1>2, <1>5, <1>23, <2>1 DEF RefOf, Shape, RefOK
  <2>3. call[u].at # "read"
    BY <1>1, <1>5, <1>23, <2>1 DEF RefOf, Shape, Reading
  <2>4. call[u].at # "truncate"
    <3>1. inode[f].i_nlinks = 1
      BY <1>2, <1>5 DEF SlotOK
    <3> QED
      BY <3>1, <1>1, <1>23, <2>1 DEF RefOf, Shape, RefOK
  <2> QED
    BY ONLY <1>11, <1>15, <1>23, <2>2, <2>3, <2>4 DEF Kept
<1>24. SlotOK(e)' /\ (inode'[e].i_lock <=> Locks(t, e)') /\ inode'[e].i_num = NULL
       /\ RefOf(t)' # e /\ inode'[e].i_count = 0
  <2>1. inode'[e].i_num = NULL /\ inode'[e].i_count = 0 /\ ~inode'[e].i_dirt /\ ~inode'[e].i_lock
    BY ONLY <1>6, <1>13, <1>15
  <2> QED
    BY ONLY <2>1, <1>4, <1>17 DEF SlotOK
<1>25. RefOK(t)'
  <2>1. inode'[f].i_num # NULL
    BY <1>2, <1>5, <1>11, <1>15
  <2> QED
    BY ONLY <2>1, <1>17, IdleCall DEF RefOK
<1>26. PICK F : F = {f}
  OBVIOUS
<1>27. /\ F \in SUBSET Slots /\ e \notin F
       /\ \A r \in F : LockOK(r)' /\ SlotOK(r)' /\ CountOK(r)'
       /\ \A u \in Tasks : u # t /\ RefOf(u) \in F => Kept(u, t)
  BY ONLY <1>4, <1>20, <1>21, <1>22, <1>23, <1>26, f \in Slots
<1>28. \A r \in Slots : r # e /\ r \notin F => SameInode(r) /\ RefOf(t)' # r
  BY ONLY <1>15, <1>17, <1>26 DEF SameInode
<1>29. \A r \in Slots : r # e => inode'[r].i_num = inode[r].i_num /\ ~Locks(t, r)'
  BY ONLY <1>11, <1>15, <1>17
<1>30. /\ imap \subseteq imap' /\ (\A m \in imap' : m \in imap)
       /\ \A m \in imap : (m \in dir' <=> m \in dir) /\ disk'[m] = disk[m]
       /\ IInv /\ t \in Tasks /\ e \in Slots /\ Reserved(t, e, tab)
       /\ call[t].at \in {"idle", "name", "found"}
  OBVIOUS
<1> QED
  BY ONLY <1>17, <1>18, <1>24, <1>25, <1>27, <1>28, <1>29, <1>30, EmptyTouches

LEMMA ScanOK ==
  ASSUME IInv, NEW t \in Tasks, call[t].at \in {"name", "found"}, call[t].wait = "no",
         NEW e \in Slots, NEW tab, Reserved(t, e, tab), Scan(t, tab, e),
         UNCHANGED <<imap, dir, disk>>
  PROVE  IInv'
<1>1. PICK found : found = {s \in Slots : tab[s].i_num = call[t].nr}
  OBVIOUS
<1>2. CASE found = {}
  <2>1. /\ inode' = [tab EXCEPT ![e].i_num = call[t].nr, ![e].i_lock = TRUE]
        /\ call' = [call EXCEPT ![t].at = "read", ![t].slot = e, ![t].empty = NULL]
        /\ UNCHANGED <<imap, dir, disk, held>>
    BY <1>1, <1>2 DEF Scan
  <2>2. \A s \in Slots : tab[s].i_num # call[t].nr
    BY <1>1, <1>2
  <2> QED
    BY <2>1, <2>2, ReadStartsOK
<1>3. CASE found # {}
  <2>1. PICK f : f = Min(found)
    OBVIOUS
  <2>2. f \in Slots /\ tab[f].i_num = call[t].nr
    <3>1. found \in SUBSET Nat
      BY <1>1 DEF Slots
    <3>2. f \in found
      BY <1>3, <2>1, <3>1, MinIsLeast
    <3> QED
      BY <1>1, <3>2
  <2>3. CASE tab[f].i_lock
    <3>1. /\ inode' = tab
          /\ call' = [call EXCEPT ![t].at = "found", ![t].slot = f, ![t].empty = e]
          /\ UNCHANGED <<imap, dir, disk, held>>
      BY <1>1, <1>3, <2>1, <2>3 DEF Scan
    <3> QED
      BY <2>2, <3>1, FoundLockedOK
  <2>4. CASE ~tab[f].i_lock
    <3>1. /\ inode' = [tab EXCEPT ![f].i_count = @ + 1, ![e].i_count = @ - 1]
          /\ Return(t, f)
      BY <1>1, <1>3, <2>1, <2>4 DEF Scan
    <3> QED
      BY <2>2, <2>4, <3>1, FoundFreeOK
  <2> QED
    BY <2>3, <2>4
<1> QED
  BY <1>2, <1>3

LEMMA igetOK ==
  ASSUME IInv, NEW t \in Tasks, iget(t)
  PROVE  IInv'
<1>1. call[t].at = "name" /\ call[t].wait = "no" /\ held[t] = NULL /\ At(t, "name")
  BY RefType DEF iget, At, Shape
<1>2. CASE NoneEmpty(t)
  BY <1>1, <1>2, NoneEmptyOK
<1>3. CASE \E s \in Free : Scan(t, Emptied(s), s) /\ UNCHANGED <<imap, dir, disk>>
  <2>1. PICK e \in Free : Scan(t, Emptied(e), e) /\ UNCHANGED <<imap, dir, disk>>
    BY <1>3
  <2>2. e \in Slots /\ Reserved(t, e, Emptied(e))
    BY <1>1, FreeIsReserved
  <2>3. PICK tab : tab = Emptied(e)
    OBVIOUS
  <2>4. Scan(t, tab, e) /\ Reserved(t, e, tab)
    BY <2>1, <2>2, <2>3
  <2> QED
    BY <1>1, <2>1, <2>2, <2>4, ScanOK
<1> QED
  BY <1>2, <1>3 DEF iget

LEMMA FoundInodeOK ==
  ASSUME IInv, NEW t \in Tasks, FoundInode(t)
  PROVE  IInv'
<1>1. /\ call[t].at = "found" /\ call[t].wait = "no" /\ Shape(t)
      /\ ~inode[call[t].slot].i_lock /\ UNCHANGED <<imap, dir, disk>>
  BY RefType DEF FoundInode, At, Unlocked
<1>2. PICK e \in Slots : e = call[t].empty /\ Reserved(t, e, inode)
  BY <1>1, WaiterHasReserved
<1>3. PICK f \in Slots : f = call[t].slot
  BY <1>1 DEF Shape
<1>4. CASE inode[f].i_num = call[t].nr
  <2>1. /\ inode' = [inode EXCEPT ![f].i_count = @ + 1, ![e].i_count = @ - 1]
        /\ Return(t, f)
    BY <1>2, <1>3, <1>4 DEF FoundInode
  <2> QED
    BY <1>1, <1>2, <1>3, <1>4, <2>1, FoundFreeOK
<1>5. CASE inode[f].i_num # call[t].nr
  <2>1. Scan(t, inode, e)
    BY <1>2, <1>3, <1>5 DEF FoundInode
  <2> QED
    BY <1>1, <1>2, <2>1, ScanOK
<1> QED
  BY <1>4, <1>5

\* new_inode() without a free number gives the inode back ...
LEMMA NoNumberOK ==
  ASSUME IInv, NEW t \in Tasks, call[t].at = "idle",
         NEW e \in Slots, NEW tab, Reserved(t, e, tab),
         inode' = [tab EXCEPT ![e].i_count = @ - 1],
         Return(t, NULL), UNCHANGED <<imap, dir, disk>>
  PROVE  IInv'
<1>1. TypeOK /\ NULL \notin Slots /\ tab \in [Slots -> InodeRec]
      /\ \A r \in Slots : r # e => tab[r] = inode[r]
  BY NullIsNone DEF IInv, Reserved
<1>2. tab[e] \in InodeRec /\ tab[e].i_num = NULL /\ tab[e].i_count = 1 /\ ~tab[e].i_dirt /\ ~tab[e].i_lock
  BY <1>1 DEF Reserved
<1>3. tab[e].i_count - 1 = 0 /\ 0 \in Nat
  BY <1>2
<1>4. PICK z : z = [tab[e] EXCEPT !.i_count = 0]
  OBVIOUS
<1>5. /\ z \in InodeRec /\ z.i_lock = tab[e].i_lock /\ z.i_num = NULL
      /\ z.i_count = 0 /\ z.i_dirt = tab[e].i_dirt
  BY ONLY <1>2, <1>3, <1>4 DEF InodeRec
<1>6. inode' = [tab EXCEPT ![e] = z]
  BY <1>3, <1>4
<1>7. inode' \in [Slots -> InodeRec] /\ inode'[e] = z /\ \A r \in Slots : r # e => inode'[r] = inode[r]
  BY ONLY <1>1, <1>5, <1>6, e \in Slots
<1>8. call' = [call EXCEPT ![t] = Idle] /\ held' = [held EXCEPT ![t] = NULL]
  BY DEF Return
<1>9. /\ call' \in [Tasks -> Call] /\ held' \in [Tasks -> Slots \cup {NULL}]
      /\ call'[t] = Idle /\ OthersWait(t) /\ RefOf(t)' = NULL /\ Shape(t)'
      /\ \A r : ~Locks(t, r)'
  BY ONLY <1>1, <1>8, ReturnMoves, t \in Tasks
<1>10. TypeOK'
  BY <1>1, <1>7, <1>9 DEF TypeOK
<1>11. /\ inode'[e].i_num = NULL /\ inode'[e].i_count = 0 /\ ~inode'[e].i_dirt /\ ~inode'[e].i_lock
  BY ONLY <1>2, <1>5, <1>7
<1>12. SlotOK(e)' /\ (inode'[e].i_lock <=> Locks(t, e)')
  BY ONLY <1>9, <1>11 DEF SlotOK
<1>13. RefOK(t)'
  BY ONLY <1>9, IdleCall DEF RefOK
<1>14. \A r \in Slots : r # e => inode'[r] = inode[r] /\ RefOf(t)' # r /\ ~Locks(t, r)'
  BY ONLY <1>1, <1>7, <1>9
<1>15. /\ imap \subseteq imap' /\ (\A m \in imap' : m \in imap)
       /\ \A m \in imap : (m \in dir' <=> m \in dir) /\ disk'[m] = disk[m]
       /\ IInv /\ t \in Tasks /\ e \in Slots /\ Reserved(t, e, tab)
       /\ call[t].at \in {"idle", "name", "found"} /\ RefOf(t)' # e
  BY <1>1, <1>9
<1> QED
  BY ONLY <1>9, <1>10, <1>11, <1>12, <1>13, <1>14, <1>15, EmptyOnly

\* ... and with one makes it the inode of a new file.
LEMMA NewFileOK ==
  ASSUME IInv, NEW t \in Tasks, call[t].at = "idle",
         NEW e \in Slots, NEW tab, Reserved(t, e, tab), NEW n \in Nums \ imap,
         inode' = [tab EXCEPT ![e].i_num = n, ![e].i_nlinks = 1, ![e].i_dirt = TRUE, ![e].latest = TRUE],
         imap' = imap \cup {n}, dir' = dir \cup {n},
         disk' = [disk EXCEPT ![n].latest = FALSE],
         Return(t, e)
  PROVE  IInv'
<1>1. TypeOK /\ NULL \notin Slots /\ tab \in [Slots -> InodeRec] /\ n # NULL
      /\ \A r \in Slots : r # e => tab[r] = inode[r]
  BY NullIsNone DEF IInv, Reserved
<1>2. tab[e] \in InodeRec /\ tab[e].i_count = 1 /\ ~tab[e].i_lock
  BY <1>1 DEF Reserved
<1>3. PICK i : i = [tab[e] EXCEPT !.i_num = n, !.i_nlinks = 1, !.i_dirt = TRUE, !.latest = TRUE]
  OBVIOUS
<1>4. /\ i \in InodeRec /\ i.i_num = n /\ i.i_nlinks = 1 /\ i.i_dirt = TRUE /\ i.latest = TRUE
      /\ i.i_count = 1 /\ ~i.i_lock
  <2>1. n \in Nums \cup {NULL} /\ 1 \in 0 .. 1 /\ TRUE \in BOOLEAN
    OBVIOUS
  <2> QED
    BY ONLY <1>2, <1>3, <2>1 DEF InodeRec
<1>5. inode' = [tab EXCEPT ![e] = i]
  BY <1>3
<1>6. inode' \in [Slots -> InodeRec] /\ inode'[e] = i /\ \A r \in Slots : r # e => inode'[r] = inode[r]
  BY ONLY <1>1, <1>4, <1>5, e \in Slots
<1>7. call' = [call EXCEPT ![t] = Idle] /\ held' = [held EXCEPT ![t] = e]
  BY DEF Return
<1>8. /\ call' \in [Tasks -> Call] /\ held' \in [Tasks -> Slots \cup {NULL}]
      /\ call'[t] = Idle /\ OthersWait(t) /\ RefOf(t)' = e /\ Shape(t)'
      /\ \A r : ~Locks(t, r)'
  BY ONLY <1>1, <1>7, ReturnMoves, t \in Tasks, e \in Slots
<1>9. PICK d : d = [disk[n] EXCEPT !.latest = FALSE]
  OBVIOUS
<1>10. d \in [i_nlinks : 0 .. 1, latest : BOOLEAN]
  <2>1. disk[n] \in [i_nlinks : 0 .. 1, latest : BOOLEAN]
    BY <1>1 DEF TypeOK
  <2> QED
    BY ONLY <1>9, <2>1
<1>11. disk' = [disk EXCEPT ![n] = d]
  BY <1>9
<1>12. /\ disk' \in [Nums -> [i_nlinks : 0 .. 1, latest : BOOLEAN]]
       /\ \A m \in Nums : m # n => disk'[m] = disk[m]
  BY ONLY <1>1, <1>10, <1>11, NewDisk, n \in Nums \ imap
<1>13. TypeOK'
  <2>1. imap' \subseteq Nums /\ dir' \subseteq imap'
    BY <1>1 DEF TypeOK
  <2> QED
    BY ONLY <1>6, <1>8, <1>12, <2>1 DEF TypeOK, Slots, Call, InodeRec
<1>14. /\ inode'[e].i_num = n /\ inode'[e].i_count = 1 /\ inode'[e].i_dirt /\ ~inode'[e].i_lock
       /\ inode'[e].i_nlinks = 1 /\ inode'[e].latest /\ n \in imap' /\ n \in dir'
  BY <1>4, <1>6
<1>15. SlotOK(e)' /\ (inode'[e].i_lock <=> Locks(t, e)')
  BY ONLY <1>1, <1>8, <1>14 DEF SlotOK
<1>16. RefOK(t)'
  BY ONLY <1>1, <1>8, <1>14, IdleCall DEF RefOK
<1>17. \A r \in Slots : r # e => inode'[r] = inode[r] /\ RefOf(t)' # r /\ ~Locks(t, r)'
  BY ONLY <1>6, <1>8
<1>18. \A r \in Slots : r # e => inode[r].i_num # n
  BY <1>1 DEF IInv, SlotOK
<1>19. \A m \in imap : (m \in dir' <=> m \in dir) /\ disk'[m] = disk[m]
  <2>1. \A m \in imap : m \in Nums /\ m # n
    BY <1>1 DEF TypeOK
  <2> QED
    BY <2>1, <1>12
<1>20. /\ imap \subseteq imap' /\ (\A m \in imap' : m \in imap \/ m = n)
       /\ IInv /\ t \in Tasks /\ e \in Slots /\ Reserved(t, e, tab)
       /\ call[t].at \in {"idle", "name", "found"}
  OBVIOUS
<1> QED
  BY ONLY <1>8, <1>13, <1>14, <1>15, <1>16, <1>17, <1>18, <1>19, <1>20, EmptyOnly

LEMMA new_inodeOK ==
  ASSUME IInv, NEW t \in Tasks, new_inode(t)
  PROVE  IInv'
<1>1. call[t].at = "idle" /\ call[t].wait = "no" /\ held[t] = NULL /\ At(t, "idle")
  BY DEF new_inode, At
<1>2. CASE NoneEmpty(t)
  BY <1>1, <1>2, NoneEmptyOK
<1>3. CASE \E s \in Free : Create(t, Emptied(s), s)
  <2>1. PICK e \in Free : Create(t, Emptied(e), e)
    BY <1>3
  <2>2. e \in Slots /\ Reserved(t, e, Emptied(e))
    BY <1>1, FreeIsReserved
  <2>3. PICK tab : tab = Emptied(e)
    OBVIOUS
  <2>4. Create(t, tab, e) /\ Reserved(t, e, tab)
    BY <2>1, <2>2, <2>3
  <2>5. CASE Nums \ imap = {}
    <3>1. inode' = [tab EXCEPT ![e].i_count = @ - 1] /\ Return(t, NULL) /\ UNCHANGED <<imap, dir, disk>>
      BY <2>4, <2>5 DEF Create
    <3> QED
      BY <1>1, <2>2, <2>4, <3>1, NoNumberOK
  <2>6. CASE Nums \ imap # {}
    <3>1. PICK n : n = Min(Nums \ imap)
      OBVIOUS
    <3>2. n \in Nums \ imap
      <4>1. Nums \ imap \in SUBSET Nat
        BY TableAssumption
      <4> QED
        BY <2>6, <3>1, <4>1, MinIsLeast
    <3>3. /\ inode' = [tab EXCEPT ![e].i_num = n, ![e].i_nlinks = 1, ![e].i_dirt = TRUE, ![e].latest = TRUE]
          /\ imap' = imap \cup {n} /\ dir' = dir \cup {n}
          /\ disk' = [disk EXCEPT ![n].latest = FALSE]
          /\ Return(t, e)
      BY <2>4, <2>6, <3>1 DEF Create
    <3> QED
      BY <1>1, <2>2, <2>4, <3>2, <3>3, NewFileOK
  <2> QED
    BY <2>5, <2>6
<1> QED
  BY <1>2, <1>3 DEF new_inode

LEMMA SyncInodeOK ==
  ASSUME IInv, Overlaps = {}, NEW t \in Tasks, SyncInode(t)
  PROVE  IInv'
<1>1. At(t, "sync") /\ call[t].at = "sync" /\ call[t].wait = "no" /\ Unlocked(t)
  BY DEF SyncInode, At
<1>2. CASE /\ inode[call[t].slot].i_dirt /\ WriteInode(t, "syncwrite")
           /\ \A u \in Tasks : call[u].at = "truncate" => call[u].slot # call[t].slot
  BY <1>1, <1>2, WriteInodeOK
<1>3. CASE /\ UNCHANGED <<inode, imap, dir, disk, held>>
           /\ call' = [call EXCEPT ![t] = IF call[t].slot = NR_INODE - 1 THEN Idle
                                          ELSE [@ EXCEPT !.slot = call[t].slot + 1]]
  BY <1>1, <1>3, SyncNextOK
<1> QED
  BY <1>2, <1>3 DEF SyncInode

LEMMA StutterOK ==
  ASSUME IInv, UNCHANGED vars
  PROVE  IInv'
<1>1. inode' = inode /\ imap' = imap /\ dir' = dir /\ disk' = disk /\ held' = held /\ call' = call
  BY DEF vars
<1>2. TypeOK' /\ (\A t \in Tasks : Shape(t)') /\ OneInodePerNumber'
  BY <1>1 DEF IInv, TypeOK, Shape, OneInodePerNumber, Slots, Call, InodeRec
<1>3. (\A u \in Tasks : RefOf(u)' = RefOf(u))
  BY <1>1 DEF RefOf
<1>4. ASSUME NEW t \in Tasks
      PROVE  RefOK(t)'
  <2>1. RefOK(t) /\ RefOf(t)' = RefOf(t)
    BY <1>3 DEF IInv
  <2>2. Sole(t, RefOf(t)) => Sole(t, RefOf(t))'
    BY <1>3 DEF Sole
  <2> QED
    BY <1>1, <2>1, <2>2 DEF RefOK
<1>5. ASSUME NEW s \in Slots
      PROVE  LockOK(s)' /\ SlotOK(s)' /\ CountOK(s)'
  <2>1. (Reading(s)' <=> Reading(s)) /\ \A u \in Tasks : Locks(u, s)' <=> Locks(u, s)
    BY <1>1 DEF Reading, Locks
  <2>2. Refs(s)' = Refs(s)
    BY <1>3 DEF Refs
  <2>3. LockOK(s)'
    BY <1>1, <2>1 DEF IInv, LockOK
  <2>4. SlotOK(s)'
    BY <1>1, <2>1 DEF IInv, SlotOK, OnDisk
  <2>5. CountOK(s)'
    BY <1>1, <2>2 DEF IInv, CountOK
  <2> QED
    BY <2>3, <2>4, <2>5
<1>6. ASSUME NEW n \in imap'
      PROVE  NumOK(n)'
  BY <1>1 DEF IInv, NumOK, OnDisk
<1>7. \A s \in Slots : LockOK(s)' /\ SlotOK(s)' /\ CountOK(s)'
  BY <1>5
<1>8. Slots' = Slots
  BY DEF Slots
<1> QED
  BY <1>2, <1>4, <1>6, <1>7, <1>8 DEF IInv

LEMMA NextOK ==
  ASSUME Overlaps = {}, IInv, [Next]_vars
  PROVE  IInv'
<1>1. CASE UNCHANGED vars
  BY <1>1, StutterOK
<1>2. ASSUME NEW t \in Tasks, Step(t)
      PROVE  IInv'
  <2>1. CASE WriteDone(t, "putwrite", "put")
    BY <2>1, WriteDoneOK
  <2>2. CASE WriteDone(t, "syncwrite", "sync")
    BY <2>2, WriteDoneOK
  <2>3. CASE SleepOn(t) \/ Resume(t)
    BY <2>3, SleepOnOK, ResumeOK
  <2>4. CASE iget(t) \/ FoundInode(t) \/ ReadDone(t)
    BY <2>4, igetOK, FoundInodeOK, ReadDoneOK
  <2>5. CASE PutInode(t) \/ FreeInode(t) \/ SyncInode(t)
    BY <2>5, PutInodeOK, FreeInodeOK, SyncInodeOK
  <2> QED
    BY <1>2, <2>1, <2>2, <2>3, <2>4, <2>5 DEF Step
<1>3. ASSUME NEW t \in Tasks, NEW n \in Nums, Lookup(t, n)
      PROVE  IInv'
  BY <1>3, LookupOK
<1>4. ASSUME NEW t \in Tasks, new_inode(t) \/ Modify(t) \/ Unlink(t) \/ iput(t) \/ sync_inodes(t)
      PROVE  IInv'
  BY <1>4, new_inodeOK, ModifyOK, UnlinkOK, iputOK, sync_inodesOK
<1> QED
  BY <1>1, <1>2, <1>3, <1>4 DEF Next

\* The invariant holds in all the states that inode.c reaches.
THEOREM Inductive ==
  ASSUME Overlaps = {}
  PROVE  Spec => []IInv
<1>1. Init => IInv
  BY InitOK
<1>2. IInv /\ [Next]_vars => IInv'
  BY NextOK
<1> QED
  BY <1>1, <1>2, PTL DEF Spec

\* Every table and every call keeps its type.
THEOREM TypeCorrect ==
  ASSUME Overlaps = {}
  PROVE  Spec => []TypeOK
<1>1. IInv => TypeOK
  BY DEF IInv
<1> QED
  BY <1>1, Inductive, PTL

\* iget() and new_inode() never make a second inode for a number, whatever
\* sleeps between the scan and the end of read_inode().
THEOREM NumbersAreUnique ==
  ASSUME Overlaps = {}
  PROVE  Spec => []OneInodePerNumber
<1>1. IInv => OneInodePerNumber
  BY DEF IInv
<1> QED
  BY <1>1, Inductive, PTL

\* Who has an inode sees the last change, and no change is lost between iput(),
\* iget(), sync and unlink.
THEOREM NoChangeIsLost ==
  ASSUME Overlaps = {}
  PROVE  Spec => []ChangesSurvive
<1>1. ASSUME IInv
      PROVE  ChangesSurvive
  <2>1. ASSUME NEW t \in Tasks, held[t] # NULL
        PROVE  inode[held[t]].latest
    <3>1. PICK s \in Slots : s = held[t]
      BY <1>1, <2>1, RefType
    <3>2. RefOf(t) = s /\ call[t].at # "found" /\ SlotOK(s)
      BY <1>1, <2>1, <3>1, RefType DEF RefOf, Shape, IInv
    <3>3. inode[s].i_num # NULL
      BY <1>1, <3>1, <2>1, <3>2, RefType DEF RefOK
    <3>4. ~Reading(s)
      <4>1. ASSUME NEW u \in Tasks, call[u].at = "read", call[u].slot = s
            PROVE  FALSE
        <5>1. RefOf(u) = s /\ RefOf(t) # NULL
          BY <1>1, <2>1, <3>1, <3>2, <4>1, RefType DEF RefOf, Shape
        <5>2. u # t
          BY <1>1, <2>1, <4>1, RefType DEF Shape
        <5> QED
          BY <1>1, <3>2, <4>1, <5>1, <5>2, NotSole
      <4> QED
        BY <4>1 DEF Reading
    <3> QED
      BY <3>1, <3>2, <3>3, <3>4 DEF SlotOK
  <2>2. ASSUME NEW n \in imap
        PROVE  disk[n].latest \/ \E s \in Slots : inode[s].i_num = n /\ inode[s].latest /\ inode[s].i_dirt
    <3>1. NumOK(n) /\ n # NULL
      BY <1>1, NullIsNone DEF IInv, TypeOK
    <3>2. CASE \A s \in Slots : inode[s].i_num # n
      BY <3>1, <3>2 DEF NumOK, OnDisk
    <3>3. ASSUME NEW s \in Slots, inode[s].i_num = n
          PROVE  disk[n].latest \/ (inode[s].latest /\ inode[s].i_dirt)
      <4>1. SlotOK(s)
        BY <1>1 DEF IInv
      <4>2. CASE ~inode[s].i_dirt
        BY <3>1, <3>3, <4>1, <4>2 DEF SlotOK, OnDisk
      <4>3. CASE inode[s].i_dirt
        <5>1. ~Reading(s)
          <6>1. ASSUME NEW u \in Tasks, call[u].at = "read", call[u].slot = s
                PROVE  FALSE
            BY <1>1, <4>3, <6>1, RefType DEF RefOK
          <6> QED
            BY <6>1 DEF Reading
        <5> QED
          BY <3>1, <3>3, <4>1, <4>3, <5>1 DEF SlotOK
      <4> QED
        BY <4>2, <4>3
    <3> QED
      BY <3>2, <3>3
  <2> QED
    BY <2>1, <2>2 DEF ChangesSurvive
<1> QED
  BY <1>1, Inductive, PTL

-----------------------------------------------------------------------------
(* The panics of inode.c.                                                  *)

NoPanic == \A t \in Tasks : call[t].at # "panic"

\* A task without an inode finds a free one: there are slots for all tasks.
LEMMA OneIsFree ==
  ASSUME IInv, Cardinality(Tasks) <= NR_INODE, NEW t \in Tasks, RefOf(t) = NULL
  PROVE  Free # {}
<1> SUFFICES ASSUME Free = {}
             PROVE  FALSE
  OBVIOUS
<1>1. \A s \in Slots : \E u \in Tasks \ {t} : RefOf(u) = s
  <2>1. ASSUME NEW s \in Slots
        PROVE  \E u \in Tasks \ {t} : RefOf(u) = s
    <3>1. inode[s].i_count # 0 /\ CountOK(s)
      BY <2>1 DEF Free, IInv
    <3>2. Refs(s) \in SUBSET Tasks
      BY DEF Refs
    <3>3. Refs(s) # {}
      BY <3>1, <3>2, CountRefs DEF CountOK
    <3>4. s # NULL
      BY NullIsNone
    <3> QED
      BY <3>3, <3>4 DEF Refs
  <2> QED
    BY <2>1
<1>2. PICK f : f = [s \in Slots |-> CHOOSE u \in Tasks \ {t} : RefOf(u) = s]
  OBVIOUS
<1>3. \A s \in Slots : f[s] \in Tasks \ {t} /\ RefOf(f[s]) = s
  BY <1>1, <1>2
<1>4. f \in [Slots -> Tasks \ {t}]
  BY <1>2, <1>3
<1>5. IsFiniteSet(Tasks \ {t}) /\ Cardinality(Tasks \ {t}) = Cardinality(Tasks) - 1
      /\ Cardinality(Tasks) \in Nat
  BY TasksAssumption, FS_RemoveElement, FS_CardinalityType
<1>6. IsFiniteSet(Slots) /\ Cardinality(Slots) = NR_INODE
  <2>1. NR_INODE \in Nat /\ NR_INODE # 0 /\ 0 \in Int /\ NR_INODE - 1 \in Int
    BY TableAssumption
  <2>2. PICK b \in Int : b = NR_INODE - 1
    BY <2>1
  <2>3. IsFiniteSet(0 .. b) /\ Cardinality(0 .. b) = IF 0 > b THEN 0 ELSE b - 0 + 1
    BY <2>1, FS_Interval
  <2>4. Slots = 0 .. b
    BY <2>2 DEF Slots
  <2>5. IsFiniteSet(Slots)
    BY <2>3, <2>4
  <2>6. Cardinality(Slots) = IF 0 > b THEN 0 ELSE b - 0 + 1
    BY <2>3, <2>4, Zenon
  <2>7. ~ (0 > b) /\ b - 0 + 1 = NR_INODE
    BY <2>1, <2>2
  <2> QED
    BY <2>5, <2>6, <2>7
<1>7. Cardinality(Tasks \ {t}) < Cardinality(Slots)
  BY <1>5, <1>6, TableAssumption
<1>8. \E x, y \in Slots : x # y /\ f[x] = f[y]
  BY ONLY <1>4, <1>5, <1>6, <1>7, FS_PigeonHole, Zenon
<1> QED
  BY <1>3, <1>8

\* The three ways a task is sent on.
LEMMA SentOn ==
  ASSUME TypeOK, NEW t \in Tasks, NEW c \in Call, c.at # "panic", NoPanic,
         call' = [call EXCEPT ![t] = c]
  PROVE  NoPanic'
BY DEF TypeOK, NoPanic

LEMMA GoneOn ==
  ASSUME TypeOK, NEW t \in Tasks, NEW l \in Places, l # "panic", NoPanic, Goto(t, l)
  PROVE  NoPanic'
<1>1. \A u \in Tasks : call'[u].at = IF u = t THEN l ELSE call[u].at
  BY GotoMoves
<1> QED
  BY <1>1 DEF NoPanic

LEMMA Returned ==
  ASSUME TypeOK, NEW t \in Tasks, NEW s, NoPanic, Return(t, s)
  PROVE  NoPanic'
BY IdleCall, SentOn DEF Return

\* iget() may wait, read, or return.
LEMMA ScanReturns ==
  ASSUME TypeOK, NEW t \in Tasks, NEW e \in Slots, NEW tab, NoPanic, Scan(t, tab, e)
  PROVE  NoPanic'
<1>1. PICK f : f = Min({s \in Slots : tab[s].i_num = call[t].nr})
  OBVIOUS
<1>2. CASE Return(t, f)
  BY <1>2, Returned
<1>3. CASE call' = [call EXCEPT ![t].at = "read", ![t].slot = e, ![t].empty = NULL]
  BY <1>3 DEF TypeOK, NoPanic, Call
<1>4. CASE call' = [call EXCEPT ![t].at = "found", ![t].slot = f, ![t].empty = e]
  BY <1>4 DEF TypeOK, NoPanic, Call
<1> QED
  BY <1>1, <1>2, <1>3, <1>4 DEF Scan

\* A wake-up sends nobody on.
LEMMA WokenStay ==
  ASSUME NEW d \in [Tasks -> Call], \A u \in Tasks : d[u].at # "panic", NEW p
  PROVE  \A u \in Tasks : Woken(d, p)[u].at # "panic"
BY WokenSame

LEMMA StepPanics ==
  ASSUME IInv, NoPanic, Cardinality(Tasks) <= NR_INODE, NEW t \in Tasks, Step(t)
  PROVE  NoPanic'
<1>1. TypeOK /\ call \in [Tasks -> Call] /\ call[t] \in Call /\ Shape(t) /\ RefOK(t)
  BY RefType DEF IInv, TypeOK
<1>2. \A u \in Tasks : call[u].at # "panic"
  BY DEF NoPanic
<1>3. CASE SleepOn(t)
  <2>1. call' = [call EXCEPT ![t].wait = "asleep", ![t].tmp = inode[call[t].slot].i_wait]
    BY <1>3 DEF SleepOn
  <2>2. \A u \in Tasks : call'[u].at = call[u].at
    BY ONLY <1>1, <2>1 DEF Call
  <2> QED
    BY <2>2, <1>2 DEF NoPanic
<1>4. CASE Resume(t)
  <2>1. PICK s : s = call[t].slot
    OBVIOUS
  <2>2. PICK d : d = [call EXCEPT ![t].wait = "asleep"]
    OBVIOUS
  <2>3. d \in [Tasks -> Call] /\ \A u \in Tasks : d[u].at # "panic"
    <3>1. PICK c : c = [call[t] EXCEPT !.wait = "asleep"]
      OBVIOUS
    <3>2. c \in Call /\ c.at = call[t].at
      BY <1>1, <3>1 DEF Call
    <3>3. d = [call EXCEPT ![t] = c]
      BY <2>2, <3>1
    <3> QED
      BY <1>1, <1>2, <3>2, <3>3
  <2>4. PICK go : go = Woken(call, call[t].tmp)
    OBVIOUS
  <2>5. go \in [Tasks -> Call] /\ \A u \in Tasks : go[u].at # "panic"
    BY <1>1, <1>2, <2>4, WokenSame, WokenStay
  <2>6. CASE call' = Woken(d, inode[s].i_wait)
    BY <2>3, <2>6, WokenStay DEF NoPanic
  <2>7. CASE call' = [go EXCEPT ![t].wait = "asleep"]
    BY ONLY <2>5, <2>7, t \in Tasks DEF NoPanic, Call
  <2>8. CASE call' = [go EXCEPT ![t].wait = "no", ![t].tmp = NULL]
    BY ONLY <2>5, <2>8, t \in Tasks DEF NoPanic, Call
  <2> QED
    BY <1>4, <2>1, <2>2, <2>4, <2>6, <2>7, <2>8 DEF Resume
<1>5. CASE iget(t)
  <2>1. RefOf(t) = NULL
    BY <1>1, <1>5 DEF iget, At, RefOf, Shape
  <2>2. Free # {}
    BY <2>1, OneIsFree
  <2>3. PICK e \in Free : Scan(t, Emptied(e), e)
    BY <1>5, <2>2 DEF iget, NoneEmpty
  <2>4. PICK tab : tab = Emptied(e)
    OBVIOUS
  <2> QED
    BY <1>1, <2>3, <2>4, ScanReturns DEF Free
<1>6. CASE FoundInode(t)
  <2>1. call[t].empty \in Slots
    BY <1>1, <1>6 DEF FoundInode, At, Shape, Call
  <2>2. PICK e \in Slots : e = call[t].empty
    BY <2>1
  <2>3. Return(t, call[t].slot) \/ Scan(t, inode, e)
    BY <1>6, <2>2 DEF FoundInode
  <2> QED
    BY <1>1, <2>3, Returned, ScanReturns
<1>7. CASE ReadDone(t)
  <2>1. PICK go : go = Woken(call, inode[call[t].slot].i_wait)
    OBVIOUS
  <2>2. go \in [Tasks -> Call] /\ \A u \in Tasks : go[u].at # "panic"
    BY <1>1, <1>2, <2>1, WokenSame, WokenStay
  <2>3. call' = [go EXCEPT ![t] = Idle]
    BY <1>7, <2>1 DEF ReadDone
  <2> QED
    BY <2>2, <2>3, IdleCall DEF NoPanic
<1>8. CASE PutInode(t)
  <2>1. RefOf(t) = call[t].slot /\ call[t].slot \in Slots
    BY <1>1, <1>8 DEF PutInode, At, RefOf, Shape
  <2>2. inode[call[t].slot].i_count # 0
    BY <2>1, RefType
  <2>3. Goto(t, "truncate") \/ Goto(t, "putwrite") \/ Return(t, NULL)
    BY <1>8, <2>2 DEF PutInode, WriteInode
  <2> QED
    BY <1>1, <2>3, GoneOn, Returned DEF Places
<1>9. CASE FreeInode(t)
  <2>1. RefOf(t) = call[t].slot /\ call[t].slot \in Slots /\ Sole(t, RefOf(t))
    BY <1>1, <1>9 DEF FreeInode, At, RefOf, Shape, RefOK
  <2>2. PICK s \in Slots : s = call[t].slot
    BY <2>1
  <2>3. Refs(s) = {t} /\ Refs(s) \in SUBSET Tasks
    BY <2>1, <2>2 DEF Refs, Sole
  <2>4. Cardinality(Refs(s)) = 1
    BY <2>3, CountRefs
  <2>5. inode[s].i_count = 1
    BY <2>4 DEF IInv, CountOK
  <2>6. Return(t, NULL)
    BY <1>9, <2>2, <2>5 DEF FreeInode
  <2> QED
    BY <1>1, <2>6, Returned
<1>10. CASE SyncInode(t)
  <2>1. PICK d : d = [call[t] EXCEPT !.slot = call[t].slot + 1]
    OBVIOUS
  <2>2. d.at = call[t].at
    BY <1>1, <2>1 DEF Call
  <2>3. CASE Goto(t, "syncwrite")
    BY <1>1, <2>3, GoneOn DEF Places
  <2>4. CASE call' = [call EXCEPT ![t] = IF call[t].slot = NR_INODE - 1 THEN Idle
                                         ELSE [@ EXCEPT !.slot = call[t].slot + 1]]
    <3>1. PICK c : c = IF call[t].slot = NR_INODE - 1 THEN Idle ELSE d
      OBVIOUS
    <3>2. c.at # "panic"
      BY <1>2, <2>2, <3>1, IdleCall
    <3>3. call' = [call EXCEPT ![t] = c]
      BY <2>1, <2>4, <3>1
    <3>4. \A u \in Tasks : call'[u] = IF u = t THEN c ELSE call[u]
      BY ONLY <1>1, <3>3
    <3> QED
      BY ONLY <1>2, <3>2, <3>4 DEF NoPanic
  <2> QED
    BY <1>10, <2>3, <2>4 DEF SyncInode, WriteInode
<1>11. ASSUME NEW l \in {"put", "sync"}, call' = Woken([call EXCEPT ![t].at = l], inode[call[t].slot].i_wait)
       PROVE  NoPanic'
  <2>1. PICK c : c = [call[t] EXCEPT !.at = l]
    OBVIOUS
  <2>2. c \in Call /\ c.at = l
    BY <1>1, <1>11, <2>1 DEF Call
  <2>3. PICK d : d = [call EXCEPT ![t] = c]
    OBVIOUS
  <2>4. d \in [Tasks -> Call] /\ \A u \in Tasks : d[u].at # "panic"
    BY <1>1, <1>2, <1>11, <2>2, <2>3
  <2>5. call' = Woken(d, inode[call[t].slot].i_wait)
    BY <1>11, <2>1, <2>3
  <2> QED
    BY <2>4, <2>5, WokenStay DEF NoPanic
<1>12. CASE WriteDone(t, "putwrite", "put") \/ WriteDone(t, "syncwrite", "sync")
  BY <1>11, <1>12 DEF WriteDone
<1> QED
  BY <1>3, <1>4, <1>5, <1>6, <1>7, <1>8, <1>9, <1>10, <1>12 DEF Step

LEMMA NextPanics ==
  ASSUME IInv, NoPanic, Cardinality(Tasks) <= NR_INODE, [Next]_vars
  PROVE  NoPanic'
<1>1. TypeOK /\ call \in [Tasks -> Call] /\ \A u \in Tasks : call[u].at # "panic"
  BY DEF IInv, TypeOK, NoPanic
<1>2. CASE UNCHANGED vars
  BY <1>2 DEF vars, NoPanic
<1>3. ASSUME NEW t \in Tasks, NEW n \in Nums, Lookup(t, n)
      PROVE  NoPanic'
  <2>1. call' = [call EXCEPT ![t].at = "name", ![t].nr = n]
    BY <1>3 DEF Lookup
  <2> QED
    BY ONLY <1>1, <2>1, t \in Tasks DEF NoPanic, Call
<1>4. ASSUME NEW t \in Tasks, new_inode(t)
      PROVE  NoPanic'
  <2>1. RefOf(t) = NULL
    BY <1>4 DEF new_inode, At, RefOf
  <2>2. Free # {}
    BY <2>1, OneIsFree
  <2>3. PICK e \in Free : Create(t, Emptied(e), e)
    BY <1>4, <2>2 DEF new_inode, NoneEmpty
  <2>4. \E s : Return(t, s)
    BY <2>3 DEF Create
  <2> QED
    BY <1>1, <2>4, Returned
<1>5. ASSUME NEW t \in Tasks, Modify(t) \/ Unlink(t)
      PROVE  NoPanic'
  BY <1>5 DEF Modify, Unlink, NoPanic
<1>6. ASSUME NEW t \in Tasks, iput(t)
      PROVE  NoPanic'
  <2>1. call' = [call EXCEPT ![t].at = "put", ![t].slot = held[t]]
    BY <1>6 DEF iput
  <2> QED
    BY ONLY <1>1, <2>1, t \in Tasks DEF NoPanic, Call
<1>7. ASSUME NEW t \in Tasks, sync_inodes(t)
      PROVE  NoPanic'
  <2>1. call' = [call EXCEPT ![t].at = "sync", ![t].slot = 0]
    BY <1>7 DEF sync_inodes
  <2> QED
    BY ONLY <1>1, <2>1, t \in Tasks DEF NoPanic, Call
<1> QED
  BY <1>2, <1>3, <1>4, <1>5, <1>6, <1>7, StepPanics DEF Next

\* i_count is exact, in every way out of iget(), iput() and new_inode(), and
\* with a slot for every task no panic() of the table is reached: a free inode
\* is found at once, and neither iput() nor free_inode() meets a wrong count.
THEOREM CountsAreExact ==
  ASSUME Overlaps = {}, Cardinality(Tasks) <= NR_INODE
  PROVE  Spec => []CountsAreReferences
<1>1. Init => NoPanic
  BY IdleCall DEF Init, NoPanic
<1>2. IInv /\ NoPanic /\ [Next]_vars => NoPanic'
  BY NextPanics
<1>3. ASSUME IInv, NoPanic
      PROVE  CountsAreReferences
  <2>1. ASSUME NEW s \in Slots
        PROVE  inode[s].i_count = References(s)
    <3>1. PICK A \in SUBSET Tasks : A = {t \in Tasks : held[t] = s}
      OBVIOUS
    <3>2. PICK B \in SUBSET Tasks : B = {t \in Tasks : call[t].empty = s}
      OBVIOUS
    <3>3. PICK C \in SUBSET Tasks : C = {t \in Tasks : call[t].slot = s /\
                                           call[t].at \in {"read", "put", "putwrite", "truncate"}}
      OBVIOUS
    <3>4. \A t \in Tasks : Shape(t)
      BY <1>3 DEF IInv
    <3>5. s # NULL
      BY NullIsNone
    <3>6. A \cap B = {} /\ (A \cup B) \cap C = {}
      BY ONLY <3>1, <3>2, <3>3, <3>4, <3>5 DEF Shape
    <3>7. Refs(s) = (A \cup B) \cup C
      BY ONLY <3>1, <3>2, <3>3, <3>4, <3>5 DEF Shape, Refs, RefOf
    <3>8. IsFiniteSet(A) /\ IsFiniteSet(B) /\ IsFiniteSet(C) /\ IsFiniteSet(A \cup B)
      BY TasksAssumption, FS_Subset
    <3>9. /\ Cardinality(A) \in Nat /\ Cardinality(B) \in Nat /\ Cardinality(C) \in Nat
          /\ Cardinality({}) = 0
      BY <3>8, FS_CardinalityType, FS_EmptySet
    <3>10. Cardinality(A \cup B) = Cardinality(A) + Cardinality(B)
      <4>1. Cardinality(A \cup B) = Cardinality(A) + Cardinality(B) - Cardinality(A \cap B)
        BY <3>8, FS_Union
      <4>2. Cardinality(A \cap B) = 0
        BY ONLY <3>6, <3>9, Zenon
      <4> QED
        BY <3>9, <4>1, <4>2
    <3>11. Cardinality((A \cup B) \cup C) = Cardinality(A \cup B) + Cardinality(C)
      <4>1. Cardinality((A \cup B) \cup C)
              = Cardinality(A \cup B) + Cardinality(C) - Cardinality((A \cup B) \cap C)
        BY <3>8, FS_Union
      <4>2. Cardinality((A \cup B) \cap C) = 0
        BY ONLY <3>6, <3>9, Zenon
      <4> QED
        BY <3>9, <3>10, <4>1, <4>2
    <3>12. Cardinality(Refs(s)) = Cardinality(A) + Cardinality(B) + Cardinality(C)
      BY <3>7, <3>10, <3>11
    <3>13. References(s) = Cardinality(A) + Cardinality(B) + Cardinality(C)
      BY <3>1, <3>2, <3>3 DEF References
    <3> QED
      BY <1>3, <3>12, <3>13 DEF IInv, CountOK
  <2>2. \A s \in Slots : inode[s].i_count = 0 => ~inode[s].i_dirt /\ ~inode[s].i_lock
    BY <1>3 DEF IInv, SlotOK
  <2> QED
    BY <1>3, <2>1, <2>2 DEF CountsAreReferences, NoPanic
<1>4. Spec => []NoPanic
  BY <1>1, <1>2, Inductive, PTL DEF Spec
<1> QED
  BY <1>3, <1>4, Inductive, PTL

=============================================================================
