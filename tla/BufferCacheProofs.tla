------------------------- MODULE BufferCacheProofs -------------------------
(***************************************************************************)
(* The buffer cache is correct for any number of tasks, buffers and blocks: *)
(* no block is in two buffers, the counts are the references, nothing that  *)
(* was written is lost, and nobody waits for a buffer in vain.              *)
(*                                                                          *)
(* All of it is one inductive invariant.  Counts and references must agree  *)
(* for a used buffer to keep its block; a block must be in one buffer for   *)
(* the copy in it to be the last one; and a lock must have one holder for   *)
(* the valid bit to mean something while a transfer is under way.           *)
(***************************************************************************)
EXTENDS BufferCache, FiniteSetTheorems, TLAPS

Working == {"hashwait", "rdlock", "rdq", "rdwait", "hold", "fault", "rel"}

\* The types, without the bound of b_count, which follows from its meaning.
Heads ==
  [blk : Blocks \cup {NONE}, count : Int, dirt : BOOLEAN, lock : BOOLEAN,
   uptodate : BOOLEAN, io : {"none", "read", "write", "written"}, fresh : BOOLEAN]

Types ==
  /\ buf \in [Buffers -> Heads]
  /\ task \in [Tasks -> Task]
  /\ diskFresh \in [Blocks -> BOOLEAN]
  /\ spoilt \in SUBSET Blocks

\* What a task has in its local variables, by the place where it is.
Locals(t) ==
  /\ At(t, "idle") => task[t] = Idle
  /\ task[t].pc \in {"find", "hashwait", "pick", "bufwait", "rdlock", "rdq"} => task[t].want # NONE
  /\ task[t].pc \in Working \cup {"pick"} => task[t].bh # NONE
  /\ task[t].pc \in {"sync", "syncq"} =>
       IF task[t].bh = NONE THEN task[t].first = NONE ELSE task[t].want # NONE
  /\ At(t, "syncq") => task[t].sb # NONE
  /\ task[t].pc \in Working \ {"hashwait"} => task[t].first = NONE
  /\ task[t].first # NONE => task[t].ahead = NONE /\ task[t].want # NONE
  /\ task[t].first # NONE \/ task[t].ahead # NONE => t \in Readers
  /\ task[t].ahead # NONE => task[t].ahead # task[t].want

\* A buffer keeps its block as long as somebody has it; breada() has buffers
\* of two blocks.
References(t) ==
  /\ task[t].pc \in {"hashwait", "rdlock", "rdq"} => Bh(t).blk = task[t].want
  /\ task[t].pc \in Working => Bh(t).blk # NONE
  /\ task[t].first # NONE => buf[task[t].first].blk \notin {NONE, task[t].want}

\* The buffer that task t has locked but not queued yet.
Locked(t, b) == (At(t, "rdq") /\ task[t].bh = b) \/ (At(t, "syncq") /\ task[t].sb = b)

\* A buffer with a request is locked, and a lock has one holder: the request or
\* a task.
LocksBind(b) ==
  /\ buf[b].dirt \/ buf[b].lock => buf[b].blk # NONE
  /\ buf[b].io # "none" => buf[b].lock

LocksHeld(t, b) == Locked(t, b) => buf[b].lock /\ buf[b].io = "none"

Locks ==
  /\ \A b \in Buffers : LocksBind(b)
  /\ \A t \in Tasks, b \in Buffers : LocksHeld(t, b)
  /\ \A t, u \in Tasks, b \in Buffers : Locked(t, b) /\ Locked(u, b) => t = u

\* A valid buffer has the last data of its block; only valid ones are dirty,
\* written or given to a user, and only others are read.
Valid(b) ==
  buf[b].blk \notin spoilt =>
    /\ buf[b].uptodate => buf[b].fresh
    /\ buf[b].dirt \/ buf[b].io \in {"write", "written"} => buf[b].uptodate
    /\ buf[b].io = "read" => ~buf[b].uptodate
    /\ \A t \in Tasks :
         /\ At(t, "syncq") /\ task[t].sb = b => buf[b].uptodate
         /\ At(t, "rdq") /\ task[t].bh = b => ~buf[b].uptodate
         /\ task[t].pc \in {"hold", "fault"} /\ task[t].bh = b => buf[b].uptodate

IInv ==
  /\ Types
  /\ \A t \in Tasks : Locals(t) /\ References(t)
  /\ Locks
  /\ OneBufferPerBlock
  /\ CountsAreReferences
  /\ \A b \in Buffers : Valid(b)
  /\ NoWriteLost
  /\ BufferWaitEnds
-----------------------------------------------------------------------------
\* The references to a buffer are finitely many, and a buffer that has one is
\* counted.
LEMMA OwnersCounted ==
  ASSUME NEW b \in Buffers
  PROVE  /\ IsFiniteSet(Owners(b))
         /\ Cardinality(Owners(b)) \in Nat
         /\ \A t \in Owners(b) : Cardinality(Owners(b)) > 0
<1>1. Owners(b) \in SUBSET Tasks
  BY DEF Owners
<1>2. IsFiniteSet(Owners(b)) /\ Cardinality(Owners(b)) \in Nat
  BY <1>1, TasksAssumption, FS_Subset, FS_CardinalityType
<1>3. \A t \in Owners(b) : Cardinality(Owners(b)) # 0
  BY <1>2, FS_EmptySet
<1> QED BY <1>2, <1>3

\* The counts stay exact when they change with the references.
LEMMA CountsFollow ==
  ASSUME CountsAreReferences,
         \A b \in Buffers :
           \/ Owners(b)' = Owners(b) /\ buf'[b].count = buf[b].count
           \/ \E t \in Tasks \ Owners(b) :
                Owners(b)' = Owners(b) \cup {t} /\ buf'[b].count = buf[b].count + 1
           \/ \E t \in Owners(b) :
                Owners(b)' = Owners(b) \ {t} /\ buf'[b].count = buf[b].count - 1
  PROVE  CountsAreReferences'
<1> SUFFICES ASSUME NEW b \in Buffers
             PROVE  buf'[b].count = Cardinality(Owners(b)')
  BY DEF CountsAreReferences
<1>1. buf[b].count = Cardinality(Owners(b)) /\ IsFiniteSet(Owners(b))
  BY OwnersCounted DEF CountsAreReferences
<1>2. CASE Owners(b)' = Owners(b) /\ buf'[b].count = buf[b].count
  BY <1>1, <1>2
<1>3. CASE \E t \in Tasks \ Owners(b) :
             Owners(b)' = Owners(b) \cup {t} /\ buf'[b].count = buf[b].count + 1
  BY <1>1, <1>3, FS_AddElement
<1>4. CASE \E t \in Owners(b) :
             Owners(b)' = Owners(b) \ {t} /\ buf'[b].count = buf[b].count - 1
  BY <1>1, <1>4, FS_RemoveElement
<1> QED BY <1>2, <1>3, <1>4

LEMMA InitIInv == Init => IInv
<1> SUFFICES ASSUME Init PROVE IInv
  OBVIOUS
<1> USE NoneAssumption DEF Init, Idle, At
<1>1. Types
  BY DEF Types, Heads, Task
<1>2. \A t \in Tasks : Locals(t) /\ References(t)
  BY DEF Locals, References, Working
<1>3. Locks /\ OneBufferPerBlock
  BY DEF Locks, LocksBind, LocksHeld, Locked, OneBufferPerBlock
<1>4. \A b \in Buffers : Owners(b) = {}
  BY DEF Owners
<1>5. CountsAreReferences
  BY <1>4, FS_EmptySet DEF CountsAreReferences
<1>6. \A b \in Buffers : Valid(b)
  BY DEF Valid
<1>7. NoWriteLost /\ BufferWaitEnds
  BY DEF NoWriteLost, BufferWaitEnds
<1> QED BY <1>1, <1>2, <1>3, <1>5, <1>6, <1>7 DEF IInv
-----------------------------------------------------------------------------
\* The task between two calls has no buffer.
LEMMA IdleTask ==
  /\ Idle \in Task
  /\ Idle.pc = "idle" /\ Idle.want = NONE /\ Idle.bh = NONE /\ Idle.ahead = NONE
  /\ Idle.first = NONE /\ Idle.sb = NONE
BY DEF Idle, Task

\* What one task does with one buffer: task t has become r and buffer b has
\* become h, and tasks waiting for a buffer may have been woken up.
Touches(t, b, r, h) ==
  /\ r \in Task /\ h \in Heads
  /\ task' \in [Tasks -> Task]
  /\ task'[t] = r
  /\ \A u \in Tasks \ {t} :
       task'[u] = task[u] \/ (At(u, "bufwait") /\ task'[u] = [task[u] EXCEPT !.pc = "find"])
  /\ buf' = [buf EXCEPT ![b] = h]

\* The same while no data change hands.
Moves(t, b, r, h) == Touches(t, b, r, h) /\ UNCHANGED <<diskFresh, spoilt>>

\* What such a step leaves alone.
LEMMA Frame ==
  ASSUME NEW t \in Tasks, NEW b \in Buffers, NEW r, NEW h, Types, Touches(t, b, r, h)
  PROVE  /\ buf' \in [Buffers -> Heads] /\ task' \in [Tasks -> Task] /\ task'[t] = r /\ buf'[b] = h
         /\ \A c \in Buffers \ {b} : buf'[c] = buf[c]
         /\ \A u \in Tasks \ {t} :
              /\ task'[u].want = task[u].want /\ task'[u].bh = task[u].bh
              /\ task'[u].ahead = task[u].ahead /\ task'[u].first = task[u].first
              /\ task'[u].sb = task[u].sb
              /\ task'[u].pc = task[u].pc \/ (task[u].pc = "bufwait" /\ task'[u].pc = "find")
              /\ task'[u].pc = "idle" => task'[u] = task[u]
<1>1. /\ buf' \in [Buffers -> Heads] /\ task' \in [Tasks -> Task] /\ task'[t] = r
      /\ buf'[b] = h /\ \A c \in Buffers \ {b} : buf'[c] = buf[c]
  BY DEF Types, Touches
<1>2. ASSUME NEW u \in Tasks \ {t}
      PROVE  /\ task'[u].want = task[u].want /\ task'[u].bh = task[u].bh
             /\ task'[u].ahead = task[u].ahead /\ task'[u].first = task[u].first
             /\ task'[u].sb = task[u].sb
             /\ task'[u].pc = task[u].pc \/ (task[u].pc = "bufwait" /\ task'[u].pc = "find")
             /\ task'[u].pc = "idle" => task'[u] = task[u]
  <2>1. task[u] \in Task
    BY DEF Types
  <2>2. CASE task'[u] = task[u]
    BY <2>2
  <2>3. CASE At(u, "bufwait") /\ task'[u] = [task[u] EXCEPT !.pc = "find"]
    BY <2>1, <2>3 DEF At, Task
  <2> QED BY <2>2, <2>3 DEF Touches
<1> QED BY <1>1, <1>2

\* What a step of task t on buffer b must obey for the rest to hold: it leaves
\* the locks of others alone, counts its own reference, and does not let all
\* buffers go while others wait for one.
Obeys(t, b, r, h) ==
  /\ h.dirt \/ h.lock => h.blk # NONE
  /\ h.io # "none" => h.lock
  /\ \A c \in Buffers : Locked(t, c)' => c = b /\ h.lock /\ h.io = "none"
  /\ \A u \in Tasks \ {t} : Locked(u, b) => h.lock /\ h.io = "none" /\ ~Locked(t, b)'
  /\ \A c \in Buffers \ {b} : t \in Owners(c)' <=> t \in Owners(c)
  /\ h.count = buf[b].count + (IF t \in Owners(b)' THEN 1 ELSE 0) - (IF t \in Owners(b) THEN 1 ELSE 0)
  /\ r.pc # "bufwait"
  /\ \/ \A u \in Tasks : task'[u].pc # "bufwait"
     \/ (\E c \in Buffers : t \in Owners(c)) => \E c \in Buffers : t \in Owners(c)'

LEMMA CommonStep ==
  ASSUME IInv, NEW t \in Tasks, NEW b \in Buffers, NEW r, NEW h, Touches(t, b, r, h), Obeys(t, b, r, h)
  PROVE  Locks' /\ CountsAreReferences' /\ BufferWaitEnds'
<1>1. Types /\ Locks /\ CountsAreReferences /\ BufferWaitEnds
  BY DEF IInv
<1>2. /\ task'[t] = r /\ buf'[b] = h
      /\ \A c \in Buffers \ {b} : buf'[c] = buf[c]
      /\ \A u \in Tasks \ {t} :
           /\ task'[u].bh = task[u].bh /\ task'[u].first = task[u].first /\ task'[u].sb = task[u].sb
           /\ task'[u].pc = task[u].pc \/ (task[u].pc = "bufwait" /\ task'[u].pc = "find")
  BY <1>1, Frame
<1>3. \A u \in Tasks \ {t}, c \in Buffers :
        /\ Locked(u, c)' <=> Locked(u, c)
        /\ u \in Owners(c)' <=> u \in Owners(c)
  BY <1>2 DEF Locked, Owners, At
<1>4. Locks'
  <2>1. ASSUME NEW c \in Buffers PROVE LocksBind(c)'
    <3>1. /\ h.dirt \/ h.lock => h.blk # NONE
          /\ h.io # "none" => h.lock
      BY DEF Obeys
    <3>2. LocksBind(c)
      BY <1>1 DEF Locks, LocksBind, LocksHeld
    <3> QED BY <1>2, <3>1, <3>2 DEF LocksBind
  <2>2. ASSUME NEW u \in Tasks, NEW c \in Buffers PROVE LocksHeld(u, c)'
    <3>1. LocksHeld(u, c)
      BY <1>1 DEF Locks, LocksBind, LocksHeld
    <3> QED BY <1>2, <1>3, <3>1 DEF LocksHeld, Obeys
  <2>3. ASSUME NEW u \in Tasks, NEW v \in Tasks, NEW c \in Buffers, Locked(u, c)', Locked(v, c)'
        PROVE  u = v
    BY <1>1, <1>3, <2>3 DEF Locks, LocksBind, LocksHeld, Obeys
  <2> QED BY <2>1, <2>2, <2>3 DEF Locks
<1>5. CountsAreReferences'
  <2> SUFFICES ASSUME NEW c \in Buffers
               PROVE  \/ Owners(c)' = Owners(c) /\ buf'[c].count = buf[c].count
                      \/ \E u \in Tasks \ Owners(c) :
                           Owners(c)' = Owners(c) \cup {u} /\ buf'[c].count = buf[c].count + 1
                      \/ \E u \in Owners(c) :
                           Owners(c)' = Owners(c) \ {u} /\ buf'[c].count = buf[c].count - 1
    BY <1>1, CountsFollow
  <2>1. Owners(c) \in SUBSET Tasks /\ Owners(c)' \in SUBSET Tasks
    BY DEF Owners
  <2>2. buf[c].count \in Int
    BY <1>1 DEF Types, Heads
  <2>3. CASE t \in Owners(c)' <=> t \in Owners(c)
    <3>1. Owners(c)' = Owners(c)
      BY <1>3, <2>1, <2>3
    <3>2. buf'[c].count = buf[c].count
      BY <1>2, <2>2, <2>3 DEF Obeys
    <3> QED BY <3>1, <3>2
  <2>4. CASE t \in Owners(c)' /\ t \notin Owners(c)
    <3>1. Owners(c)' = Owners(c) \cup {t}
      BY <1>3, <2>1, <2>4
    <3>2. buf'[c].count = buf[c].count + 1
      BY <1>2, <2>2, <2>4 DEF Obeys
    <3> QED BY <2>4, <3>1, <3>2
  <2>5. CASE t \notin Owners(c)' /\ t \in Owners(c)
    <3>1. Owners(c)' = Owners(c) \ {t}
      BY <1>3, <2>1, <2>5
    <3>2. buf'[c].count = buf[c].count - 1
      BY <1>2, <2>2, <2>5 DEF Obeys
    <3> QED BY <2>5, <3>1, <3>2
  <2> QED BY <2>3, <2>4, <2>5
<1>6. BufferWaitEnds'
  <2> SUFFICES ASSUME NEW v \in Tasks, task'[v].pc = "bufwait"
               PROVE  \E c \in Buffers, u \in Tasks \ {v} : u \in Owners(c)'
    BY DEF BufferWaitEnds, At
  <2>1. v # t /\ task[v].pc = "bufwait"
    BY <1>2 DEF Obeys
  <2>2. PICK c \in Buffers, u \in Tasks \ {v} : u \in Owners(c)
    BY <1>1, <2>1 DEF BufferWaitEnds, At
  <2>3. CASE u # t
    BY <1>3, <2>2, <2>3
  <2>4. CASE u = t
    BY <2>1, <2>2, <2>4 DEF Obeys
  <2> QED BY <2>3, <2>4
<1> QED BY <1>4, <1>5, <1>6

\* A step that leaves the buffer its block and its data.
LEMMA KeepStep ==
  ASSUME IInv, NEW t \in Tasks, NEW b \in Buffers, NEW r, NEW h, Moves(t, b, r, h), Obeys(t, b, r, h),
         Locals(t)', References(t)',
         h.blk = buf[b].blk, h.uptodate = buf[b].uptodate, h.fresh = buf[b].fresh,
         h.blk \notin spoilt =>
           /\ h.dirt \/ h.io \in {"write", "written"} => h.uptodate
           /\ h.io = "read" => ~h.uptodate
           /\ h.uptodate /\ (buf[b].dirt \/ buf[b].io = "write") => h.dirt \/ h.io = "write",
         \A c \in Buffers : buf[c].blk \notin spoilt =>
           /\ r.pc = "syncq" /\ r.sb = c => buf[c].uptodate
           /\ r.pc = "rdq" /\ r.bh = c => ~buf[c].uptodate
           /\ r.pc \in {"hold", "fault"} /\ r.bh = c => buf[c].uptodate
  PROVE  IInv'
<1>1. /\ Types /\ OneBufferPerBlock /\ NoWriteLost /\ UNCHANGED <<diskFresh, spoilt>>
      /\ Touches(t, b, r, h)
  BY DEF IInv, Moves
<1>2. /\ task'[t] = r /\ buf'[b] = h
      /\ \A c \in Buffers \ {b} : buf'[c] = buf[c]
      /\ \A u \in Tasks \ {t} :
           /\ task'[u].want = task[u].want /\ task'[u].bh = task[u].bh
           /\ task'[u].ahead = task[u].ahead /\ task'[u].first = task[u].first
           /\ task'[u].sb = task[u].sb
           /\ task'[u].pc = task[u].pc \/ (task[u].pc = "bufwait" /\ task'[u].pc = "find")
           /\ task'[u].pc = "idle" => task'[u] = task[u]
  BY <1>1, Frame
<1>3. \A c \in Buffers : /\ buf'[c].blk = buf[c].blk /\ buf'[c].uptodate = buf[c].uptodate
                          /\ buf'[c].fresh = buf[c].fresh
  BY <1>2
<1>4. Types' /\ Locks' /\ CountsAreReferences' /\ BufferWaitEnds'
  BY <1>1, Frame, CommonStep DEF Types
<1>5. \A u \in Tasks : (Locals(u) /\ References(u))'
  <2> SUFFICES ASSUME NEW u \in Tasks \ {t} PROVE Locals(u)' /\ References(u)'
    OBVIOUS
  <2>1. Locals(u) /\ References(u)
    BY DEF IInv
  <2>2. Locals(u)'
    BY <1>2, <2>1 DEF Locals, Working, At
  <2>3. task[u].pc \in Working => task[u].bh \in Buffers
    BY <1>1, <2>1 DEF Locals, Types, Task
  <2>4. task[u].first # NONE => task[u].first \in Buffers
    BY <1>1 DEF Types, Task
  <2>5. References(u)'
    BY <1>2, <1>3, <2>1, <2>3, <2>4 DEF References, Working, Bh
  <2> QED BY <2>2, <2>5
<1>6. ASSUME NEW c \in Buffers PROVE Valid(c)'
  <2>1. Valid(c)
    BY DEF IInv
  <2>2. CASE c # b
    BY <1>1, <1>2, <2>1, <2>2 DEF Valid, At
  <2>3. CASE c = b
    BY <1>1, <1>2, <2>1, <2>3 DEF Valid, At
  <2> QED BY <2>2, <2>3
<1>7. OneBufferPerBlock'
  BY <1>1, <1>3 DEF OneBufferPerBlock
<1>8. NoWriteLost'
  BY <1>1, <1>2, <1>3 DEF NoWriteLost, find_buffer
<1> QED BY <1>4, <1>5, <1>6, <1>7, <1>8 DEF IInv

\* A step of one task that touches no buffer, and takes and gives up none.
LEMMA TaskStep ==
  ASSUME IInv, NEW t \in Tasks, NEW r \in Task,
         task' = [task EXCEPT ![t] = r], UNCHANGED <<buf, diskFresh, spoilt>>,
         (Locals(t) /\ References(t))',
         \A b \in Buffers : t \in Owners(b)' <=> t \in Owners(b),
         r.pc \notin {"syncq", "rdq"},
         r.pc \in {"hold", "fault"} /\ buf[r.bh].blk \notin spoilt => buf[r.bh].uptodate,
         r.pc = "bufwait" => \E b \in Buffers, u \in Tasks \ {t} : u \in Owners(b)
  PROVE  IInv'
<1> USE DEF IInv, At
<1>0. task'[t] = r /\ \A u \in Tasks \ {t} : task'[u] = task[u]
  BY DEF Types
<1>1. Types'
  BY DEF Types
<1>2. \A u \in Tasks : (Locals(u) /\ References(u))'
  BY <1>0 DEF Locals, References, Bh
<1>3. Locks'
  BY <1>0 DEF Locks, LocksBind, LocksHeld, Locked
<1>4. \A b \in Buffers : Owners(b)' = Owners(b)
  BY <1>0 DEF Owners
<1>5. CountsAreReferences'
  BY <1>4, CountsFollow
<1>6. \A b \in Buffers : Valid(b)'
  BY <1>0 DEF Valid
<1>7. OneBufferPerBlock' /\ NoWriteLost'
  BY DEF OneBufferPerBlock, NoWriteLost, find_buffer
<1>8. BufferWaitEnds'
  BY <1>0, <1>4 DEF BufferWaitEnds
<1> QED BY <1>1, <1>2, <1>3, <1>5, <1>6, <1>7, <1>8

\* Calls begin with nothing in hand.
LEMMA CallStep ==
  ASSUME NEW t \in Tasks, NEW k \in Blocks, NEW a \in Blocks \cup {NONE},
         a # k, a # NONE => t \in Readers, IInv, Call(t, k, a)
  PROVE  IInv'
<1> DEFINE r == [Idle EXCEPT !.pc = "find", !.want = k, !.ahead = a]
<1> USE NoneAssumption, IdleTask DEF Call, At
<1>1. /\ r \in Task /\ r.pc = "find" /\ r.want = k /\ r.ahead = a
      /\ r.bh = NONE /\ r.first = NONE
  BY DEF Task
<1>2. task[t] = Idle /\ task'[t] = r
  BY DEF IInv, Types, Locals
<1> HIDE DEF r
<1>3. (Locals(t) /\ References(t))'
  BY <1>1, <1>2 DEF Locals, References, Working
<1>4. \A b \in Buffers : t \in Owners(b)' <=> t \in Owners(b)
  BY <1>1, <1>2 DEF Owners
<1> QED BY <1>1, <1>3, <1>4, TaskStep DEF r

LEMMA CallSyncStep ==
  ASSUME NEW t \in Tasks, IInv, CallSync(t)
  PROVE  IInv'
<1> DEFINE r == [task[t] EXCEPT !.pc = "sync", !.todo = Buffers]
<1> USE NoneAssumption, IdleTask DEF CallSync, At
<1>1. task[t] = Idle /\ task[t] \in Task
  BY DEF IInv, Types, Locals
<1>2. /\ r \in Task /\ r.pc = "sync" /\ r.ahead = NONE
      /\ r.bh = NONE /\ r.first = NONE
  BY <1>1 DEF Task
<1>3. task' = [task EXCEPT ![t] = r] /\ task'[t] = r
  BY DEF IInv, Types
<1> HIDE DEF r
<1>4. (Locals(t) /\ References(t))'
  BY <1>2, <1>3 DEF Locals, References, Working
<1>5. \A b \in Buffers : t \in Owners(b)' <=> t \in Owners(b)
  BY <1>1, <1>2, <1>3 DEF Owners
<1> QED BY <1>2, <1>3, <1>4, <1>5, TaskStep

\* bread() and brelse() around the use of a buffer.
LEMMA ReadWaitStep ==
  ASSUME NEW t \in Tasks, IInv, ReadWait(t)
  PROVE  IInv'
<1> DEFINE r == [task[t] EXCEPT !.pc = IF Bh(t).uptodate THEN "hold" ELSE "rel"]
<1> USE NoneAssumption DEF ReadWait, At, Goto
<1>1. task[t] \in Task /\ task[t].pc = "rdwait" /\ task[t].first = NONE /\ task[t].bh \in Buffers
  BY DEF IInv, Types, Locals, Task, Working
<1>2. /\ r \in Task /\ r.want = task[t].want /\ r.bh = task[t].bh /\ r.first = NONE
      /\ r.ahead = task[t].ahead
      /\ r.pc \in {"hold", "rel"} /\ (r.pc = "hold" => buf[r.bh].uptodate)
  BY <1>1 DEF Task, Bh
<1>3. task' = [task EXCEPT ![t] = r] /\ task'[t] = r
  BY DEF IInv, Types
<1> HIDE DEF r
<1>4. (Locals(t) /\ References(t))'
  BY <1>1, <1>2, <1>3 DEF IInv, Locals, References, Working, Bh
<1>5. \A b \in Buffers : t \in Owners(b)' <=> t \in Owners(b)
  BY <1>1, <1>2, <1>3 DEF Owners
<1> QED BY <1>2, <1>3, <1>4, <1>5, TaskStep

LEMMA ReleaseStep ==
  ASSUME NEW t \in Tasks, IInv, Release(t)
  PROVE  IInv'
<1> DEFINE r == [task[t] EXCEPT !.pc = "rel"]
<1> USE NoneAssumption DEF Release, At, Goto
<1>1. task[t] \in Task /\ task[t].pc = "hold" /\ task[t].first = NONE /\ task[t].bh \in Buffers
  BY DEF IInv, Types, Locals, Task, Working
<1>2. /\ r \in Task /\ r.want = task[t].want /\ r.bh = task[t].bh /\ r.first = NONE
      /\ r.ahead = task[t].ahead /\ r.pc = "rel"
  BY <1>1 DEF Task
<1>3. task' = [task EXCEPT ![t] = r] /\ task'[t] = r
  BY DEF IInv, Types
<1> HIDE DEF r
<1>4. (Locals(t) /\ References(t))'
  BY <1>1, <1>2, <1>3 DEF IInv, Locals, References, Working, Bh
<1>5. \A b \in Buffers : t \in Owners(b)' <=> t \in Owners(b)
  BY <1>1, <1>2, <1>3 DEF Owners
<1> QED BY <1>2, <1>3, <1>4, <1>5, TaskStep
-----------------------------------------------------------------------------
\* getblk(): the search, and the cases in which it is repeated.

\* A task that asks for a block has no more than its first buffer, so when all
\* buffers are in use another task has one of them.
LEMMA AnotherOwner ==
  ASSUME IInv, NEW t \in Tasks, At(t, "find"), Unused = {}
  PROVE  \E b \in Buffers, u \in Tasks \ {t} : u \in Owners(b)
<1> USE NoneAssumption DEF IInv, At
<1>1. \A b \in Buffers : \E u \in Tasks : u \in Owners(b)
  <2> SUFFICES ASSUME NEW b \in Buffers PROVE Owners(b) # {}
    BY DEF Owners
  <2>1. Cardinality(Owners(b)) # 0
    BY DEF Unused, CountsAreReferences
  <2> QED BY <2>1, FS_EmptySet
<1>2. \A b \in Buffers : t \in Owners(b) => task[t].first = b
  BY DEF Owners
<1>3. \E b \in Buffers : task[t].first # b
  <2>1. CASE task[t].first = NONE
    BY <2>1, BuffersAssumption
  <2>2. CASE task[t].first # NONE
    <3>1. PICK b, c \in Buffers : b # c
      BY <2>2, BuffersAssumption DEF Locals
    <3> QED BY <3>1
  <2> QED BY <2>1, <2>2
<1> QED BY <1>1, <1>2, <1>3

LEMMA FindStep ==
  ASSUME NEW t \in Tasks, IInv, Find(t)
  PROVE  IInv'
<1> USE NoneAssumption DEF At
<1>0. task[t] \in Task /\ task[t].pc = "find" /\ task[t].want # NONE
  BY DEF IInv, Types, Find, Locals
<1>1. CASE \E b \in find_buffer(task[t].want) :
             /\ buf' = [buf EXCEPT ![b].count = @ + 1]
             /\ task' = [task EXCEPT ![t].pc = "hashwait", ![t].bh = b]
  <2>1. PICK b \in Buffers :
          /\ buf[b].blk = task[t].want
          /\ buf' = [buf EXCEPT ![b].count = @ + 1]
          /\ task' = [task EXCEPT ![t].pc = "hashwait", ![t].bh = b]
    BY <1>1 DEF find_buffer
  <2> DEFINE r == [task[t] EXCEPT !.pc = "hashwait", !.bh = b]
             h == [buf[b] EXCEPT !.count = @ + 1]
  <2>2. /\ r \in Task /\ r.pc = "hashwait" /\ r.bh = b /\ r.want = task[t].want
        /\ r.first = task[t].first /\ r.ahead = task[t].ahead
    BY <1>0 DEF Task
  <2>3. /\ buf[b] \in Heads /\ h \in Heads /\ h.count = buf[b].count + 1
        /\ h.blk = buf[b].blk /\ h.dirt = buf[b].dirt /\ h.lock = buf[b].lock
        /\ h.uptodate = buf[b].uptodate /\ h.io = buf[b].io /\ h.fresh = buf[b].fresh
    BY DEF IInv, Types, Heads
  <2>4. task' = [task EXCEPT ![t] = r] /\ buf' = [buf EXCEPT ![b] = h]
    BY <2>1 DEF IInv, Types
  <2> HIDE DEF r, h
  <2>5. Moves(t, b, r, h)
    BY <2>2, <2>3, <2>4 DEF Moves, Touches, IInv, Types, Find
  <2>6. task'[t] = r /\ buf'[b] = h /\ \A c \in Buffers \ {b} : buf'[c] = buf[c]
    BY <2>5, Frame DEF IInv, Moves
  <2>7. Locals(t)' /\ References(t)'
    BY <1>0, <2>1, <2>2, <2>3, <2>6 DEF IInv, Types, Task, Locals, References, Working, Bh
  <2>8. Obeys(t, b, r, h)
    <3>1. \A c \in Buffers : ~Locked(t, c)'
      BY <2>2, <2>6 DEF Locked
    <3>2. /\ h.dirt \/ h.lock => h.blk # NONE
          /\ h.io # "none" => h.lock
          /\ \A u \in Tasks \ {t} : Locked(u, b) => h.lock /\ h.io = "none"
      BY <2>3 DEF IInv, Locks, LocksBind, LocksHeld
    <3>3. /\ t \notin Owners(b) /\ t \in Owners(b)'
          /\ \A c \in Buffers \ {b} : t \in Owners(c)' <=> t \in Owners(c)
      BY <1>0, <2>1, <2>2, <2>6 DEF IInv, References, Owners
    <3>4. h.count = buf[b].count + 1 - 0
      BY <2>3 DEF Heads
    <3> QED BY <2>2, <3>1, <3>2, <3>3, <3>4 DEF Obeys
  <2>9. Valid(b)
    BY DEF IInv
  <2> QED BY <2>2, <2>3, <2>5, <2>7, <2>8, <2>9, KeepStep DEF Valid
<1>2. CASE \E b \in LeastBad : task' = [task EXCEPT ![t].pc = "pick", ![t].bh = b] /\ UNCHANGED buf
  <2>1. PICK b \in Buffers : task' = [task EXCEPT ![t].pc = "pick", ![t].bh = b]
    BY <1>2 DEF LeastBad, Unused
  <2> DEFINE r == [task[t] EXCEPT !.pc = "pick", !.bh = b]
  <2>2. /\ r \in Task /\ r.pc = "pick" /\ r.bh = b /\ r.want = task[t].want
        /\ r.first = task[t].first /\ r.ahead = task[t].ahead
    BY <1>0 DEF Task
  <2>3. task' = [task EXCEPT ![t] = r] /\ task'[t] = r /\ UNCHANGED <<buf, diskFresh, spoilt>>
    BY <1>2, <2>1 DEF IInv, Types, Find
  <2> HIDE DEF r
  <2>4. (Locals(t) /\ References(t))'
    BY <1>0, <2>2, <2>3 DEF IInv, Locals, References, Working, Bh
  <2>5. \A c \in Buffers : t \in Owners(c)' <=> t \in Owners(c)
    BY <1>0, <2>2, <2>3 DEF Owners
  <2> QED BY <2>2, <2>3, <2>4, <2>5, TaskStep
<1>3. CASE Unused = {} /\ Goto(t, "bufwait") /\ UNCHANGED buf
  <2> DEFINE r == [task[t] EXCEPT !.pc = "bufwait"]
  <2>2. /\ r \in Task /\ r.pc = "bufwait" /\ r.bh = task[t].bh /\ r.want = task[t].want
        /\ r.first = task[t].first /\ r.ahead = task[t].ahead
    BY <1>0 DEF Task
  <2>3. task' = [task EXCEPT ![t] = r] /\ task'[t] = r /\ UNCHANGED <<buf, diskFresh, spoilt>>
    BY <1>3 DEF IInv, Types, Find, Goto
  <2> HIDE DEF r
  <2>4. (Locals(t) /\ References(t))'
    BY <1>0, <2>2, <2>3 DEF IInv, Locals, References, Working, Bh
  <2>5. \A c \in Buffers : t \in Owners(c)' <=> t \in Owners(c)
    BY <1>0, <2>2, <2>3 DEF Owners
  <2> QED BY <1>0, <1>3, <2>2, <2>3, <2>4, <2>5, TaskStep, AnotherOwner
<1> QED BY <1>1, <1>2, <1>3 DEF Find

\* A step that gives an unused buffer to another block.
LEMMA TakeStep ==
  ASSUME IInv, NEW t \in Tasks, NEW b \in Buffers, NEW r, NEW h, Moves(t, b, r, h), Obeys(t, b, r, h),
         Locals(t)', References(t)',
         Owners(b) = {}, ~buf[b].lock, ~buf[b].dirt,
         h.blk # NONE, find_buffer(h.blk) = {},
         ~h.uptodate, ~h.dirt, h.io \in {"none", "read"},
         r.pc \notin {"syncq", "rdq", "hold", "fault"}
  PROVE  IInv'
<1>1. /\ Types /\ Locks /\ OneBufferPerBlock /\ NoWriteLost /\ UNCHANGED <<diskFresh, spoilt>>
      /\ Touches(t, b, r, h)
  BY DEF IInv, Moves
<1>2. /\ task'[t] = r /\ buf'[b] = h
      /\ \A c \in Buffers \ {b} : buf'[c] = buf[c]
      /\ \A u \in Tasks \ {t} :
           /\ task'[u].want = task[u].want /\ task'[u].bh = task[u].bh
           /\ task'[u].ahead = task[u].ahead /\ task'[u].first = task[u].first
           /\ task'[u].sb = task[u].sb
           /\ task'[u].pc = task[u].pc \/ (task[u].pc = "bufwait" /\ task'[u].pc = "find")
           /\ task'[u].pc = "idle" => task'[u] = task[u]
  BY <1>1, Frame
<1>3. Types' /\ Locks' /\ CountsAreReferences' /\ BufferWaitEnds'
  BY <1>1, Frame, CommonStep DEF Types
<1>4. /\ buf[b].io = "none"
      /\ \A u \in Tasks : ~(task[u].pc = "syncq" /\ task[u].sb = b)
      /\ \A u \in Tasks : ~(task[u].pc \in Working /\ task[u].bh = b)
      /\ \A u \in Tasks : task[u].first # b
  <2>1. \A u \in Tasks : ~Locked(u, b)
    BY <1>1 DEF Locks, LocksBind, LocksHeld
  <2> QED BY <1>1, <2>1 DEF Locks, LocksBind, LocksHeld, Locked, At, Owners, Working
<1>5. \A u \in Tasks : (Locals(u) /\ References(u))'
  <2> SUFFICES ASSUME NEW u \in Tasks \ {t} PROVE Locals(u)' /\ References(u)'
    OBVIOUS
  <2>1. Locals(u) /\ References(u)
    BY DEF IInv
  <2>2. Locals(u)'
    BY <1>2, <2>1 DEF Locals, Working, At
  <2>3. task[u].pc \in Working => task[u].bh \in Buffers \ {b}
    BY <1>1, <1>4, <2>1 DEF Locals, Types, Task
  <2>4. task[u].first # NONE => task[u].first \in Buffers \ {b}
    BY <1>1, <1>4 DEF Types, Task
  <2>5. References(u)'
    BY <1>2, <2>1, <2>3, <2>4 DEF References, Working, Bh
  <2> QED BY <2>2, <2>5
<1>6. ASSUME NEW c \in Buffers PROVE Valid(c)'
  <2>1. Valid(c)
    BY DEF IInv
  <2>2. CASE c # b
    BY <1>1, <1>2, <2>1, <2>2 DEF Valid, At
  <2>3. CASE c = b
    BY <1>2, <1>4, <2>3 DEF Valid, At, Working
  <2> QED BY <2>2, <2>3
<1>7. OneBufferPerBlock'
  BY <1>1, <1>2 DEF OneBufferPerBlock, find_buffer
<1>8. NoWriteLost'
  <2> SUFFICES ASSUME NEW k \in Blocks \ spoilt, ~diskFresh[k]
               PROVE  \E c \in find_buffer(k)' : buf'[c].fresh /\ buf'[c].uptodate
                                                  /\ (buf'[c].dirt \/ buf'[c].io = "write")
    BY <1>1 DEF NoWriteLost
  <2>1. PICK c \in find_buffer(k) : buf[c].fresh /\ buf[c].uptodate
                                     /\ (buf[c].dirt \/ buf[c].io = "write")
    BY <1>1 DEF NoWriteLost
  <2>2. c \in Buffers \ {b} /\ buf[c].blk = k
    BY <1>4, <2>1 DEF find_buffer
  <2> QED BY <1>2, <2>1, <2>2 DEF find_buffer
<1> QED BY <1>3, <1>5, <1>6, <1>7, <1>8 DEF IInv

\* What the caller of getblk does next with buffer b, which is head now.
Obtains(t, b, head, r, h) ==
  /\ Moves(t, b, r, h) /\ Obeys(t, b, r, h) /\ Locals(t)' /\ References(t)'
  /\ h.blk = head.blk /\ h.uptodate = head.uptodate /\ h.fresh = head.fresh
  /\ h.dirt = head.dirt \/ (~h.uptodate /\ ~h.dirt)
  /\ h.io = "none" \/ (h.io = "read" /\ ~h.uptodate)
  /\ r.pc \notin {"syncq", "rdq", "fault"}
  /\ r.pc = "hold" => r.bh = b /\ h.uptodate

LEMMA ObtainedStep ==
  ASSUME IInv, NEW t \in Tasks, NEW b \in Buffers, NEW head \in Heads,
         task[t].pc \in {"hashwait", "pick"}, task[t].bh = b, task[t].first # b,
         ~buf[b].lock, head.blk = task[t].want, ~head.lock, head.io = "none",
         head.count = buf[b].count + (IF t \in Owners(b) THEN 0 ELSE 1),
         Obtained(t, b, head), UNCHANGED <<diskFresh, spoilt>>
  PROVE  \E r, h : Obtains(t, b, head, r, h)
<1>1. /\ Types /\ Locks /\ Locals(t) /\ References(t) /\ task[t] \in Task /\ task[t].want # NONE
      /\ task[t].want \in Blocks /\ buf[b] \in Heads
  BY DEF IInv, Locals, Types, Task
<1>2. \A u \in Tasks : ~Locked(u, b)
  BY <1>1 DEF Locks, LocksBind, LocksHeld
<1>3. \A c \in Buffers : t \in Owners(c) <=> (task[t].pc = "hashwait" /\ c = b) \/ task[t].first = c
  BY DEF Owners
<1>4. ASSUME NEW r \in Task, NEW h \in Heads,
             task' = [task EXCEPT ![t] = r], buf' = [buf EXCEPT ![b] = h]
      PROVE  /\ Moves(t, b, r, h) /\ task'[t] = r /\ buf'[b] = h
             /\ \A c \in Buffers \ {b} : buf'[c] = buf[c]
  BY <1>1, <1>4 DEF Types, Moves, Touches
<1>5. ASSUME NEW r \in Task, NEW h \in Heads,
             task' = [task EXCEPT ![t] = r], buf' = [buf EXCEPT ![b] = h],
             task[t].first = NONE, h = head, r.pc \notin {"syncq", "rdq", "bufwait"},
             \/ r.pc \in Working /\ r.bh = b /\ r.first = NONE
             \/ r.pc \notin Working /\ r.first = b
      PROVE  Obeys(t, b, r, h)
  <2>1. task'[t] = r /\ buf'[b] = h
    BY <1>4, <1>5
  <2>2. \A c \in Buffers : t \in Owners(c)' <=> c = b
    BY <1>5, <2>1, NoneAssumption DEF Owners, Working
  <2>3. h.count = buf[b].count + 1 - (IF t \in Owners(b) THEN 1 ELSE 0)
    BY <1>1, <1>5 DEF Heads
  <2>4. \A c \in Buffers : ~Locked(t, c)'
    BY <1>5, <2>1 DEF Locked, At
  <2>5. \A c \in Buffers \ {b} : t \in Owners(c)' <=> t \in Owners(c)
    BY <1>3, <1>5, <2>2, NoneAssumption
  <2>6. /\ ~h.lock /\ h.io = "none" /\ h.blk # NONE
        /\ h.count = buf[b].count + (IF t \in Owners(b)' THEN 1 ELSE 0) - (IF t \in Owners(b) THEN 1 ELSE 0)
    BY <1>1, <1>5, <2>2, <2>3
  <2> QED BY <1>2, <1>5, <2>2, <2>4, <2>5, <2>6 DEF Obeys
<1>6. CASE task[t].first = NONE /\ buf' = [buf EXCEPT ![b] = head]
  <2>1. CASE head.uptodate /\ task[t].ahead = NONE
    <3> DEFINE r == [task[t] EXCEPT !.pc = "hold", !.bh = b]
    <3>1. /\ r \in Task /\ r.pc = "hold" /\ r.bh = b /\ r.first = NONE /\ r.ahead = NONE
      BY <1>1, <1>6, <2>1 DEF Task
    <3>2. task' = [task EXCEPT ![t] = r]
      BY <1>6, <2>1 DEF Obtained, Proceed
    <3> HIDE DEF r
    <3>3. Obeys(t, b, r, head)
      BY <1>5, <1>6, <3>1, <3>2 DEF Working
    <3>4. Moves(t, b, r, head) /\ task'[t] = r /\ buf'[b] = head
      BY <1>4, <1>6, <3>1, <3>2
    <3>5. Locals(t)' /\ References(t)'
      BY <1>1, <3>1, <3>4, NoneAssumption DEF Locals, References, At, Bh, Working
    <3> QED BY <2>1, <3>1, <3>3, <3>4, <3>5 DEF Obtains
  <2>2. CASE head.uptodate /\ task[t].ahead # NONE
    <3> DEFINE r == [Idle EXCEPT !.pc = "find", !.want = task[t].ahead, !.first = b]
    <3>1. /\ r \in Task /\ r.pc = "find" /\ r.want = task[t].ahead /\ r.bh = NONE
          /\ r.first = b /\ r.ahead = NONE
      BY <1>1, IdleTask DEF Task
    <3>2. task' = [task EXCEPT ![t] = r]
      BY <1>6, <2>2 DEF Obtained, Proceed
    <3> HIDE DEF r
    <3>3. Obeys(t, b, r, head)
      BY <1>5, <1>6, <3>1, <3>2 DEF Working
    <3>4. Moves(t, b, r, head) /\ task'[t] = r /\ buf'[b] = head
      BY <1>4, <1>6, <3>1, <3>2
    <3>5. Locals(t)' /\ References(t)'
      BY <1>1, <2>2, <3>1, <3>4, NoneAssumption DEF Locals, References, At, Bh, Working
    <3> QED BY <2>2, <3>1, <3>3, <3>4, <3>5 DEF Obtains
  <2>3. CASE ~head.uptodate
    <3> DEFINE r == [task[t] EXCEPT !.pc = "rdlock", !.bh = b]
    <3>1. /\ r \in Task /\ r.pc = "rdlock" /\ r.bh = b /\ r.want = task[t].want
          /\ r.first = NONE /\ r.ahead = task[t].ahead
      BY <1>1, <1>6 DEF Task
    <3>2. task' = [task EXCEPT ![t] = r]
      BY <1>6, <2>3 DEF Obtained
    <3> HIDE DEF r
    <3>3. Obeys(t, b, r, head)
      BY <1>5, <1>6, <3>1, <3>2 DEF Working
    <3>4. Moves(t, b, r, head) /\ task'[t] = r /\ buf'[b] = head
      BY <1>4, <1>6, <3>1, <3>2
    <3>5. Locals(t)' /\ References(t)'
      BY <1>1, <3>1, <3>4, NoneAssumption DEF Locals, References, At, Bh, Working
    <3> QED BY <2>3, <3>1, <3>3, <3>4, <3>5 DEF Obtains
  <2> QED BY <2>1, <2>2, <2>3
<1>7. CASE task[t].first # NONE
  <2>1. PICK reads \in BOOLEAN :
          /\ reads => ~head.uptodate
          /\ buf' = [buf EXCEPT ![b] = [head EXCEPT !.count = @ - 1, !.lock = @ \/ reads, !.dirt = @ /\ ~reads,
                                                   !.io = IF reads THEN "read" ELSE @]]
          /\ task' = [task EXCEPT ![t] = [Idle EXCEPT !.pc = "rdwait", !.bh = task[t].first]]
    BY <1>7 DEF Obtained
  <2> DEFINE r == [Idle EXCEPT !.pc = "rdwait", !.bh = task[t].first]
             h == [head EXCEPT !.count = @ - 1, !.lock = @ \/ reads, !.dirt = @ /\ ~reads,
                               !.io = IF reads THEN "read" ELSE @]
  <2>2. /\ r \in Task /\ r.pc = "rdwait" /\ r.bh = task[t].first /\ r.first = NONE /\ r.ahead = NONE
    BY <1>1, IdleTask DEF Task
  <2>3. task' = [task EXCEPT ![t] = r] /\ buf' = [buf EXCEPT ![b] = h]
    BY <2>1
  <2> HIDE DEF r, h
  <2>4. /\ h \in Heads /\ h.count = head.count - 1 /\ h.blk = head.blk
        /\ h.uptodate = head.uptodate /\ h.fresh = head.fresh
        /\ IF reads THEN h.io = "read" /\ h.lock /\ ~h.dirt
           ELSE h.io = "none" /\ ~h.lock /\ h.dirt = head.dirt
    <3>1. CASE reads
      <4>1. (head.lock \/ reads) = TRUE /\ (head.dirt /\ ~reads) = FALSE
        BY <3>1
      <4>2. h = [head EXCEPT !.count = @ - 1, !.lock = TRUE, !.dirt = FALSE, !.io = "read"]
        BY <3>1, <4>1 DEF h
      <4>3. /\ h.count = head.count - 1 /\ h.blk = head.blk /\ h.lock = TRUE /\ h.dirt = FALSE
            /\ h.uptodate = head.uptodate /\ h.fresh = head.fresh /\ h.io = "read"
        BY <4>2 DEF Heads
      <4>4. h \in Heads
        <5> DEFINE g == [head EXCEPT !.count = @ - 1]
        <5>1. g \in Heads
          BY DEF Heads
        <5>2. h = [g EXCEPT !.lock = TRUE, !.dirt = FALSE, !.io = "read"]
          BY <4>2 DEF Heads
        <5> HIDE DEF g
        <5> QED BY <5>1, <5>2 DEF Heads
      <4> QED BY <3>1, <4>3, <4>4
    <3>2. CASE ~reads
      <4>1. (head.lock \/ reads) = head.lock /\ (head.dirt /\ ~reads) = head.dirt
        BY <3>2 DEF Heads
      <4>2. h = [head EXCEPT !.count = @ - 1]
        BY <3>2, <4>1 DEF Heads, h
      <4> QED BY <3>2, <4>2 DEF Heads
    <3> QED BY <3>1, <3>2
  <2>5. /\ Moves(t, b, r, h) /\ task'[t] = r /\ buf'[b] = h
        /\ \A c \in Buffers \ {b} : buf'[c] = buf[c]
    BY <1>4, <2>2, <2>4, <2>3
  <2>6. task[t].first \in Buffers \ {b}
    BY <1>1, <1>7 DEF Task
  <2>7. Locals(t)' /\ References(t)'
    BY <1>1, <1>7, <2>2, <2>5, <2>6, NoneAssumption DEF Locals, References, At, Bh, Working
  <2>8. Obeys(t, b, r, h)
    <3>1. \A c \in Buffers : t \in Owners(c)' <=> task[t].first = c
      BY <2>2, <2>5, NoneAssumption DEF Owners
    <3>2. \A c \in Buffers : ~Locked(t, c)'
      BY <2>2, <2>5 DEF Locked, At
    <3>3. /\ \A c \in Buffers \ {b} : t \in Owners(c)' <=> t \in Owners(c)
          /\ t \notin Owners(b)'
      BY <1>3, <2>6, <3>1
    <3>4. h.count = buf[b].count + (IF t \in Owners(b)' THEN 1 ELSE 0) - (IF t \in Owners(b) THEN 1 ELSE 0)
      BY <1>1, <2>4, <3>3 DEF Heads
    <3> QED BY <1>1, <1>2, <2>2, <2>4, <2>6, <3>1, <3>2, <3>3, <3>4, NoneAssumption DEF Obeys
  <2> QED BY <2>1, <2>2, <2>4, <2>5, <2>7, <2>8 DEF Obtains, Heads
<1> QED BY <1>6, <1>7 DEF Obtained

\* get_hash_table() has counted the buffer, so that it still is of this block
\* when the task has waited for it.
LEMMA HashWaitStep ==
  ASSUME NEW t \in Tasks, IInv, HashWait(t)
  PROVE  IInv'
<1>0. PICK b \in Buffers : b = task[t].bh
  BY NoneAssumption DEF IInv, Types, Task, Locals, Working, HashWait, At
<1>1. /\ task[t].pc = "hashwait" /\ ~buf[b].lock /\ Bh(t) = buf[b]
      /\ UNCHANGED <<diskFresh, spoilt>>
  BY <1>0 DEF HashWait, At, Bh
<1>2. /\ task[t] \in Task /\ buf[b] \in Heads /\ Valid(b) /\ Locks
      /\ buf[b].blk = task[t].want /\ task[t].want # NONE /\ task[t].first # b
  BY <1>0, <1>1, NoneAssumption DEF IInv, Types, Locals, References, Working, Task, Bh
<1>3. Obtained(t, b, buf[b])
  BY <1>0, <1>1, <1>2 DEF HashWait
<1>4. buf[b].io = "none"
  BY <1>1, <1>2 DEF Locks, LocksBind
<1>5. t \in Owners(b)
  BY <1>0, <1>1, <1>2 DEF Owners
<1>6. buf[b].count = buf[b].count + (IF t \in Owners(b) THEN 0 ELSE 1)
  BY <1>2, <1>5 DEF Heads
<1>7. PICK r, h : Obtains(t, b, buf[b], r, h)
  BY <1>1, <1>2, <1>3, <1>4, <1>6, <1>0, ObtainedStep
<1>8. /\ Moves(t, b, r, h) /\ Obeys(t, b, r, h) /\ Locals(t)' /\ References(t)'
      /\ h.blk = buf[b].blk /\ h.uptodate = buf[b].uptodate /\ h.fresh = buf[b].fresh
      /\ h.dirt = buf[b].dirt \/ (~h.uptodate /\ ~h.dirt)
      /\ h.io = "none" \/ (h.io = "read" /\ ~h.uptodate)
      /\ r.pc \notin {"syncq", "rdq", "fault"}
      /\ r.pc = "hold" => r.bh = b /\ h.uptodate
  BY <1>7 DEF Obtains
<1> QED BY <1>2, <1>4, <1>8, KeepStep DEF Valid

\* What getblk() does after its sleep: whatever it found out before may have
\* changed, and it looks at all of it again.
LEMMA PickStep ==
  ASSUME NEW t \in Tasks, IInv, Pick(t)
  PROVE  IInv'
<1>0. PICK b \in Buffers : b = task[t].bh
  BY NoneAssumption DEF IInv, Types, Task, Locals, Working, Pick, At
<1>1. /\ task[t].pc = "pick" /\ ~buf[b].lock /\ Bh(t) = buf[b]
      /\ UNCHANGED <<diskFresh, spoilt>>
  BY <1>0 DEF Pick, At, Bh
<1>2. /\ task[t] \in Task /\ buf[b] \in Heads /\ Locks
      /\ task[t].want # NONE /\ Types
  BY <1>0, <1>1, NoneAssumption DEF IInv, Types, Locals, Working, Task
<1>3. CASE Goto(t, "find") /\ UNCHANGED buf
  <2> DEFINE r == [task[t] EXCEPT !.pc = "find"]
  <2>1. /\ r \in Task /\ r.pc = "find" /\ r.bh = task[t].bh /\ r.want = task[t].want
        /\ r.first = task[t].first /\ r.ahead = task[t].ahead
    BY <1>2 DEF Task
  <2>2. task' = [task EXCEPT ![t] = r] /\ task'[t] = r /\ UNCHANGED <<buf, diskFresh, spoilt>>
    BY <1>1, <1>2, <1>3 DEF Types, Goto
  <2> HIDE DEF r
  <2>3. (Locals(t) /\ References(t))'
    BY <1>1, <1>2, <2>1, <2>2 DEF IInv, Locals, References, Working, Bh, At
  <2>4. \A c \in Buffers : t \in Owners(c)' <=> t \in Owners(c)
    <3>1. task[t].pc = "pick"
      BY <1>1
    <3> QED BY <2>1, <2>2, <3>1 DEF Owners
  <2> QED BY <2>1, <2>2, <2>3, <2>4, TaskStep
<1>4. CASE /\ task' = [task EXCEPT ![t].pc = "sync", ![t].todo = Buffers, ![t].passes = 1]
           /\ UNCHANGED buf
  <2> DEFINE r == [task[t] EXCEPT !.pc = "sync", !.todo = Buffers, !.passes = 1]
  <2>1. /\ r \in Task /\ r.pc = "sync" /\ r.bh = task[t].bh /\ r.want = task[t].want
        /\ r.first = task[t].first /\ r.ahead = task[t].ahead
    <3> DEFINE q == [task[t] EXCEPT !.pc = "sync", !.todo = Buffers]
    <3>1. /\ q \in Task /\ q.pc = "sync" /\ q.bh = task[t].bh /\ q.want = task[t].want
          /\ q.first = task[t].first /\ q.ahead = task[t].ahead
      BY <1>2 DEF Task
    <3>2. r = [q EXCEPT !.passes = 1]
      BY <1>2 DEF Task
    <3> HIDE DEF q, r
    <3> QED BY <3>1, <3>2 DEF Task
  <2>2. task' = [task EXCEPT ![t] = r] /\ task'[t] = r /\ UNCHANGED <<buf, diskFresh, spoilt>>
    BY <1>1, <1>2, <1>4 DEF Types
  <2> HIDE DEF r
  <2>3. (Locals(t) /\ References(t))'
    BY <1>1, <1>2, <2>1, <2>2, NoneAssumption DEF IInv, Locals, References, Working, Bh, At
  <2>4. \A c \in Buffers : t \in Owners(c)' <=> t \in Owners(c)
    <3>1. task[t].pc = "pick"
      BY <1>1
    <3> QED BY <2>1, <2>2, <3>1 DEF Owners
  <2> QED BY <2>1, <2>2, <2>3, <2>4, TaskStep
<1>5. CASE /\ buf[b].count = 0 /\ ~buf[b].dirt /\ find_buffer(task[t].want) = {}
           /\ Obtained(t, b, [buf[b] EXCEPT !.blk = task[t].want, !.count = 1,
                                           !.uptodate = FALSE, !.fresh = FALSE])
  <2> DEFINE head == [buf[b] EXCEPT !.blk = task[t].want, !.count = 1,
                                    !.uptodate = FALSE, !.fresh = FALSE]
  <2>1. /\ head \in Heads /\ head.blk = task[t].want /\ head.count = 1 /\ head.uptodate = FALSE
        /\ head.lock = buf[b].lock /\ head.io = buf[b].io /\ head.dirt = buf[b].dirt
    <3>1. task[t].want \in Blocks \cup {NONE} /\ 1 \in Int /\ FALSE \in BOOLEAN
      BY <1>2 DEF Task
    <3> DEFINE g == [buf[b] EXCEPT !.blk = task[t].want, !.count = 1]
    <3>2. /\ g \in Heads /\ g.blk = task[t].want /\ g.count = 1
          /\ g.lock = buf[b].lock /\ g.io = buf[b].io /\ g.dirt = buf[b].dirt
      BY <1>2, <3>1 DEF Heads
    <3>3. head = [g EXCEPT !.uptodate = FALSE, !.fresh = FALSE]
      BY <1>2 DEF Heads
    <3> HIDE DEF g, head
    <3> QED BY <3>2, <3>3 DEF Heads
  <2>2. Obtained(t, b, head)
    BY <1>5
  <2> HIDE DEF head
  <2>3. buf[b].io = "none"
    BY <1>1, <1>2 DEF Locks, LocksBind
  <2>4. Owners(b) = {}
    <3>1. Cardinality(Owners(b)) = 0
      BY <1>2, <1>5 DEF IInv, CountsAreReferences
    <3> QED BY <1>2, <3>1, OwnersCounted, FS_EmptySet
  <2>5. task[t].first # b
    BY <2>4 DEF Owners
  <2>6. PICK r, h : Obtains(t, b, head, r, h)
    BY <1>1, <1>2, <1>5, <2>1, <2>2, <2>3, <2>4, <2>5, <1>0, ObtainedStep
  <2>7. /\ Moves(t, b, r, h) /\ Obeys(t, b, r, h) /\ Locals(t)' /\ References(t)'
        /\ h.blk = task[t].want /\ ~h.uptodate /\ ~h.dirt
        /\ h.io \in {"none", "read"}
        /\ r.pc \notin {"syncq", "rdq", "hold", "fault"}
    BY <1>5, <2>1, <2>6 DEF Obtains
  <2> QED BY <1>1, <1>2, <1>5, <2>4, <2>7, TakeStep
<1> QED BY <1>0, <1>1, <1>3, <1>4, <1>5 DEF Pick
-----------------------------------------------------------------------------
\* sync_dev(): the next buffer, the second pass, or the end.
LEMMA SyncNextType ==
  ASSUME NEW q \in Task, NEW b, NEW r, r = SyncNext(q, b)
  PROVE  /\ r \in Task
         /\ \/ r = Idle /\ q.bh = NONE
            \/ /\ r.pc = "sync" \/ (r.pc = "pick" /\ q.bh # NONE)
               /\ r.bh = q.bh /\ r.want = q.want /\ r.first = q.first /\ r.ahead = q.ahead
<1> USE NoneAssumption
<1>1. CASE q.todo \ {b} # {}
  <2>1. r = [q EXCEPT !.pc = "sync", !.todo = q.todo \ {b}, !.sb = NONE] /\ q.todo \ {b} \in SUBSET Buffers
    BY <1>1 DEF SyncNext, Task
  <2> QED BY <2>1 DEF Task
<1>2. CASE q.todo \ {b} = {} /\ q.passes > 0
  <2>1. r = [q EXCEPT !.pc = "sync", !.todo = Buffers, !.passes = q.passes - 1, !.sb = NONE]
    BY <1>2 DEF SyncNext
  <2>2. q.passes - 1 \in 0 .. 1
    BY <1>2 DEF Task
  <2> DEFINE p == q.passes - 1
  <2> HIDE DEF p
  <2>3. r = [q EXCEPT !.pc = "sync", !.todo = Buffers, !.passes = p, !.sb = NONE] /\ p \in 0 .. 1
    BY <2>1, <2>2 DEF p
  <2> QED BY <2>3 DEF Task
<1>3. CASE q.todo \ {b} = {} /\ ~(q.passes > 0) /\ q.bh # NONE
  <2>1. r = [q EXCEPT !.pc = "pick", !.todo = {}, !.sb = NONE]
    BY <1>3 DEF SyncNext
  <2> QED BY <1>3, <2>1 DEF Task
<1>4. CASE q.todo \ {b} = {} /\ ~(q.passes > 0) /\ q.bh = NONE
  BY <1>4, IdleTask DEF SyncNext
<1> QED BY <1>1, <1>2, <1>3, <1>4

LEMMA SyncBufferStep ==
  ASSUME NEW t \in Tasks, NEW b \in Buffers, IInv, SyncBuffer(t, b)
  PROVE  IInv'
<1>1. /\ task[t] \in Task /\ task[t].pc = "sync" /\ ~buf[b].lock /\ buf[b] \in Heads /\ Types
      /\ Locks /\ Valid(b) /\ UNCHANGED <<diskFresh, spoilt>> /\ Locals(t) /\ References(t)
  BY DEF IInv, Types, SyncBuffer, At
<1>2. CASE ~buf[b].dirt
  <2> DEFINE r == SyncNext(task[t], b)
  <2>1. task' = [task EXCEPT ![t] = r] /\ UNCHANGED <<buf, diskFresh, spoilt>>
    BY <1>2 DEF SyncBuffer
  <2> HIDE DEF r
  <2>2. /\ r \in Task
        /\ \/ r = Idle /\ task[t].bh = NONE
           \/ /\ r.pc = "sync" \/ (r.pc = "pick" /\ task[t].bh # NONE)
              /\ r.bh = task[t].bh /\ r.want = task[t].want /\ r.first = task[t].first
              /\ r.ahead = task[t].ahead
    BY <1>1, SyncNextType DEF r
  <2>3. task'[t] = r
    BY <1>1, <2>1 DEF Types
  <2>4. task[t].bh = NONE => task[t].first = NONE
    BY <1>1 DEF Locals
  <2>5. (Locals(t) /\ References(t))'
    BY <1>1, <2>1, <2>2, <2>3, IdleTask, NoneAssumption DEF Locals, References, Working, At
  <2>6. \A c \in Buffers : t \in Owners(c)' <=> t \in Owners(c)
    BY <1>1, <2>2, <2>3, <2>4, IdleTask, NoneAssumption DEF Owners
  <2>7. r.pc \in {"idle", "sync", "pick"}
    BY <2>2, IdleTask
  <2> QED BY <2>1, <2>2, <2>5, <2>6, <2>7, TaskStep
<1>3. CASE buf[b].dirt
  <2> DEFINE r == [task[t] EXCEPT !.pc = "syncq", !.sb = b]
             h == [buf[b] EXCEPT !.lock = TRUE]
  <2>1. /\ r \in Task /\ r.pc = "syncq" /\ r.sb = b /\ r.bh = task[t].bh /\ r.want = task[t].want
        /\ r.first = task[t].first /\ r.ahead = task[t].ahead
    BY <1>1 DEF Task
  <2>2. /\ h \in Heads /\ h.blk = buf[b].blk /\ h.count = buf[b].count /\ h.dirt = buf[b].dirt
        /\ h.uptodate = buf[b].uptodate /\ h.io = buf[b].io /\ h.fresh = buf[b].fresh /\ h.lock
    BY <1>1 DEF Heads
  <2>3. task' = [task EXCEPT ![t] = r] /\ buf' = [buf EXCEPT ![b] = h]
    BY <1>1, <1>3 DEF SyncBuffer, Types
  <2> HIDE DEF r, h
  <2>4. Moves(t, b, r, h)
    BY <1>1, <2>1, <2>2, <2>3 DEF Moves, Touches, Types
  <2>5. /\ task'[t] = r /\ buf'[b] = h /\ \A c \in Buffers \ {b} : buf'[c] = buf[c]
    BY <1>1, <2>4, Frame DEF Moves
  <2>6. \A u \in Tasks : ~Locked(u, b)
    BY <1>1 DEF Locks, LocksHeld
  <2>7. \A c \in Buffers : t \in Owners(c)' <=> t \in Owners(c)
    BY <1>1, <2>1, <2>5 DEF Owners
  <2>8. buf[b].io = "none" /\ buf[b].blk # NONE
    BY <1>1, <1>3 DEF Locks, LocksBind
  <2>9. Obeys(t, b, r, h)
    <3>1. \A c \in Buffers : Locked(t, c)' => c = b
      BY <2>1, <2>5 DEF Locked, At
    <3>2. h.count = buf[b].count + (IF t \in Owners(b)' THEN 1 ELSE 0) - (IF t \in Owners(b) THEN 1 ELSE 0)
      BY <1>1, <2>2, <2>7 DEF Heads
    <3> QED BY <2>1, <2>2, <2>6, <2>7, <2>8, <3>1, <3>2 DEF Obeys
  <2>10. Locals(t)' /\ References(t)'
    <3>1. \A c \in Buffers : buf'[c].blk = buf[c].blk
      BY <2>2, <2>5
    <3>2. task[t].first \in Buffers \cup {NONE}
      BY <1>1 DEF Task
    <3> QED BY <1>1, <2>1, <2>5, <3>1, <3>2, NoneAssumption DEF Locals, References, Working, At
  <2> QED BY <1>1, <1>3, <2>1, <2>2, <2>4, <2>8, <2>9, <2>10, KeepStep DEF Valid
<1> QED BY <1>2, <1>3 DEF SyncBuffer

LEMMA SyncQueueStep ==
  ASSUME NEW t \in Tasks, IInv, SyncQueue(t)
  PROVE  IInv'
<1>0. PICK b \in Buffers : b = task[t].sb
  BY NoneAssumption DEF IInv, Types, Task, Locals, SyncQueue, At
<1> DEFINE r == SyncNext(task[t], b)
           h == [buf[b] EXCEPT !.io = "write", !.dirt = FALSE]
<1>1. /\ task[t] \in Task /\ task[t].pc = "syncq" /\ buf[b] \in Heads /\ Types
      /\ Locks /\ Valid(b) /\ UNCHANGED <<diskFresh, spoilt>> /\ Locals(t) /\ References(t)
  BY <1>0 DEF IInv, Types, SyncQueue, At, Locals, Task
<1>2. /\ h \in Heads /\ h.blk = buf[b].blk /\ h.count = buf[b].count /\ h.dirt = FALSE
      /\ h.uptodate = buf[b].uptodate /\ h.io = "write" /\ h.fresh = buf[b].fresh
      /\ h.lock = buf[b].lock
  BY <1>1 DEF Heads
<1>3. task' = [task EXCEPT ![t] = r] /\ buf' = [buf EXCEPT ![b] = h]
  BY <1>0, <1>1 DEF SyncQueue, Types
<1>4. Locked(t, b)
  BY <1>0, <1>1 DEF Locked, At
<1>5. At(t, "syncq") /\ task[t].sb = b
  BY <1>0, <1>1 DEF At
<1> HIDE DEF r, h
<1>6. /\ r \in Task
      /\ \/ r = Idle /\ task[t].bh = NONE
         \/ /\ r.pc = "sync" \/ (r.pc = "pick" /\ task[t].bh # NONE)
            /\ r.bh = task[t].bh /\ r.want = task[t].want /\ r.first = task[t].first
            /\ r.ahead = task[t].ahead
  BY <1>1, SyncNextType DEF r
<1>7. Moves(t, b, r, h)
  BY <1>1, <1>2, <1>3, <1>6 DEF Moves, Touches, Types
<1>8. /\ task'[t] = r /\ buf'[b] = h /\ \A c \in Buffers \ {b} : buf'[c] = buf[c]
  BY <1>1, <1>7, Frame DEF Moves
<1>9. /\ buf[b].lock /\ buf[b].blk # NONE /\ \A u \in Tasks \ {t} : ~Locked(u, b)
  BY <1>1, <1>4 DEF Locks, LocksHeld, LocksBind
<1>10. task[t].bh = NONE => task[t].first = NONE
  BY <1>1 DEF Locals
<1>11. r.pc \in {"idle", "sync", "pick"}
  BY <1>6, IdleTask
<1>12. \A c \in Buffers : t \in Owners(c)' <=> t \in Owners(c)
  BY <1>1, <1>6, <1>8, <1>10, IdleTask, NoneAssumption DEF Owners
<1>13. Obeys(t, b, r, h)
  <2>1. \A c \in Buffers : ~Locked(t, c)'
    <3>1. task'[t].pc \in {"idle", "sync", "pick"}
      BY <1>8, <1>11
    <3> QED BY <3>1 DEF Locked, At
  <2>2. h.count = buf[b].count + (IF t \in Owners(b)' THEN 1 ELSE 0) - (IF t \in Owners(b) THEN 1 ELSE 0)
    <3>1. buf[b].count \in Int
      BY <1>1 DEF Heads
    <3>2. h.count = buf[b].count
      BY <1>2
    <3>3. t \in Owners(b)' <=> t \in Owners(b)
      BY <1>1, <1>12
    <3> QED BY <3>1, <3>2, <3>3
  <2> QED BY <1>1, <1>2, <1>9, <1>11, <1>12, <2>1, <2>2 DEF Obeys
<1>14. Locals(t)' /\ References(t)'
  <2>1. \A c \in Buffers : buf'[c].blk = buf[c].blk
    BY <1>2, <1>8
  <2>2. task[t].first \in Buffers \cup {NONE}
    BY <1>1 DEF Task
  <2> QED BY <1>1, <1>6, <1>8, <2>1, <2>2, IdleTask, NoneAssumption DEF Locals, References, Working, At
<1> QED BY <1>1, <1>2, <1>5, <1>7, <1>11, <1>13, <1>14, KeepStep DEF Valid
-----------------------------------------------------------------------------
\* bread() goes on to wait for its buffer, breada() to ask for the other block.
LEMMA ProceedStep ==
  ASSUME IInv, NEW t \in Tasks, task[t].pc \in {"rdlock", "rdq"}, Proceed(t, task[t].bh, "rdwait"),
         \A b \in Buffers : buf'[b].blk = buf[b].blk
  PROVE  \E r \in Task :
           /\ task' = [task EXCEPT ![t] = r] /\ task'[t] = r
           /\ r.pc \in {"rdwait", "find"}
           /\ Locals(t)' /\ References(t)'
           /\ \A b \in Buffers : t \in Owners(b)' <=> t \in Owners(b)
<1>0. PICK b \in Buffers : b = task[t].bh
  BY NoneAssumption DEF IInv, Types, Task, Locals, Working
<1>1. /\ task[t] \in Task /\ Types /\ Locals(t) /\ References(t)
      /\ task[t].first = NONE /\ task[t].want # NONE /\ Bh(t) = buf[b]
  BY <1>0 DEF IInv, Types, Locals, Working, Task, Bh
<1>2. CASE task[t].ahead = NONE
  <2> DEFINE r == [task[t] EXCEPT !.pc = "rdwait", !.bh = b]
  <2>1. task' = [task EXCEPT ![t] = r]
    BY <1>0, <1>2 DEF Proceed
  <2>2. /\ r \in Task /\ r.pc = "rdwait" /\ r.bh = b /\ r.first = NONE /\ r.ahead = NONE
    BY <1>1, <1>2 DEF Task
  <2> HIDE DEF r
  <2>3. task'[t] = r
    BY <1>1, <2>1 DEF Types
  <2>4. Locals(t)' /\ References(t)'
    BY <1>0, <1>1, <2>2, <2>3, NoneAssumption DEF Locals, References, Working, At, Bh
  <2>5. \A c \in Buffers : t \in Owners(c)' <=> t \in Owners(c)
    BY <1>0, <1>1, <2>2, <2>3, NoneAssumption DEF Owners
  <2> QED BY <2>1, <2>2, <2>3, <2>4, <2>5
<1>3. CASE task[t].ahead # NONE
  <2> DEFINE r == [Idle EXCEPT !.pc = "find", !.want = task[t].ahead, !.first = b]
  <2>1. task' = [task EXCEPT ![t] = r]
    BY <1>0, <1>3 DEF Proceed
  <2>2. /\ r \in Task /\ r.pc = "find" /\ r.want = task[t].ahead /\ r.bh = NONE
        /\ r.first = b /\ r.ahead = NONE
    BY <1>1, IdleTask DEF Task
  <2> HIDE DEF r
  <2>3. task'[t] = r
    BY <1>1, <2>1 DEF Types
  <2>4. Locals(t)' /\ References(t)'
    BY <1>0, <1>1, <1>3, <2>2, <2>3, NoneAssumption DEF Locals, References, Working, At, Bh
  <2>5. \A c \in Buffers : t \in Owners(c)' <=> t \in Owners(c)
    BY <1>0, <1>1, <2>2, <2>3, NoneAssumption DEF Owners
  <2> QED BY <2>1, <2>2, <2>3, <2>4, <2>5
<1> QED BY <1>2, <1>3

LEMMA ReadLockStep ==
  ASSUME NEW t \in Tasks, IInv, ReadLock(t)
  PROVE  IInv'
<1>0. PICK b \in Buffers : b = task[t].bh
  BY NoneAssumption DEF IInv, Types, Task, Locals, Working, ReadLock, At
<1>1. /\ task[t] \in Task /\ task[t].pc = "rdlock" /\ buf[b] \in Heads /\ Types
      /\ Locks /\ Valid(b) /\ UNCHANGED <<diskFresh, spoilt>> /\ Locals(t) /\ References(t)
      /\ ~buf[b].lock /\ Bh(t) = buf[b] /\ task[t].want # NONE
  BY <1>0 DEF IInv, Types, ReadLock, At, Bh, Locals, Working, Task
<1>2. CASE Proceed(t, b, "rdwait") /\ UNCHANGED buf
  <2>1. PICK r \in Task :
           /\ task' = [task EXCEPT ![t] = r] /\ task'[t] = r
           /\ r.pc \in {"rdwait", "find"}
           /\ Locals(t)' /\ References(t)'
           /\ \A c \in Buffers : t \in Owners(c)' <=> t \in Owners(c)
    BY <1>0, <1>1, <1>2, ProceedStep
  <2> QED BY <1>1, <1>2, <2>1, TaskStep
<1>3. CASE ~buf[b].uptodate /\ Goto(t, "rdq") /\ buf' = [buf EXCEPT ![b].lock = TRUE]
  <2> DEFINE r == [task[t] EXCEPT !.pc = "rdq"]
             h == [buf[b] EXCEPT !.lock = TRUE]
  <2>1. /\ r \in Task /\ r.pc = "rdq" /\ r.bh = b /\ r.want = task[t].want
        /\ r.first = task[t].first /\ r.ahead = task[t].ahead
    BY <1>0, <1>1 DEF Task
  <2>2. /\ h \in Heads /\ h.blk = buf[b].blk /\ h.count = buf[b].count /\ h.dirt = buf[b].dirt
        /\ h.uptodate = buf[b].uptodate /\ h.io = buf[b].io /\ h.fresh = buf[b].fresh /\ h.lock
    BY <1>1 DEF Heads
  <2>3. task' = [task EXCEPT ![t] = r] /\ buf' = [buf EXCEPT ![b] = h]
    BY <1>1, <1>3 DEF Goto, Types
  <2>4. buf[b].blk = task[t].want
    BY <1>0, <1>1 DEF References
  <2> HIDE DEF r, h
  <2>5. Moves(t, b, r, h)
    BY <1>1, <2>1, <2>2, <2>3 DEF Moves, Touches, Types
  <2>6. /\ task'[t] = r /\ buf'[b] = h /\ \A c \in Buffers \ {b} : buf'[c] = buf[c]
    BY <1>1, <2>5, Frame DEF Moves
  <2>7. \A u \in Tasks : ~Locked(u, b)
    BY <1>1 DEF Locks, LocksHeld
  <2>8. \A c \in Buffers : t \in Owners(c)' <=> t \in Owners(c)
    BY <1>0, <1>1, <2>1, <2>6 DEF Owners
  <2>9. buf[b].io = "none"
    BY <1>1 DEF Locks, LocksBind
  <2>10. Obeys(t, b, r, h)
    <3>1. \A c \in Buffers : Locked(t, c)' => c = b
      BY <2>1, <2>6 DEF Locked, At
    <3>2. h.count = buf[b].count + (IF t \in Owners(b)' THEN 1 ELSE 0) - (IF t \in Owners(b) THEN 1 ELSE 0)
      <4>1. buf[b].count \in Int
        BY <1>1 DEF Heads
      <4>2. h.count = buf[b].count
        BY <2>2
      <4>3. t \in Owners(b)' <=> t \in Owners(b)
        BY <1>1, <2>8
      <4> QED BY <4>1, <4>2, <4>3
    <3> QED BY <1>1, <2>1, <2>2, <2>4, <2>7, <2>8, <2>9, <3>1, <3>2 DEF Obeys
  <2>11. Locals(t)' /\ References(t)'
    <3>1. \A c \in Buffers : buf'[c].blk = buf[c].blk
      BY <2>2, <2>6
    <3>2. task[t].first = NONE
      BY <1>1 DEF Locals, Working
    <3> QED BY <1>1, <2>1, <2>2, <2>4, <2>6, <3>1, <3>2, NoneAssumption DEF Locals, References, Working, At, Bh
  <2> QED BY <1>1, <1>3, <2>1, <2>2, <2>5, <2>9, <2>10, <2>11, KeepStep DEF Valid
<1> QED BY <1>0, <1>1, <1>2, <1>3 DEF ReadLock

LEMMA ReadQueueStep ==
  ASSUME NEW t \in Tasks, IInv, ReadQueue(t)
  PROVE  IInv'
<1>0. PICK b \in Buffers : b = task[t].bh
  BY NoneAssumption DEF IInv, Types, Task, Locals, Working, ReadQueue, At
<1> DEFINE h == [buf[b] EXCEPT !.io = "read", !.dirt = FALSE]
<1>1. /\ task[t] \in Task /\ task[t].pc = "rdq" /\ buf[b] \in Heads /\ Types
      /\ Locks /\ Valid(b) /\ UNCHANGED <<diskFresh, spoilt>>
      /\ Proceed(t, b, "rdwait")
  BY <1>0 DEF IInv, Types, ReadQueue, At, Locals, Working, Task
<1>2. /\ h \in Heads /\ h.blk = buf[b].blk /\ h.count = buf[b].count /\ h.dirt = FALSE
      /\ h.uptodate = buf[b].uptodate /\ h.io = "read" /\ h.fresh = buf[b].fresh
      /\ h.lock = buf[b].lock
  BY <1>1 DEF Heads
<1>3. buf' = [buf EXCEPT ![b] = h]
  BY <1>0, <1>1 DEF ReadQueue, Types
<1>4. Locked(t, b) /\ At(t, "rdq") /\ task[t].bh = b
  BY <1>0, <1>1 DEF Locked, At
<1> HIDE DEF h
<1>5. \A c \in Buffers : buf'[c].blk = buf[c].blk
  BY <1>1, <1>2, <1>3 DEF Types
<1>6. PICK r \in Task :
           /\ task' = [task EXCEPT ![t] = r] /\ task'[t] = r
           /\ r.pc \in {"rdwait", "find"}
           /\ Locals(t)' /\ References(t)'
           /\ \A c \in Buffers : t \in Owners(c)' <=> t \in Owners(c)
  BY <1>1, <1>4, <1>5, <1>0, ProceedStep
<1>7. Moves(t, b, r, h)
  BY <1>1, <1>2, <1>3, <1>6 DEF Moves, Touches, Types
<1>8. /\ buf[b].lock /\ buf[b].blk # NONE /\ \A u \in Tasks \ {t} : ~Locked(u, b)
  BY <1>1, <1>4 DEF Locks, LocksHeld, LocksBind
<1>9. Obeys(t, b, r, h)
  <2>1. \A c \in Buffers : ~Locked(t, c)'
    BY <1>6 DEF Locked, At
  <2>2. h.count = buf[b].count + (IF t \in Owners(b)' THEN 1 ELSE 0) - (IF t \in Owners(b) THEN 1 ELSE 0)
    <3>1. buf[b].count \in Int
      BY <1>1 DEF Heads
    <3>2. h.count = buf[b].count
      BY <1>2
    <3>3. t \in Owners(b)' <=> t \in Owners(b)
      BY <1>1, <1>6
    <3> QED BY <3>1, <3>2, <3>3
  <2> QED BY <1>1, <1>2, <1>6, <1>8, <2>1, <2>2 DEF Obeys
<1>10. buf[b].blk \notin spoilt => ~buf[b].uptodate
  BY <1>1, <1>4 DEF Valid
<1> QED BY <1>1, <1>2, <1>6, <1>7, <1>9, <1>10, KeepStep
-----------------------------------------------------------------------------
\* New data: no other buffer has the block, so that the old copies which must
\* be forgotten are the device's.
LEMMA NewDataStep ==
  ASSUME IInv, NEW t \in Tasks, task[t].pc \in {"hold", "fault"}, NEW d \in BOOLEAN, NewData(t, d),
         NEW r \in Task, task' = [task EXCEPT ![t] = r], r.bh = task[t].bh, r.first = task[t].first,
         r.ahead = task[t].ahead, r.want = task[t].want, r.pc \in {"hold", "rel"},
         spoilt' = spoilt \cup (IF d THEN {} ELSE {Bh(t).blk})
  PROVE  IInv'
<1>0. PICK b \in Buffers : b = task[t].bh
  BY NoneAssumption DEF IInv, Types, Task, Locals, Working
<1> DEFINE h == [buf[b] EXCEPT !.fresh = TRUE, !.dirt = d]
<1>1. /\ task[t] \in Task /\ buf[b] \in Heads /\ Types /\ Locks /\ OneBufferPerBlock /\ NoWriteLost
      /\ Locals(t) /\ References(t) /\ Bh(t) = buf[b]
  BY <1>0 DEF IInv, Types, Bh
<1>2. /\ buf[b].blk \in Blocks
      /\ buf[b].blk \notin spoilt => buf[b].uptodate
      /\ Valid(b)
  BY <1>0, <1>1 DEF References, Working, Heads, IInv, Valid
<1>3. /\ h \in Heads /\ h.blk = buf[b].blk /\ h.count = buf[b].count /\ h.dirt = d
      /\ h.uptodate = buf[b].uptodate /\ h.io = buf[b].io /\ h.fresh = TRUE
      /\ h.lock = buf[b].lock
  BY <1>1 DEF Heads
<1>4. diskFresh' = [diskFresh EXCEPT ![buf[b].blk] = FALSE]
  BY <1>1 DEF NewData
<1>5. buf' = [buf EXCEPT ![b] = h]
  <2>1. ASSUME NEW c \in Buffers \ {b} PROVE buf'[c] = buf[c]
    <3>1. buf'[c] = [buf[c] EXCEPT !.fresh = @ /\ buf[c].blk # buf[b].blk]
      BY <1>0, <1>1 DEF NewData
    <3>2. buf[c].blk # buf[b].blk
      BY <1>1, <1>2, NoneAssumption DEF OneBufferPerBlock
    <3>3. buf[c] \in Heads
      BY <1>1 DEF Types
    <3>4. (buf[c].fresh /\ buf[c].blk # buf[b].blk) = buf[c].fresh
      BY <3>2, <3>3 DEF Heads
    <3> QED BY <3>1, <3>3, <3>4 DEF Heads
  <2>2. buf'[b] = h
    BY <1>0 DEF NewData
  <2>3. buf' = [c \in Buffers |-> buf'[c]] /\ buf = [c \in Buffers |-> buf[c]]
    BY <1>1 DEF Types, NewData
  <2> HIDE DEF h
  <2> QED BY <2>1, <2>2, <2>3
<1> HIDE DEF h
<1>6. Touches(t, b, r, h)
  BY <1>1, <1>3, <1>5 DEF Touches, Types
<1>7. /\ task'[t] = r /\ buf'[b] = h /\ buf' \in [Buffers -> Heads] /\ task' \in [Tasks -> Task]
      /\ \A c \in Buffers \ {b} : buf'[c] = buf[c]
      /\ \A u \in Tasks \ {t} :
           /\ task'[u].want = task[u].want /\ task'[u].bh = task[u].bh
           /\ task'[u].ahead = task[u].ahead /\ task'[u].first = task[u].first
           /\ task'[u].sb = task[u].sb
           /\ task'[u].pc = task[u].pc \/ (task[u].pc = "bufwait" /\ task'[u].pc = "find")
           /\ task'[u].pc = "idle" => task'[u] = task[u]
  BY <1>1, <1>6, Frame
<1>8. \A c \in Buffers : t \in Owners(c)' <=> t \in Owners(c)
  BY <1>7 DEF Owners
<1>9. Obeys(t, b, r, h)
  <2>1. \A c \in Buffers : ~Locked(t, c)'
    BY <1>7 DEF Locked, At
  <2>2. \A u \in Tasks \ {t} : Locked(u, b) => h.lock /\ h.io = "none"
    BY <1>1, <1>3 DEF Locks, LocksHeld
  <2>3. h.blk # NONE /\ (h.io # "none" => h.lock)
    BY <1>1, <1>2, <1>3, NoneAssumption DEF Locks, LocksBind
  <2>4. h.count = buf[b].count + (IF t \in Owners(b)' THEN 1 ELSE 0) - (IF t \in Owners(b) THEN 1 ELSE 0)
    <3>1. buf[b].count \in Int
      BY <1>1 DEF Heads
    <3> QED BY <1>3, <1>8, <3>1
  <2> QED BY <1>8, <2>1, <2>2, <2>3, <2>4 DEF Obeys
<1>10. Locks' /\ CountsAreReferences' /\ BufferWaitEnds'
  BY <1>6, <1>9, CommonStep
<1>11. Types'
  BY <1>1, <1>2, <1>4, <1>7 DEF Types
<1>12. \A c \in Buffers : /\ buf'[c].blk = buf[c].blk /\ buf'[c].uptodate = buf[c].uptodate
                          /\ buf'[c].io = buf[c].io
  BY <1>3, <1>7
<1>13. ASSUME NEW u \in Tasks PROVE Locals(u)' /\ References(u)'
  <2>1. Locals(u) /\ References(u) /\ task[u] \in Task
    BY <1>1 DEF IInv, Types
  <2>2. Locals(u)'
    BY <1>7, <2>1 DEF Locals, Working, At
  <2>3. task[u].pc \in Working => task[u].bh \in Buffers
    BY <2>1 DEF Locals, Task
  <2>4. task[u].first # NONE => task[u].first \in Buffers
    BY <2>1 DEF Task
  <2>5. References(u)'
    BY <1>7, <1>12, <2>1, <2>3, <2>4 DEF References, Working, Bh
  <2> QED BY <2>2, <2>5
<1>14. ASSUME NEW c \in Buffers PROVE Valid(c)'
  <2>1. Valid(c)
    BY DEF IInv
  <2>2. \A k \in Blocks : k \notin spoilt' => k \notin spoilt
    OBVIOUS
  <2>3. CASE c # b
    <3>1. buf[c].blk \notin spoilt' => buf[c].blk \notin spoilt
      OBVIOUS
    <3> QED BY <1>7, <2>1, <2>3, <3>1 DEF Valid, At
  <2>4. CASE c = b
    <3>1. buf[b].blk \notin spoilt' => buf[b].blk \notin spoilt
      OBVIOUS
    <3> QED BY <1>2, <1>3, <1>7, <2>4, <3>1 DEF Valid, At
  <2> QED BY <2>3, <2>4
<1>15. OneBufferPerBlock'
  BY <1>1, <1>12 DEF OneBufferPerBlock
<1>16. NoWriteLost'
  <2> SUFFICES ASSUME NEW k \in Blocks \ spoilt'
               PROVE  \/ diskFresh'[k]
                      \/ \E c \in Buffers : buf'[c].blk = k /\ buf'[c].fresh /\ buf'[c].uptodate
                                            /\ (buf'[c].dirt \/ buf'[c].io = "write")
    BY DEF NoWriteLost, find_buffer
  <2>1. k \notin spoilt
    OBVIOUS
  <2>2. CASE k = buf[b].blk
    <3>1. d
      BY <1>1, <2>2
    <3> QED BY <1>2, <1>3, <1>7, <2>1, <2>2, <3>1
  <2>3. CASE k # buf[b].blk
    <3>1. diskFresh'[k] = diskFresh[k]
      BY <1>1, <1>4, <2>3 DEF Types
    <3>2. CASE diskFresh[k]
      BY <3>1, <3>2
    <3>3. CASE ~diskFresh[k]
      <4>1. PICK c \in Buffers : buf[c].blk = k /\ buf[c].fresh /\ buf[c].uptodate
                                 /\ (buf[c].dirt \/ buf[c].io = "write")
        BY <1>1, <2>1, <3>3 DEF NoWriteLost, find_buffer
      <4> QED BY <1>7, <2>3, <4>1
    <3> QED BY <3>2, <3>3
  <2> QED BY <2>2, <2>3
<1> QED BY <1>10, <1>11, <1>13, <1>14, <1>15, <1>16 DEF IInv

LEMMA ModifyStep ==
  ASSUME NEW t \in Tasks, IInv, Modify(t)
  PROVE  IInv'
<1>1. /\ task[t].pc = "hold" /\ task[t] \in Task /\ NewData(t, TRUE) /\ UNCHANGED <<task, spoilt>>
      /\ task \in [Tasks -> Task]
  BY DEF IInv, Types, Modify, At
<1>2. task' = [task EXCEPT ![t] = task[t]] /\ spoilt' = spoilt \cup {}
  BY <1>1
<1> QED BY <1>1, <1>2, NewDataStep

\* The buffer may be clean again by the time the user's data are copied into it.
LEMMA ModifyResumesStep ==
  ASSUME NEW t \in Tasks, IInv, ModifyResumes(t)
  PROVE  IInv'
<1> DEFINE r == [task[t] EXCEPT !.pc = "rel"]
<1>1. /\ task[t].pc = "fault" /\ task[t] \in Task /\ NewData(t, Bh(t).dirt)
      /\ spoilt' = spoilt \cup (IF Bh(t).dirt THEN {} ELSE {Bh(t).blk})
  BY DEF IInv, Types, ModifyResumes, At
<1>2. Bh(t).dirt \in BOOLEAN
  <2>1. task[t].bh \in Buffers
    BY <1>1 DEF IInv, Types, Task, Locals, Working
  <2>2. Bh(t) \in Heads
    BY <2>1 DEF IInv, Types, Bh
  <2> QED BY <2>2 DEF Heads
<1>3. /\ r \in Task /\ r.pc = "rel" /\ r.bh = task[t].bh /\ r.want = task[t].want
      /\ r.first = task[t].first /\ r.ahead = task[t].ahead
  BY <1>1 DEF Task
<1>4. task' = [task EXCEPT ![t] = r]
  BY DEF ModifyResumes, Goto
<1> HIDE DEF r
<1> QED BY <1>1, <1>2, <1>3, <1>4, NewDataStep

LEMMA ModifyFaultsStep ==
  ASSUME NEW t \in Tasks, IInv, ModifyFaults(t)
  PROVE  IInv'
<1>0. PICK b \in Buffers : b = task[t].bh
  BY NoneAssumption DEF IInv, Types, Task, Locals, Working, ModifyFaults, At
<1> DEFINE r == [task[t] EXCEPT !.pc = "fault"]
           h == [buf[b] EXCEPT !.dirt = TRUE]
<1>1. /\ task[t] \in Task /\ task[t].pc = "hold" /\ buf[b] \in Heads /\ Types
      /\ Locks /\ Valid(b) /\ UNCHANGED <<diskFresh, spoilt>> /\ Locals(t) /\ References(t)
      /\ Bh(t) = buf[b] /\ task[t].first = NONE
  BY <1>0 DEF IInv, Types, ModifyFaults, At, Bh, Locals, Working
<1>2. /\ r \in Task /\ r.pc = "fault" /\ r.bh = b /\ r.want = task[t].want
      /\ r.first = task[t].first /\ r.ahead = task[t].ahead
  BY <1>0, <1>1 DEF Task
<1>3. /\ h \in Heads /\ h.blk = buf[b].blk /\ h.count = buf[b].count /\ h.dirt = TRUE
      /\ h.uptodate = buf[b].uptodate /\ h.io = buf[b].io /\ h.fresh = buf[b].fresh
      /\ h.lock = buf[b].lock
  BY <1>1 DEF Heads
<1>4. task' = [task EXCEPT ![t] = r] /\ buf' = [buf EXCEPT ![b] = h]
  BY <1>0, <1>1 DEF ModifyFaults, Goto, Types
<1>5. buf[b].blk # NONE /\ (buf[b].blk \notin spoilt => buf[b].uptodate)
  BY <1>0, <1>1 DEF References, Working, Valid
<1> HIDE DEF r, h
<1>6. Moves(t, b, r, h)
  BY <1>1, <1>2, <1>3, <1>4 DEF Moves, Touches, Types
<1>7. /\ task'[t] = r /\ buf'[b] = h /\ \A c \in Buffers \ {b} : buf'[c] = buf[c]
  BY <1>1, <1>6, Frame DEF Moves
<1>8. \A c \in Buffers : t \in Owners(c)' <=> t \in Owners(c)
  BY <1>0, <1>1, <1>2, <1>7 DEF Owners
<1>9. Obeys(t, b, r, h)
  <2>1. \A c \in Buffers : ~Locked(t, c)'
    BY <1>2, <1>7 DEF Locked, At
  <2>2. h.count = buf[b].count + (IF t \in Owners(b)' THEN 1 ELSE 0) - (IF t \in Owners(b) THEN 1 ELSE 0)
    <3>1. buf[b].count \in Int
      BY <1>1 DEF Heads
    <3> QED BY <1>3, <1>8, <3>1
  <2>3. /\ h.io # "none" => h.lock
        /\ \A u \in Tasks \ {t} : Locked(u, b) => h.lock /\ h.io = "none"
    BY <1>1, <1>3 DEF Locks, LocksBind, LocksHeld
  <2> QED BY <1>2, <1>3, <1>5, <1>8, <2>1, <2>2, <2>3 DEF Obeys
<1>10. Locals(t)' /\ References(t)'
  BY <1>1, <1>2, <1>3, <1>5, <1>7, NoneAssumption DEF Locals, References, Working, At, Bh
<1> QED BY <1>1, <1>2, <1>3, <1>5, <1>6, <1>7, <1>9, <1>10, KeepStep DEF Valid

\* brelse() wakes up everybody who waits for a buffer.
LEMMA brelseStep ==
  ASSUME NEW t \in Tasks, IInv, brelse(t)
  PROVE  IInv'
<1>0. PICK b \in Buffers : b = task[t].bh
  BY NoneAssumption DEF IInv, Types, Task, Locals, Working, brelse, At
<1> DEFINE h == [buf[b] EXCEPT !.count = @ - 1]
<1>1. /\ task[t] \in Task /\ task[t].pc = "rel" /\ buf[b] \in Heads /\ Types /\ ~buf[b].lock
      /\ Locks /\ Valid(b) /\ UNCHANGED <<diskFresh, spoilt>> /\ task[t].first = NONE
  BY <1>0 DEF IInv, Types, brelse, At, Bh, Locals, Working
<1>2. /\ h \in Heads /\ h.blk = buf[b].blk /\ h.count = buf[b].count - 1 /\ h.dirt = buf[b].dirt
      /\ h.uptodate = buf[b].uptodate /\ h.io = buf[b].io /\ h.fresh = buf[b].fresh
      /\ h.lock = buf[b].lock
  BY <1>1 DEF Heads
<1>3. buf' = [buf EXCEPT ![b] = h]
  BY <1>0, <1>1 DEF brelse, Types
<1>4. /\ task'[t] = Idle
      /\ \A u \in Tasks \ {t} : task'[u] = IF At(u, "bufwait") THEN [task[u] EXCEPT !.pc = "find"] ELSE task[u]
  BY DEF brelse
<1> HIDE DEF h
<1>5. Moves(t, b, Idle, h)
  <2>1. \A u \in Tasks : task'[u] \in Task
    <3> SUFFICES ASSUME NEW u \in Tasks \ {t} PROVE task'[u] \in Task
      BY <1>4, IdleTask
    <3>1. task[u] \in Task
      BY <1>1 DEF Types
    <3>2. [task[u] EXCEPT !.pc = "find"] \in Task
      BY <3>1 DEF Task
    <3> QED BY <1>4, <3>1, <3>2
  <2>2. task' \in [Tasks -> Task]
    BY <2>1 DEF brelse
  <2> QED BY <1>1, <1>2, <1>3, <1>4, <2>2, IdleTask DEF Moves, Touches
<1>6. /\ buf'[b] = h /\ \A c \in Buffers \ {b} : buf'[c] = buf[c]
  BY <1>1, <1>5, Frame DEF Moves
<1>7. \A u \in Tasks : task'[u].pc # "bufwait"
  <2> SUFFICES ASSUME NEW u \in Tasks \ {t} PROVE task'[u].pc # "bufwait"
    BY <1>4, IdleTask
  <2>1. task[u] \in Task
    BY <1>1 DEF Types
  <2> QED BY <1>4, <2>1 DEF At, Task
<1>8. /\ \A c \in Buffers : t \notin Owners(c)'
      /\ \A c \in Buffers : t \in Owners(c) <=> c = b
  BY <1>0, <1>1, <1>4, IdleTask, NoneAssumption DEF Owners
<1>9. Obeys(t, b, Idle, h)
  <2>1. \A c \in Buffers : ~Locked(t, c)'
    BY <1>4, IdleTask DEF Locked, At
  <2>2. h.count = buf[b].count + (IF t \in Owners(b)' THEN 1 ELSE 0) - (IF t \in Owners(b) THEN 1 ELSE 0)
    <3>1. buf[b].count \in Int
      BY <1>1 DEF Heads
    <3> QED BY <1>2, <1>8, <3>1
  <2>3. /\ h.dirt \/ h.lock => h.blk # NONE
        /\ h.io # "none" => h.lock
        /\ \A u \in Tasks \ {t} : Locked(u, b) => h.lock /\ h.io = "none"
    BY <1>1, <1>2 DEF Locks, LocksBind, LocksHeld
  <2> QED BY <1>7, <1>8, <2>1, <2>2, <2>3, IdleTask DEF Obeys
<1>10. Locals(t)' /\ References(t)'
  BY <1>4, IdleTask, NoneAssumption DEF Locals, References, Working, At
<1> QED BY <1>1, <1>2, <1>5, <1>9, <1>10, KeepStep, IdleTask DEF Valid
-----------------------------------------------------------------------------
\* What the driver does to a buffer changes neither its block nor its count.
LEMMA DriverStep ==
  ASSUME IInv, NEW b \in Buffers, NEW h \in Heads, buf' = [buf EXCEPT ![b] = h], UNCHANGED task,
         h.blk = buf[b].blk, h.count = buf[b].count, h.dirt = buf[b].dirt,
         h.io # "none" => h.lock, buf[b].io # "none",
         diskFresh' \in [Blocks -> BOOLEAN], spoilt' \in SUBSET Blocks
  PROVE  /\ Types' /\ Locks' /\ OneBufferPerBlock' /\ CountsAreReferences' /\ BufferWaitEnds'
         /\ \A t \in Tasks : (Locals(t) /\ References(t))'
         /\ \A t \in Tasks : ~Locked(t, b)
         /\ buf'[b] = h /\ \A c \in Buffers \ {b} : buf'[c] = buf[c]
<1>1. Types /\ Locks /\ OneBufferPerBlock /\ CountsAreReferences /\ BufferWaitEnds
  BY DEF IInv
<1>2. buf'[b] = h /\ \A c \in Buffers \ {b} : buf'[c] = buf[c]
  BY <1>1 DEF Types
<1>3. \A c \in Buffers : buf'[c].blk = buf[c].blk /\ buf'[c].count = buf[c].count
                         /\ buf'[c].dirt = buf[c].dirt
  BY <1>2
<1>4. Types'
  BY <1>1 DEF Types
<1>5. \A t \in Tasks : ~Locked(t, b)
  BY <1>1 DEF Locks, LocksHeld
<1>6. \A t \in Tasks, c \in Buffers : Locked(t, c)' <=> Locked(t, c)
  BY DEF Locked, At
<1>7. Locks'
  <2>1. ASSUME NEW c \in Buffers PROVE LocksBind(c)'
    <3>1. LocksBind(c) /\ (buf[b].io # "none" => buf[b].lock)
      BY <1>1 DEF Locks, LocksBind
    <3>2. CASE c = b
      <4>1. buf[b].blk # NONE
        BY <1>1 DEF Locks, LocksBind
      <4> QED BY <1>2, <3>2, <4>1 DEF LocksBind
    <3>3. CASE c # b
      BY <1>2, <3>1, <3>3 DEF LocksBind
    <3> QED BY <3>2, <3>3
  <2>2. ASSUME NEW t \in Tasks, NEW c \in Buffers PROVE LocksHeld(t, c)'
    <3>1. LocksHeld(t, c)
      BY <1>1 DEF Locks
    <3> QED BY <1>2, <1>5, <1>6, <3>1 DEF LocksHeld
  <2>3. ASSUME NEW t \in Tasks, NEW u \in Tasks, NEW c \in Buffers, Locked(t, c)', Locked(u, c)'
        PROVE  t = u
    BY <1>1, <1>6, <2>3 DEF Locks
  <2> QED BY <2>1, <2>2, <2>3 DEF Locks
<1>8. \A c \in Buffers : Owners(c)' = Owners(c)
  BY DEF Owners
<1>9. CountsAreReferences' /\ OneBufferPerBlock' /\ BufferWaitEnds'
  BY <1>1, <1>3, <1>8 DEF CountsAreReferences, OneBufferPerBlock, BufferWaitEnds, At
<1>10. ASSUME NEW t \in Tasks PROVE Locals(t)' /\ References(t)'
  <2>1. Locals(t) /\ References(t) /\ task[t] \in Task
    BY <1>1 DEF IInv, Types
  <2>2. Locals(t)'
    BY <2>1 DEF Locals, At
  <2>3. /\ task[t].pc \in Working => task[t].bh \in Buffers
        /\ task[t].first # NONE => task[t].first \in Buffers
    BY <2>1 DEF Locals, Task
  <2>4. References(t)'
    BY <1>3, <2>1, <2>3 DEF References, Working, Bh
  <2> QED BY <2>2, <2>4
<1> QED BY <1>2, <1>4, <1>5, <1>7, <1>9, <1>10

LEMMA TransferStep ==
  ASSUME NEW b \in Buffers, IInv, Transfer(b)
  PROVE  IInv'
<1> DEFINE h == [buf[b] EXCEPT !.io = "written"]
<1>1. /\ buf[b] \in Heads /\ Types /\ Locks /\ buf[b].io = "write" /\ NoWriteLost /\ OneBufferPerBlock
      /\ UNCHANGED <<task, spoilt>> /\ diskFresh' = [diskFresh EXCEPT ![buf[b].blk] = buf[b].fresh]
  BY DEF IInv, Types, Transfer
<1>2. /\ h \in Heads /\ h.blk = buf[b].blk /\ h.count = buf[b].count /\ h.dirt = buf[b].dirt
      /\ h.uptodate = buf[b].uptodate /\ h.io = "written" /\ h.fresh = buf[b].fresh
      /\ h.lock = buf[b].lock
  BY <1>1 DEF Heads
<1>3. buf' = [buf EXCEPT ![b] = h]
  BY <1>1 DEF Transfer, Types
<1> HIDE DEF h
<1>4. buf[b].lock /\ buf[b].blk \in Blocks /\ buf[b].fresh \in BOOLEAN
  BY <1>1 DEF Locks, LocksBind, Heads
<1>5. diskFresh' \in [Blocks -> BOOLEAN] /\ spoilt' \in SUBSET Blocks
  BY <1>1, <1>4 DEF Types
<1>6. /\ Types' /\ Locks' /\ OneBufferPerBlock' /\ CountsAreReferences' /\ BufferWaitEnds'
      /\ \A t \in Tasks : (Locals(t) /\ References(t))'
      /\ \A t \in Tasks : ~Locked(t, b)
      /\ buf'[b] = h /\ \A c \in Buffers \ {b} : buf'[c] = buf[c]
  BY <1>1, <1>2, <1>3, <1>4, <1>5, DriverStep
<1>7. ASSUME NEW c \in Buffers PROVE Valid(c)'
  <2>1. Valid(c)
    BY DEF IInv
  <2>2. CASE c # b
    BY <1>1, <1>6, <2>1, <2>2 DEF Valid, At
  <2>3. CASE c = b
    BY <1>1, <1>2, <1>6, <2>1, <2>3 DEF Valid, At
  <2> QED BY <2>2, <2>3
<1>8. NoWriteLost'
  <2> SUFFICES ASSUME NEW k \in Blocks \ spoilt, ~diskFresh'[k]
               PROVE  \E c \in Buffers : buf'[c].blk = k /\ buf'[c].fresh /\ buf'[c].uptodate
                                         /\ (buf'[c].dirt \/ buf'[c].io = "write")
    BY <1>1 DEF NoWriteLost, find_buffer
  <2>1. k # buf[b].blk
    <3> SUFFICES ASSUME k = buf[b].blk PROVE FALSE
      OBVIOUS
    <3>1. diskFresh'[k] = buf[b].fresh
      BY <1>1, <1>4 DEF Types
    <3>2. Valid(b)
      BY DEF IInv
    <3> QED BY <1>1, <3>1, <3>2 DEF Valid
  <2>2. ~diskFresh[k]
    BY <1>1, <2>1 DEF Types
  <2>3. PICK c \in Buffers : buf[c].blk = k /\ buf[c].fresh /\ buf[c].uptodate
                             /\ (buf[c].dirt \/ buf[c].io = "write")
    BY <1>1, <2>2 DEF NoWriteLost, find_buffer
  <2> QED BY <1>6, <2>1, <2>3
<1> QED BY <1>6, <1>7, <1>8 DEF IInv

\* A read makes the buffer valid with the data of the device, which are the
\* last ones: no other buffer has the block.
LEMMA EndRequestStep ==
  ASSUME NEW b \in Buffers, NEW ok \in BOOLEAN, IInv, end_request(b, ok)
  PROVE  IInv'
<1> DEFINE f == IF buf[b].io = "read" THEN ok /\ diskFresh[buf[b].blk] ELSE buf[b].fresh
           h == [buf[b] EXCEPT !.io = "none", !.lock = FALSE, !.uptodate = ok, !.fresh = f]
<1>1. /\ buf[b] \in Heads /\ Types /\ Locks /\ NoWriteLost /\ OneBufferPerBlock /\ Valid(b)
      /\ UNCHANGED <<task, diskFresh>> /\ buf[b].io # "none" /\ (ok => buf[b].io \in {"read", "written"})
      /\ spoilt' = spoilt \cup (IF ~ok /\ buf[b].io # "read" THEN {buf[b].blk} ELSE {})
  BY DEF IInv, Types, end_request
<1>2. buf[b].blk \in Blocks /\ buf[b].lock
  BY <1>1 DEF Locks, LocksBind, Heads
<1>3. f \in BOOLEAN
  BY <1>1, <1>2 DEF Types, Heads
<1>4. buf' = [buf EXCEPT ![b] = h]
  BY <1>1 DEF end_request, Types
<1>5. /\ buf[b].io = "read" /\ ok => f = diskFresh[buf[b].blk]
      /\ buf[b].io # "read" => f = buf[b].fresh
  BY <1>1, <1>2 DEF Types
<1> HIDE DEF f
<1>6. /\ h \in Heads /\ h.blk = buf[b].blk /\ h.count = buf[b].count /\ h.dirt = buf[b].dirt
      /\ h.uptodate = ok /\ h.io = "none" /\ h.fresh = f /\ h.lock = FALSE
  BY <1>1, <1>3 DEF Heads
<1> HIDE DEF h
<1>7. diskFresh' \in [Blocks -> BOOLEAN] /\ spoilt' \in SUBSET Blocks
  BY <1>1, <1>2 DEF Types
<1>8. /\ Types' /\ Locks' /\ OneBufferPerBlock' /\ CountsAreReferences' /\ BufferWaitEnds'
      /\ \A t \in Tasks : (Locals(t) /\ References(t))'
      /\ \A t \in Tasks : ~Locked(t, b)
      /\ buf'[b] = h /\ \A c \in Buffers \ {b} : buf'[c] = buf[c]
  BY <1>1, <1>4, <1>6, <1>7, DriverStep
<1>9. ~ok /\ buf[b].io # "read" => buf[b].blk \in spoilt'
  BY <1>1
<1>10. ASSUME buf[b].blk \notin spoilt', ok
       PROVE  f
  <2>1. buf[b].blk \notin spoilt
    BY <1>1, <1>10
  <2>2. CASE buf[b].io = "read"
    <3>1. ~buf[b].uptodate
      BY <1>1, <2>1, <2>2 DEF Valid
    <3>2. \A c \in find_buffer(buf[b].blk) : c = b
      BY <1>1, <1>2, NoneAssumption DEF OneBufferPerBlock, find_buffer
    <3>3. diskFresh[buf[b].blk]
      BY <1>1, <1>2, <2>1, <3>1, <3>2 DEF NoWriteLost
    <3> QED BY <1>5, <1>10, <2>2, <3>3
  <2>3. CASE buf[b].io # "read"
    BY <1>1, <1>5, <1>10, <2>1, <2>3 DEF Valid
  <2> QED BY <2>2, <2>3
<1>11. ASSUME NEW c \in Buffers PROVE Valid(c)'
  <2>1. Valid(c) /\ (buf[c].blk \notin spoilt' => buf[c].blk \notin spoilt)
    BY <1>1 DEF IInv
  <2>2. CASE c # b
    BY <1>1, <1>8, <2>1, <2>2 DEF Valid, At
  <2>3. CASE c = b
    <3>1. \A t \in Tasks : /\ ~(task'[t].pc = "syncq" /\ task'[t].sb = b)
                           /\ ~(task'[t].pc = "rdq" /\ task'[t].bh = b)
      BY <1>1, <1>8 DEF Locked, At
    <3>2. buf[b].blk \notin spoilt' /\ ~ok =>
            /\ ~buf[b].dirt
            /\ \A t \in Tasks : ~(task'[t].pc \in {"hold", "fault"} /\ task'[t].bh = b)
      BY <1>1, <1>9, <2>1, <2>3 DEF Valid, At
    <3> QED BY <1>6, <1>8, <1>10, <2>3, <3>1, <3>2 DEF Valid, At
  <2> QED BY <2>2, <2>3
<1>12. NoWriteLost'
  <2> SUFFICES ASSUME NEW k \in Blocks \ spoilt', ~diskFresh[k]
               PROVE  \E c \in Buffers : buf'[c].blk = k /\ buf'[c].fresh /\ buf'[c].uptodate
                                         /\ (buf'[c].dirt \/ buf'[c].io = "write")
    BY <1>1 DEF NoWriteLost, find_buffer
  <2>1. k \notin spoilt
    BY <1>1
  <2>2. PICK c \in Buffers : buf[c].blk = k /\ buf[c].fresh /\ buf[c].uptodate
                             /\ (buf[c].dirt \/ buf[c].io = "write")
    BY <1>1, <2>1 DEF NoWriteLost, find_buffer
  <2>3. CASE c # b
    BY <1>8, <2>2, <2>3
  <2>4. CASE c = b
    <3>1. ok
      BY <1>1, <1>9, <2>1, <2>2, <2>4 DEF Valid
    <3>2. buf[b].dirt
      BY <1>1, <2>2, <2>4, <3>1
    <3> QED BY <1>6, <1>8, <1>10, <2>2, <2>4, <3>1, <3>2
  <2> QED BY <2>3, <2>4
<1> QED BY <1>8, <1>11, <1>12 DEF IInv
-----------------------------------------------------------------------------
LEMMA StutterStep == IInv /\ UNCHANGED vars => IInv'
<1> SUFFICES ASSUME IInv, UNCHANGED vars PROVE IInv'
  OBVIOUS
<1> USE DEF IInv, vars
<1>1. Types' /\ OneBufferPerBlock' /\ NoWriteLost'
  BY DEF Types, OneBufferPerBlock, NoWriteLost, find_buffer
<1>2. \A t \in Tasks : (Locals(t) /\ References(t))'
  BY DEF Locals, References, At, Bh
<1>3. Locks'
  BY DEF Locks, LocksBind, LocksHeld, Locked, At
<1>4. \A b \in Buffers : Owners(b)' = Owners(b)
  BY DEF Owners
<1>5. CountsAreReferences' /\ BufferWaitEnds'
  BY <1>4 DEF CountsAreReferences, BufferWaitEnds, At
<1>6. ASSUME NEW b \in Buffers PROVE Valid(b)'
  <2>1. Valid(b) /\ UNCHANGED <<buf, task, spoilt>>
    OBVIOUS
  <2> QED BY <2>1 DEF Valid, At
<1> QED BY <1>1, <1>2, <1>3, <1>5, <1>6

LEMMA NextIInv == IInv /\ [Next]_vars => IInv'
<1> SUFFICES ASSUME IInv, Next PROVE IInv'
  BY StutterStep
<1>1. CASE \E t \in Tasks : \E k \in Blocks : Call(t, k, NONE)
  BY <1>1, CallStep, NoneAssumption
<1>2. CASE \E t \in Tasks : \E k \in Blocks : \E a \in Blocks \ {k} : t \in Readers /\ Call(t, k, a)
  BY <1>2, CallStep
<1>3. CASE \E t \in Tasks : CallSync(t) \/ Modify(t) \/ ModifyFaults(t)
  BY <1>3, CallSyncStep, ModifyStep, ModifyFaultsStep
<1>4. CASE \E t \in Tasks : Step(t)
  BY <1>4, FindStep, HashWaitStep, PickStep, SyncBufferStep, SyncQueueStep, ReadLockStep,
     ReadQueueStep, ReadWaitStep, ModifyResumesStep, ReleaseStep, brelseStep DEF Step
<1>5. CASE \E b \in Buffers : Transfer(b) \/ \E ok \in BOOLEAN : end_request(b, ok)
  BY <1>5, TransferStep, EndRequestStep
<1> QED BY <1>1, <1>2, <1>3, <1>4, <1>5 DEF Next
-----------------------------------------------------------------------------
\* Every reachable state satisfies the inductive invariant.
THEOREM Inductive == Spec => []IInv
<1>1. Init => IInv
  BY InitIInv
<1>2. IInv /\ [Next]_vars => IInv'
  BY NextIInv
<1> QED BY <1>1, <1>2, PTL DEF Spec

\* Types, and b_count, an unsigned char, which is at most the number of tasks.
THEOREM TypeCorrect == Spec => []TypeOK
<1>1. IInv => TypeOK
  <2> SUFFICES ASSUME IInv PROVE TypeOK
    OBVIOUS
  <2>1. ASSUME NEW b \in Buffers PROVE buf[b] \in BufferHead
    <3>1. buf[b] \in Heads
      BY DEF IInv, Types
    <3>2. buf[b].count = Cardinality(Owners(b))
      BY DEF IInv, CountsAreReferences
    <3>3. Owners(b) \in SUBSET Tasks
      BY DEF Owners
    <3>4. /\ Cardinality(Owners(b)) \in Nat /\ Cardinality(Tasks) \in Nat
          /\ Cardinality(Owners(b)) <= Cardinality(Tasks)
      BY <3>3, TasksAssumption, FS_Subset, FS_CardinalityType
    <3>5. buf[b].count \in 0 .. 2 * Cardinality(Tasks)
      BY <3>2, <3>4
    <3> QED BY <3>1, <3>5 DEF Heads, BufferHead
  <2> QED BY <2>1 DEF IInv, Types, TypeOK
<1> QED BY <1>1, Inductive, PTL

\* A block is in one buffer at most, although getblk() sleeps between its search
\* for the block and the use of the buffer it has chosen.
THEOREM BlocksAreUnique == Spec => []OneBufferPerBlock
<1>1. IInv => OneBufferPerBlock
  BY DEF IInv
<1> QED BY <1>1, Inductive, PTL

\* b_count is exactly the number of tasks that have the buffer.
THEOREM CountsAreExact == Spec => []CountsAreReferences
<1>1. IInv => CountsAreReferences
  BY DEF IInv
<1> QED BY <1>1, Inductive, PTL

\* A task that bread() has given a buffer to sees the last data written to the
\* block by any task, unless they could be lost.
THEOREM HoldersAreUpToDate == Spec => []HoldersSeeLastWrite
<1>1. IInv => HoldersSeeLastWrite
  <2> SUFFICES ASSUME IInv, NEW t \in Tasks, At(t, "hold"), Bh(t).blk \notin spoilt
               PROVE  Bh(t).uptodate /\ Bh(t).fresh
    BY DEF HoldersSeeLastWrite
  <2>1. PICK b \in Buffers : b = task[t].bh
    BY NoneAssumption DEF IInv, Types, Task, Locals, Working, At
  <2>2. Valid(b) /\ Bh(t) = buf[b]
    BY <2>1 DEF IInv, Bh
  <2> QED BY <2>1, <2>2 DEF Valid, At
<1> QED BY <1>1, Inductive, PTL

\* Nothing that was written is lost but by a failed write or by a fault of
\* file_write() in the middle of its copying.
THEOREM NothingIsLost == Spec => []NoWriteLost
<1>1. IInv => NoWriteLost
  BY DEF IInv
<1> QED BY <1>1, Inductive, PTL

\* Whoever sleeps on buffer_wait has somebody to be woken up by.
THEOREM BufferWaitersHaveWakers == Spec => []BufferWaitEnds
<1>1. IInv => BufferWaitEnds
  BY DEF IInv
<1> QED BY <1>1, Inductive, PTL

\* getblk() gives only an unused, unlocked, clean buffer without a request to
\* another block.
THEOREM OnlyIdleBuffersAreReused == Spec => ReusedBuffersAreIdle
<1> DEFINE Reused(b) ==
      buf'[b].blk # buf[b].blk =>
        /\ buf[b].count = 0 /\ ~buf[b].lock /\ ~buf[b].dirt /\ buf[b].io = "none"
<1>1. IInv /\ [Next]_vars => [\A b \in Buffers : Reused(b)]_vars
  <2> SUFFICES ASSUME IInv, Next, NEW b \in Buffers PROVE Reused(b)
    OBVIOUS
  <2>1. /\ buf \in [Buffers -> Heads] /\ buf[b] \in Heads /\ Locks
    BY DEF IInv, Types
  <2>2. ASSUME NEW t \in Tasks, NEW c \in Buffers, NEW head \in Heads, Obtained(t, c, head)
        PROVE  buf'[b].blk = IF b = c THEN head.blk ELSE buf[b].blk
    <3>1. PICK h : buf' = [buf EXCEPT ![c] = h] /\ h.blk = head.blk
      <4>1. CASE buf' = [buf EXCEPT ![c] = head]
        BY <4>1
      <4>2. CASE \E reads \in BOOLEAN :
                   buf' = [buf EXCEPT ![c] = [head EXCEPT !.count = @ - 1, !.lock = @ \/ reads, !.dirt = @ /\ ~reads,
                                                            !.io = IF reads THEN "read" ELSE @]]
        <5>1. PICK reads \in BOOLEAN :
                buf' = [buf EXCEPT ![c] = [head EXCEPT !.count = @ - 1, !.lock = @ \/ reads, !.dirt = @ /\ ~reads,
                                                         !.io = IF reads THEN "read" ELSE @]]
          BY <4>2
        <5> DEFINE h == [head EXCEPT !.count = @ - 1, !.lock = @ \/ reads, !.dirt = @ /\ ~reads,
                                     !.io = IF reads THEN "read" ELSE @]
        <5>2. h.blk = head.blk
          BY DEF Heads
        <5>3. buf' = [buf EXCEPT ![c] = h]
          BY <5>1
        <5> HIDE DEF h
        <5> QED BY <5>2, <5>3
      <4> QED BY <2>2, <4>1, <4>2 DEF Obtained
    <3> QED BY <2>1, <3>1
  <2>3. UNCHANGED buf => Reused(b)
    OBVIOUS
  <2>4. ASSUME NEW t \in Tasks, HashWait(t) PROVE Reused(b)
    <3>1. PICK c \in Buffers : c = task[t].bh
      BY <2>4, NoneAssumption DEF IInv, Types, Task, Locals, Working, HashWait, At
    <3>2. CASE Obtained(t, c, buf[c])
      BY <2>1, <2>2, <3>2 DEF IInv, Types
    <3>3. CASE buf' = [buf EXCEPT ![c].count = @ - 1]
      BY <2>1, <3>3 DEF Heads
    <3> QED BY <2>4, <3>1, <3>2, <3>3 DEF HashWait, Bh
  <2>5. ASSUME NEW t \in Tasks, Pick(t) PROVE Reused(b)
    <3>1. PICK c \in Buffers : c = task[t].bh
      BY <2>5, NoneAssumption DEF IInv, Types, Task, Locals, Pick, At
    <3> DEFINE head == [buf[c] EXCEPT !.blk = task[t].want, !.count = 1,
                                      !.uptodate = FALSE, !.fresh = FALSE]
    <3>2. /\ ~buf[c].lock
          /\ UNCHANGED buf \/ (buf[c].count = 0 /\ ~buf[c].dirt /\ Obtained(t, c, head))
      BY <2>5, <3>1 DEF Pick, Bh
    <3>3. head \in Heads
      <4>1. task[t].want \in Blocks \cup {NONE} /\ buf[c] \in Heads /\ 1 \in Int
        BY <2>1 DEF IInv, Types, Task
      <4> DEFINE g == [buf[c] EXCEPT !.blk = task[t].want, !.count = 1]
      <4>2. g \in Heads
        BY <4>1 DEF Heads
      <4>3. head = [g EXCEPT !.uptodate = FALSE, !.fresh = FALSE]
        BY <4>1 DEF Heads
      <4> HIDE DEF g, head
      <4> QED BY <4>2, <4>3 DEF Heads
    <3>4. ~buf[c].lock => buf[c].io = "none"
      BY <2>1 DEF Locks, LocksBind
    <3> HIDE DEF head
    <3> QED BY <2>2, <2>3, <3>2, <3>3, <3>4
  <2>6. ASSUME NEW t \in Tasks,
               Find(t) \/ SyncQueue(t) \/ (\E c \in Buffers : SyncBuffer(t, c)) \/ ReadLock(t)
                 \/ ReadQueue(t) \/ ModifyFaults(t) \/ brelse(t)
        PROVE  Reused(b)
    <3>1. CASE Find(t)
      BY <2>1, <3>1 DEF Find, Heads
    <3>2. CASE SyncQueue(t)
      BY <2>1, <3>2 DEF SyncQueue, Heads
    <3>3. CASE \E c \in Buffers : SyncBuffer(t, c)
      BY <2>1, <3>3 DEF SyncBuffer, Heads
    <3>4. CASE ReadLock(t)
      BY <2>1, <3>4 DEF ReadLock, Heads
    <3>5. CASE ReadQueue(t)
      BY <2>1, <3>5 DEF ReadQueue, Heads
    <3>6. CASE ModifyFaults(t)
      BY <2>1, <3>6 DEF ModifyFaults, Heads
    <3>7. CASE brelse(t)
      BY <2>1, <3>7 DEF brelse, Heads
    <3> QED BY <2>6, <3>1, <3>2, <3>3, <3>4, <3>5, <3>6, <3>7
  <2>7. ASSUME NEW t \in Tasks, Modify(t) \/ ModifyResumes(t)
        PROVE  Reused(b)
    <3>1. PICK d : NewData(t, d)
      BY <2>7 DEF Modify, ModifyResumes
    <3>2. CASE b = task[t].bh
      <4>1. buf'[b] = [buf[b] EXCEPT !.fresh = TRUE, !.dirt = d]
        BY <3>1, <3>2 DEF NewData
      <4> QED BY <2>1, <4>1 DEF Heads
    <3>3. CASE b # task[t].bh
      <4>1. PICK f : buf'[b] = [buf[b] EXCEPT !.fresh = f]
        BY <3>1, <3>3 DEF NewData
      <4> QED BY <2>1, <4>1 DEF Heads
    <3> QED BY <3>2, <3>3
  <2>8. ASSUME NEW c \in Buffers, Transfer(c) \/ \E ok \in BOOLEAN : end_request(c, ok)
        PROVE  Reused(b)
    <3>1. CASE Transfer(c)
      BY <2>1, <3>1 DEF Transfer, Heads
    <3>2. CASE \E ok \in BOOLEAN : end_request(c, ok)
      <4>1. PICK ok, f : buf' = [buf EXCEPT ![c].io = "none", ![c].lock = FALSE, ![c].uptodate = ok,
                                           ![c].fresh = f]
        BY <3>2 DEF end_request
      <4> QED BY <2>1, <4>1 DEF Heads
    <3> QED BY <2>8, <3>1, <3>2
  <2> QED
    <3> HIDE DEF Reused
    <3> QED BY <2>3, <2>4, <2>5, <2>6, <2>7, <2>8
            DEF Next, Step, Call, CallSync, ReadWait, Release
<1> QED BY <1>1, Inductive, PTL DEF Spec, ReusedBuffersAreIdle
=============================================================================
