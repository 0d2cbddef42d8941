----------------------------- MODULE DiskProofs -----------------------------
(***************************************************************************)
(* The list of requests is never destroyed, a buffer is locked exactly as   *)
(* long as somebody is going to unlock it, and without swapping the         *)
(* elevator makes one sweep after the other: for every number of tasks,     *)
(* slots, blocks and pages.  The hard disk driver implements the queue, and *)
(* counts off no sector that was not transferred.                           *)
(*                                                                          *)
(* A buffer is locked by a request that is queued for it, or by a task on   *)
(* its way from lock_buffer() to add_request(), and by only one of them     *)
(* (OneOwner).  That is also why the positions of queued requests differ,   *)
(* so that IN_ORDER is a total order on them, which the argument about the  *)
(* sweeps needs.                                                            *)
(***************************************************************************)
EXTENDS HardDisk, FiniteSetTheorems, WellFoundedInduction, TLAPS

\* A slot is busy, a task holds the lock of its buffer.
Taken(s) == request[s] # NULL
Holds(t, b) == call[t].bh = b /\ call[t].at \in {"find", "full", "asleep"}

\* What a call is about: a buffer, whose position is its name, or a page.
CallShape(t) ==
  /\ call[t].bh \in Blocks => call[t].pos = call[t].bh
  /\ call[t].bh = NULL /\ call[t].at # "idle" => call[t].pos \in Pages
  /\ call[t].at \in {"idle", "page"} => call[t].bh = NULL
  /\ call[t].at = "lock" \/ call[t].ahead => call[t].bh \in Blocks

\* What a request is about; a task that waits for its page has one request.
RequestShape(s) ==
  Taken(s) =>
    /\ request[s].bh \in Blocks => request[s].pos = request[s].bh
    /\ request[s].bh = NULL => request[s].pos \in Pages
    /\ request[s].waiting \in Tasks =>
         /\ At(request[s].waiting, "page")
         /\ \A u \in Slots : Taken(u) /\ request[u].waiting = request[s].waiting => u = s

Shapes == (\A t \in Tasks : CallShape(t)) /\ (\A s \in Slots : RequestShape(s))

\* The list links the busy slots, each of them once.
LinkedOnce == \A i, j \in 1 .. Len(list) : list[i] = list[j] => i = j
LinksBusySlots == \A s \in Slots : Taken(s) <=> \E i \in 1 .. Len(list) : list[i] = s

\* The lock of a buffer belongs to one request or one task.
OneOwner(b) ==
  /\ \A s, u \in Slots : Taken(s) /\ Taken(u) /\ request[s].bh = b /\ request[u].bh = b => s = u
  /\ \A t, u \in Tasks : Holds(t, b) /\ Holds(u, b) => t = u
  /\ \A t \in Tasks, s \in Slots : ~(Holds(t, b) /\ Taken(s) /\ request[s].bh = b)
OwnedIffLocked(b) ==
  b_lock[b] <=> \/ \E s \in Slots : Taken(s) /\ request[s].bh = b
                \/ \E t \in Tasks : Holds(t, b)
LockInv == \A b \in Blocks : OneOwner(b) /\ OwnedIffLocked(b)

\* The inductive invariant.
IInv == TypeOK /\ Shapes /\ LinkedOnce /\ LinksBusySlots /\ LockInv

\* How often a list of requests falls, given as a function of the place: at
\* most once.
Rises(a, i) == IN_ORDER(a[i], a[i + 1])
FallsOnce(a, n) == \A i, j \in 1 .. n - 1 : ~Rises(a, i) /\ ~Rises(a, j) => i = j
QueuedRequests == [i \in 1 .. Len(list) |-> request[list[i]]]
Swept == FallsOnce(QueuedRequests, Len(list))
-----------------------------------------------------------------------------
(* Sets of numbers and sequences.                                          *)

\* A nonempty set of naturals has a least element.
LEMMA LeastNat ==
  ASSUME NEW T \in SUBSET Nat, T # {}
  PROVE  \E x \in T : \A y \in T : x <= y
<1>1. PICK x \in T : \A y \in T : <<y, x>> \notin OpToRel(<, Nat)
  BY NatLessThanWellFounded, WFMin
<1>2. \A y \in T : ~ (y < x)
  BY <1>1 DEF OpToRel
<1> QED
  BY <1>2

\* Min() finds it.
LEMMA MinIsLeast ==
  ASSUME NEW T \in SUBSET Nat, T # {}
  PROVE  Min(T) \in T /\ \A y \in T : Min(T) <= y
BY LeastNat DEF Min

\* A nonempty set of naturals below a bound has a largest element, which
\* Max() finds.
LEMMA MaxIsLargest ==
  ASSUME NEW n \in Nat, NEW T \in SUBSET (0 .. n - 1), T # {}
  PROVE  Max(T) \in T
<1> DEFINE Gaps == {n - x : x \in T}
<1>1. Gaps \in SUBSET Nat /\ Gaps # {}
  OBVIOUS
<1>2. PICK g \in Gaps : \A h \in Gaps : g <= h
  <2> HIDE DEF Gaps
  <2> QED
    BY <1>1, LeastNat
<1>3. PICK x \in T : g = n - x
  BY <1>2
<1>4. ASSUME NEW y \in T
      PROVE  x >= y
  <2>1. g <= n - y
    BY <1>2
  <2> QED
    BY <2>1, <1>3
<1> QED
  BY <1>4 DEF Max

\* InsertAt() moves the elements from k on by one.
LEMMA InsertMoves ==
  ASSUME NEW q \in Seq(Slots), NEW e \in Slots, NEW k \in 1 .. Len(q) + 1
  PROVE  /\ InsertAt(q, k, e) \in Seq(Slots)
         /\ Len(InsertAt(q, k, e)) = Len(q) + 1
         /\ \A i \in 1 .. Len(q) + 1 :
              InsertAt(q, k, e)[i] = IF i < k THEN q[i] ELSE IF i = k THEN e ELSE q[i - 1]
<1> DEFINE front == SubSeq(q, 1, k - 1)
           back == SubSeq(q, k, Len(q))
<1>1. front \in Seq(Slots) /\ Len(front) = k - 1 /\ \A i \in 1 .. k - 1 : front[i] = q[i]
  OBVIOUS
<1>2. back \in Seq(Slots) /\ Len(back) = Len(q) - k + 1
      /\ \A i \in 1 .. Len(q) - k + 1 : back[i] = q[k - 1 + i]
  OBVIOUS
<1>3. InsertAt(q, k, e) = (front \o <<e>>) \o back
  BY DEF InsertAt
<1> HIDE DEF front, back
<1>4. front \o <<e>> \in Seq(Slots) /\ Len(front \o <<e>>) = k
      /\ \A i \in 1 .. k : (front \o <<e>>)[i] = IF i < k THEN q[i] ELSE e
  BY <1>1
<1> DEFINE first == front \o <<e>>
<1> HIDE DEF first
<1>5. first \in Seq(Slots) /\ Len(first) = k
      /\ \A i \in 1 .. k : first[i] = IF i < k THEN q[i] ELSE e
  BY <1>4 DEF first
<1>6. InsertAt(q, k, e) = first \o back
  BY <1>3 DEF first
<1>7. first \o back \in Seq(Slots) /\ Len(first \o back) = Len(q) + 1
  BY <1>2, <1>5
<1>8. ASSUME NEW i \in 1 .. Len(q) + 1
      PROVE  (first \o back)[i] = IF i < k THEN q[i] ELSE IF i = k THEN e ELSE q[i - 1]
  <2>1. CASE i <= k
    BY <2>1, <1>2, <1>5
  <2>2. CASE i > k
    <3>1. (first \o back)[i] = back[i - k]
      BY <2>2, <1>2, <1>5
    <3>2. i - k \in 1 .. Len(q) - k + 1 /\ k - 1 + (i - k) = i - 1
      BY <2>2
    <3> QED
      BY <3>1, <3>2, <1>2, <2>2
  <2>3. i <= k \/ i > k
    OBVIOUS
  <2> QED
    BY <2>1, <2>2, <2>3
<1> QED
  BY <1>6, <1>7, <1>8

\* Tail() moves them back.
LEMMA TailMoves ==
  ASSUME NEW q \in Seq(Slots), q # <<>>
  PROVE  /\ Tail(q) \in Seq(Slots)
         /\ Len(Tail(q)) = Len(q) - 1
         /\ \A i \in 1 .. Len(q) - 1 : Tail(q)[i] = q[i + 1]
         /\ Head(q) = q[1] /\ Len(q) \in Nat /\ Len(q) >= 1
OBVIOUS

-----------------------------------------------------------------------------
(* The inductive invariant, action by action.                              *)

\* The queue is empty at the beginning.
LEMMA InitOK == Init => IInv
<1> SUFFICES ASSUME Init
             PROVE  IInv
  OBVIOUS
<1>1. Idle \in Call /\ Idle.at = "idle" /\ Idle.bh = NULL /\ Idle.ahead = FALSE
  BY DEF Idle, Call, READ, WRITE
<1>2. call = [t \in Tasks |-> Idle] /\ request = [s \in Slots |-> NULL] /\ list = <<>>
      /\ b_lock = [b \in Blocks |-> FALSE]
  BY DEF Init
<1>3. TypeOK
  <2>1. list \in Seq(Slots)
    BY <1>2
  <2>2. request \in [Slots -> Request \cup {NULL}]
    BY <1>2
  <2>3. call \in [Tasks -> Call]
    BY <1>1, <1>2
  <2> QED
    BY <2>1, <2>2, <2>3 DEF TypeOK, Init
<1>4. \A t \in Tasks : call[t] = Idle
  BY <1>2
<1>5. \A s \in Slots : ~Taken(s)
  BY <1>2 DEF Taken
<1>6. Shapes
  BY <1>1, <1>4, <1>5, PositionAssumption DEF Shapes, CallShape, RequestShape
<1>7. LinkedOnce /\ LinksBusySlots
  BY <1>2, <1>5 DEF LinkedOnce, LinksBusySlots
<1>8. \A t \in Tasks, b \in Blocks : ~Holds(t, b)
  BY <1>1, <1>4 DEF Holds
<1>9. \A b \in Blocks : ~b_lock[b]
  BY <1>2
<1> QED
  BY <1>3, <1>5, <1>6, <1>7, <1>8, <1>9 DEF IInv, LockInv, OneOwner, OwnedIffLocked

\* A step of one task that queues nothing: the locks it takes and gives back
\* are those it holds after and before it.
LEMMA CallStep ==
  ASSUME IInv, UNCHANGED <<request, list>>,
         NEW t \in Tasks,
         \A u \in Tasks : u # t => call'[u] = call[u],
         ~At(t, "page"),
         CallShape(t)',
         \A b \in Blocks :
           \/ (b_lock'[b] <=> b_lock[b]) /\ (Holds(t, b)' <=> Holds(t, b))
           \/ ~b_lock[b] /\ b_lock'[b] /\ Holds(t, b)'
           \/ Holds(t, b) /\ ~Holds(t, b)' /\ ~b_lock'[b]
  PROVE  Shapes' /\ LinkedOnce' /\ LinksBusySlots' /\ LockInv'
<1>1. \A s \in Slots : Taken(s)' <=> Taken(s)
  BY DEF Taken
<1>2. LinkedOnce' /\ LinksBusySlots'
  BY DEF IInv, LinkedOnce, LinksBusySlots, Taken
<1>3. \A u \in Tasks : CallShape(u)'
  BY DEF IInv, Shapes, CallShape
<1>4. ASSUME NEW s \in Slots
      PROVE  RequestShape(s)'
  BY <1>1 DEF IInv, Shapes, RequestShape, At, Taken
<1>5. \A u \in Tasks, b \in Blocks : u # t => (Holds(u, b)' <=> Holds(u, b))
  BY DEF Holds
<1>6. ASSUME NEW b \in Blocks
      PROVE  OneOwner(b)' /\ OwnedIffLocked(b)'
  <2>1. OneOwner(b) /\ OwnedIffLocked(b)
    BY DEF IInv, LockInv
  <2> DEFINE Has(s) == Taken(s) /\ request[s].bh = b
  <2>2. \A s \in Slots : Has(s)' <=> Has(s)
    BY <1>1
  <2>3. /\ \A s, u \in Slots : Has(s) /\ Has(u) => s = u
        /\ \A u, v \in Tasks : Holds(u, b) /\ Holds(v, b) => u = v
        /\ \A u \in Tasks, s \in Slots : ~(Holds(u, b) /\ Has(s))
        /\ b_lock[b] <=> \/ \E s \in Slots : Has(s)
                         \/ \E u \in Tasks : Holds(u, b)
    BY <2>1, Zenon DEF OneOwner, OwnedIffLocked
  <2> SUFFICES /\ \A s, u \in Slots : Has(s)' /\ Has(u)' => s = u
               /\ \A u, v \in Tasks : Holds(u, b)' /\ Holds(v, b)' => u = v
               /\ \A u \in Tasks, s \in Slots : ~(Holds(u, b)' /\ Has(s)')
               /\ b_lock'[b] <=> \/ \E s \in Slots : Has(s)'
                                 \/ \E u \in Tasks : Holds(u, b)'
    BY Zenon DEF OneOwner, OwnedIffLocked
  <2> HIDE DEF Has
  <2>4. CASE (b_lock'[b] <=> b_lock[b]) /\ (Holds(t, b)' <=> Holds(t, b))
    BY <2>2, <2>3, <2>4, <1>5
  <2>5. CASE ~b_lock[b] /\ b_lock'[b] /\ Holds(t, b)'
    BY <2>2, <2>3, <2>5, <1>5
  <2>6. CASE Holds(t, b) /\ ~Holds(t, b)' /\ ~b_lock'[b]
    BY <2>2, <2>3, <2>6, <1>5
  <2> QED
    BY <2>4, <2>5, <2>6
<1> QED
  BY <1>2, <1>3, <1>4, <1>6 DEF Shapes, LockInv

\* Goto() only changes where a task is.
LEMMA GotoMoves ==
  ASSUME TypeOK, NEW t \in Tasks, NEW l \in {"find", "full", "asleep"}, Goto(t, l)
  PROVE  /\ call' \in [Tasks -> Call]
         /\ \A u \in Tasks : u # t => call'[u] = call[u]
         /\ call'[t].at = l /\ call'[t].bh = call[t].bh
         /\ call'[t].pos = call[t].pos /\ call'[t].ahead = call[t].ahead
<1>1. call \in [Tasks -> Call] /\ call[t] \in Call
  BY DEF TypeOK
<1>2. PICK c : c = [call[t] EXCEPT !.at = l]
  OBVIOUS
<1>3. c \in Call /\ c.at = l /\ c.bh = call[t].bh /\ c.pos = call[t].pos /\ c.ahead = call[t].ahead
  BY <1>1, <1>2 DEF Call
<1>4. call' = [call EXCEPT ![t] = c]
  BY <1>2 DEF Goto
<1> QED
  BY <1>1, <1>3, <1>4

\* The Idle call.
LEMMA IdleCall ==
  Idle \in Call /\ Idle.at = "idle" /\ Idle.bh = NULL /\ Idle.ahead = FALSE
BY DEF Idle, Call, READ, WRITE

\* A call for a buffer waits for its lock first.
LEMMA ll_rw_blockOK ==
  ASSUME IInv, NEW t \in Tasks, NEW rw \in {READ, WRITE}, NEW ahead \in BOOLEAN, NEW b \in Blocks,
         ll_rw_block(t, rw, ahead, b)
  PROVE  IInv'
<1>1. PICK c : c = [at |-> "lock", rw |-> rw, ahead |-> ahead, pos |-> b, bh |-> b]
  OBVIOUS
<1>2. c \in Call /\ c.at = "lock" /\ c.bh = b /\ c.pos = b
  BY <1>1 DEF Call
<1>3. call' = [call EXCEPT ![t] = c] /\ UNCHANGED <<request, list, buffers>> /\ At(t, "idle")
  BY <1>1 DEF ll_rw_block
<1>4. call \in [Tasks -> Call]
  BY DEF IInv, TypeOK
<1>5. call' \in [Tasks -> Call] /\ call'[t] = c /\ \A u \in Tasks : u # t => call'[u] = call[u]
  BY <1>2, <1>3, <1>4
<1>6. TypeOK'
  BY <1>3, <1>5 DEF IInv, TypeOK, buffers
<1>7. CallShape(t)'
  BY <1>2, <1>5, PositionAssumption DEF CallShape
<1>8. \A d \in Blocks : (b_lock'[d] <=> b_lock[d]) /\ (Holds(t, d)' <=> Holds(t, d))
  BY <1>2, <1>3, <1>5 DEF Holds, At, buffers
<1> QED
  BY <1>3, <1>5, <1>6, <1>7, <1>8, CallStep DEF IInv, At

\* A call for a page has no buffer.
LEMMA ll_rw_pageOK ==
  ASSUME IInv, NEW t \in Tasks, NEW rw \in {READ, WRITE}, NEW page \in Pages,
         ll_rw_page(t, rw, page)
  PROVE  IInv'
<1>1. PICK c : c = [at |-> "find", rw |-> rw, ahead |-> FALSE, pos |-> page, bh |-> NULL]
  OBVIOUS
<1>2. c \in Call /\ c.at = "find" /\ c.bh = NULL /\ c.pos = page /\ c.ahead = FALSE
  BY <1>1 DEF Call
<1>3. call' = [call EXCEPT ![t] = c] /\ UNCHANGED <<request, list, buffers>> /\ At(t, "idle")
  BY <1>1 DEF ll_rw_page
<1>4. call \in [Tasks -> Call]
  BY DEF IInv, TypeOK
<1>5. call' \in [Tasks -> Call] /\ call'[t] = c /\ \A u \in Tasks : u # t => call'[u] = call[u]
  BY <1>2, <1>3, <1>4
<1>6. TypeOK'
  BY <1>3, <1>5 DEF IInv, TypeOK, buffers
<1>7. NULL \notin Blocks
  BY PositionAssumption
<1>8. CallShape(t)'
  BY <1>2, <1>5, <1>7 DEF CallShape
<1>9. \A d \in Blocks : (b_lock'[d] <=> b_lock[d]) /\ (Holds(t, d)' <=> Holds(t, d))
  BY <1>2, <1>3, <1>5, <1>7 DEF Holds, At, buffers
<1> QED
  BY <1>3, <1>5, <1>6, <1>8, <1>9, CallStep DEF IInv, At

\* The lock is taken when nobody has it.
LEMMA LockBufferOK ==
  ASSUME IInv, NEW t \in Tasks, LockBuffer(t)
  PROVE  IInv'
<1>1. TypeOK /\ CallShape(t) /\ At(t, "lock") /\ UNCHANGED <<request, list, b_dirt, b_uptodate>>
  BY DEF IInv, Shapes, LockBuffer
<1>2. PICK b \in Blocks : b = call[t].bh
  BY <1>1 DEF CallShape, At
<1>3. ~b_lock[b] /\ NULL \notin Blocks
  BY <1>2, PositionAssumption DEF LockBuffer
<1>4. CASE call' = [call EXCEPT ![t] = Idle] /\ UNCHANGED b_lock
  <2>1. call' \in [Tasks -> Call] /\ call'[t] = Idle /\ \A u \in Tasks : u # t => call'[u] = call[u]
    BY <1>1, <1>4, IdleCall DEF TypeOK
  <2>2. TypeOK'
    BY <1>1, <1>4, <2>1 DEF TypeOK
  <2>3. CallShape(t)'
    BY <2>1, IdleCall, <1>3 DEF CallShape
  <2>4. \A d \in Blocks : (b_lock'[d] <=> b_lock[d]) /\ (Holds(t, d)' <=> Holds(t, d))
    BY <1>1, <1>4, <2>1, IdleCall DEF Holds, At
  <2> QED
    BY <1>1, <2>1, <2>2, <2>3, <2>4, CallStep DEF IInv, At
<1>5. CASE Goto(t, "find") /\ b_lock' = [b_lock EXCEPT ![b] = TRUE]
  <2>1. /\ call' \in [Tasks -> Call]
        /\ \A u \in Tasks : u # t => call'[u] = call[u]
        /\ call'[t].at = "find" /\ call'[t].bh = call[t].bh
        /\ call'[t].pos = call[t].pos /\ call'[t].ahead = call[t].ahead
    BY <1>1, <1>5, GotoMoves
  <2>2. TypeOK'
    BY <1>1, <1>5, <2>1 DEF TypeOK
  <2>3. CallShape(t)'
    BY <1>1, <1>2, <1>3, <2>1 DEF CallShape, At
  <2>4. \A d \in Blocks :
           \/ (b_lock'[d] <=> b_lock[d]) /\ (Holds(t, d)' <=> Holds(t, d))
           \/ ~b_lock[d] /\ b_lock'[d] /\ Holds(t, d)'
    BY <1>1, <1>2, <1>3, <1>5, <2>1 DEF Holds, At, TypeOK
  <2> QED
    BY <1>1, <2>1, <2>2, <2>3, <2>4, CallStep DEF IInv, At
<1> QED
  BY <1>2, <1>4, <1>5 DEF LockBuffer

\* A read-ahead that is given up gives the lock back, others keep it.
LEMMA NoSlotOK ==
  ASSUME IInv, NEW t \in Tasks, NoSlot(t)
  PROVE  IInv'
<1>1. TypeOK /\ CallShape(t) /\ At(t, "find") /\ UNCHANGED <<request, list, b_dirt, b_uptodate>>
  BY DEF IInv, Shapes, NoSlot
<1>2. NULL \notin Blocks
  BY PositionAssumption
<1>3. CASE call[t].ahead /\ b_lock' = [b_lock EXCEPT ![call[t].bh] = FALSE]
           /\ call' = [call EXCEPT ![t] = Idle]
  <2>1. call' \in [Tasks -> Call] /\ call'[t] = Idle /\ \A u \in Tasks : u # t => call'[u] = call[u]
    BY <1>1, <1>3, IdleCall DEF TypeOK
  <2>2. PICK b \in Blocks : b = call[t].bh
    BY <1>1, <1>3 DEF CallShape
  <2>3. TypeOK'
    BY <1>1, <1>3, <2>1, <2>2 DEF TypeOK
  <2>4. CallShape(t)'
    BY <2>1, IdleCall, <1>2 DEF CallShape
  <2>5. \A d \in Blocks :
           \/ (b_lock'[d] <=> b_lock[d]) /\ (Holds(t, d)' <=> Holds(t, d))
           \/ Holds(t, d) /\ ~Holds(t, d)' /\ ~b_lock'[d]
    BY <1>1, <1>2, <1>3, <2>1, <2>2, IdleCall DEF Holds, At, TypeOK
  <2> QED
    BY <1>1, <2>1, <2>3, <2>4, <2>5, CallStep DEF IInv, At
<1>4. CASE Goto(t, "full") /\ UNCHANGED b_lock /\ ~call[t].ahead
  <2>1. /\ call' \in [Tasks -> Call]
        /\ \A u \in Tasks : u # t => call'[u] = call[u]
        /\ call'[t].at = "full" /\ call'[t].bh = call[t].bh
        /\ call'[t].pos = call[t].pos /\ call'[t].ahead = call[t].ahead
    BY <1>1, <1>4, GotoMoves
  <2>2. TypeOK'
    BY <1>1, <1>4, <2>1 DEF TypeOK
  <2>3. CallShape(t)'
    BY <1>1, <1>4, <2>1 DEF CallShape, At
  <2>4. \A d \in Blocks : (b_lock'[d] <=> b_lock[d]) /\ (Holds(t, d)' <=> Holds(t, d))
    BY <1>1, <1>4, <2>1 DEF Holds, At
  <2> QED
    BY <1>1, <2>1, <2>2, <2>3, <2>4, CallStep DEF IInv, At
<1> QED
  BY <1>3, <1>4 DEF NoSlot

\* Who sleeps for a slot keeps the lock.
LEMMA SleepOnRequestOK ==
  ASSUME IInv, NEW t \in Tasks, SleepOnRequest(t)
  PROVE  IInv'
<1>1. TypeOK /\ CallShape(t) /\ At(t, "full") /\ Goto(t, "asleep")
      /\ UNCHANGED <<request, list, buffers>>
  BY DEF IInv, Shapes, SleepOnRequest
<1>2. /\ call' \in [Tasks -> Call]
      /\ \A u \in Tasks : u # t => call'[u] = call[u]
      /\ call'[t].at = "asleep" /\ call'[t].bh = call[t].bh
      /\ call'[t].pos = call[t].pos /\ call'[t].ahead = call[t].ahead
  BY <1>1, GotoMoves
<1>3. TypeOK'
  BY <1>1, <1>2 DEF TypeOK, buffers
<1>4. CallShape(t)'
  BY <1>1, <1>2 DEF CallShape, At
<1>5. \A d \in Blocks : (b_lock'[d] <=> b_lock[d]) /\ (Holds(t, d)' <=> Holds(t, d))
  BY <1>1, <1>2 DEF Holds, At, buffers
<1> QED
  BY <1>1, <1>2, <1>3, <1>4, <1>5, CallStep DEF IInv, At

\* The users of the cache lock nothing.
LEMMA UsersOK ==
  ASSUME IInv, NEW b \in Blocks, Modify(b) \/ Invalidate(b)
  PROVE  IInv'
<1>1. UNCHANGED <<request, list, b_lock, call>>
  BY DEF Modify, Invalidate
<1>2. TypeOK'
  <2>1. TypeOK
    BY DEF IInv
  <2>2. CASE Modify(b)
    BY <2>1, <2>2 DEF TypeOK, Modify
  <2>3. CASE Invalidate(b)
    BY <2>1, <2>3 DEF TypeOK, Invalidate
  <2> QED
    BY <2>2, <2>3
<1>3. Shapes' /\ LinkedOnce' /\ LinksBusySlots'
  BY <1>1 DEF IInv, Shapes, CallShape, RequestShape, LinkedOnce, LinksBusySlots, Taken, At
<1>4. LockInv'
  BY <1>1 DEF IInv, LockInv, OneOwner, OwnedIffLocked, Holds, Taken
<1> QED
  BY <1>2, <1>3, <1>4 DEF IInv

-----------------------------------------------------------------------------
(* The steps that change the list.                                         *)

\* add_request() puts the slot at a place k: one that the loop found, or
\* behind all others when there is none.
LEMMA PlaceOfRequest ==
  ASSUME TypeOK, NEW s \in Slots, NEW req \in Request, add_request(s, req)
  PROVE  \E k \in 1 .. Len(list) + 1 :
           /\ list' \in Seq(Slots) /\ Len(list') = Len(list) + 1
           /\ \A i \in 1 .. Len(list) + 1 :
                list'[i] = IF i < k THEN list[i] ELSE IF i = k THEN s ELSE list[i - 1]
           /\ \/ /\ k = Len(list) + 1
                 /\ \A i \in 1 .. Len(list) - 1 :
                      ~ Between(request[list[i]], req, request[list[i + 1]])
              \/ /\ k - 1 \in 1 .. Len(list) - 1
                 /\ Between(request[list[k - 1]], req, request[list[k]])
<1> DEFINE places == {i \in 1 .. Len(list) - 1 :
                        Between(request[list[i]], req, request[list[i + 1]])}
<1>1. list \in Seq(Slots) /\ Len(list) \in Nat
  BY DEF TypeOK
<1> DEFINE Put(k) ==
             /\ list' \in Seq(Slots) /\ Len(list') = Len(list) + 1
             /\ \A i \in 1 .. Len(list) + 1 :
                  list'[i] = IF i < k THEN list[i] ELSE IF i = k THEN s ELSE list[i - 1]
           Found(k) ==
             \/ /\ k = Len(list) + 1
                /\ \A i \in 1 .. Len(list) - 1 :
                     ~ Between(request[list[i]], req, request[list[i + 1]])
             \/ /\ k - 1 \in 1 .. Len(list) - 1
                /\ Between(request[list[k - 1]], req, request[list[k]])
<1> SUFFICES \E k \in 1 .. Len(list) + 1 : Put(k) /\ Found(k)
  BY Zenon
<1>2. list' = IF list = <<>> THEN <<s>>
              ELSE InsertAt(list, 1 + (IF places = {} THEN Len(list) ELSE Min(places)), s)
  BY DEF add_request
<1>3. CASE list = <<>>
  <2>1. list' = <<s>> /\ Len(list) = 0
    BY <1>2, <1>3
  <2>2. list' \in Seq(Slots) /\ Len(list') = 1 /\ list'[1] = s
    BY <2>1
  <2>3. \A i \in 1 .. Len(list) - 1 : FALSE
    BY <2>1
  <2>4. \A i \in 1 .. Len(list) + 1 : i = 1
    BY <2>1
  <2>5. Put(1) /\ Found(1) /\ 1 \in 1 .. Len(list) + 1
    BY <2>1, <2>2, <2>3, <2>4
  <2> QED
    BY <2>5, Zenon
<1>4. CASE list # <<>> /\ places = {}
  <2>1. PICK k \in 1 .. Len(list) + 1 : k = Len(list) + 1 /\ list' = InsertAt(list, k, s)
    BY <1>1, <1>2, <1>4
  <2>2. \A i \in 1 .. Len(list) - 1 : ~ Between(request[list[i]], req, request[list[i + 1]])
    BY <1>4
  <2>3. Put(k)
    <3>1. /\ InsertAt(list, k, s) \in Seq(Slots) /\ Len(InsertAt(list, k, s)) = Len(list) + 1
          /\ \A i \in 1 .. Len(list) + 1 :
               InsertAt(list, k, s)[i] = IF i < k THEN list[i] ELSE IF i = k THEN s ELSE list[i - 1]
      BY <1>1, InsertMoves
    <3> QED
      BY <2>1, <3>1, Zenon
  <2>4. Found(k)
    BY <2>1, <2>2
  <2> QED
    BY <2>3, <2>4, Zenon
<1>5. CASE list # <<>> /\ places # {}
  <2>1. PICK m : m = Min(places)
    OBVIOUS
  <2>2. places \in SUBSET Nat
    BY <1>1
  <2>3. m \in places
    <3> HIDE DEF places
    <3> QED
      BY <2>1, <2>2, <1>5, MinIsLeast
  <2>4. m \in 1 .. Len(list) - 1 /\ Between(request[list[m]], req, request[list[m + 1]])
    BY <2>3
  <2>5. list' = InsertAt(list, 1 + m, s)
    BY <1>2, <1>5, <2>1
  <2> HIDE DEF places
  <2>6. PICK k : k = 1 + m
    OBVIOUS
  <2>7. k \in 1 .. Len(list) + 1 /\ k - 1 = m /\ k = m + 1
    BY <1>1, <2>4, <2>6
  <2>8. list' = InsertAt(list, k, s) /\ k - 1 \in 1 .. Len(list) - 1
        /\ Between(request[list[k - 1]], req, request[list[k]])
    BY <2>4, <2>5, <2>6, <2>7
  <2>9. Put(k)
    <3>1. /\ InsertAt(list, k, s) \in Seq(Slots) /\ Len(InsertAt(list, k, s)) = Len(list) + 1
          /\ \A i \in 1 .. Len(list) + 1 :
               InsertAt(list, k, s)[i] = IF i < k THEN list[i] ELSE IF i = k THEN s ELSE list[i - 1]
      BY <1>1, <2>7, InsertMoves
    <3> QED
      BY <2>8, <3>1, Zenon
  <2>10. Found(k)
    BY <2>8
  <2> QED
    BY <2>7, <2>9, <2>10, Zenon
<1> QED
  BY <1>3, <1>4, <1>5

\* What FindSlot does: a free slot is filled, and put at a place of the list.
LEMMA FindSlotAdds ==
  ASSUME IInv, NEW t \in Tasks, FindSlot(t)
  PROVE  \E s \in Slots, req \in Request :
           /\ ~Taken(s) /\ add_request(s, req) /\ request' = [request EXCEPT ![s] = req]
           /\ req.bh = call[t].bh /\ req.pos = call[t].pos
           /\ req.waiting = IF call[t].bh = NULL THEN t ELSE NULL
<1>1. call[t] \in Call /\ At(t, "find") /\ CallShape(t) /\ NR_REQUEST \in Nat
  BY RequestAssumption DEF IInv, TypeOK, FindSlot, Shapes
<1> DEFINE free == FreeSlots(call[t].rw, call[t].bh)
<1>2. PICK s : s = Max(free)
  OBVIOUS
<1>3. free \in SUBSET (0 .. NR_REQUEST - 1) /\ free # {} /\ \A u \in free : request[u] = NULL
  BY DEF FreeSlots, SlotsFor, Slots, FindSlot
<1>4. s \in free
  <2> HIDE DEF free
  <2> QED
    BY <1>1, <1>2, <1>3, MaxIsLargest
<1>5. s \in Slots /\ ~Taken(s)
  BY <1>3, <1>4 DEF Slots, Taken
<1>6. PICK req : req = [cmd |-> call[t].rw, pos |-> call[t].pos, bh |-> call[t].bh,
                        waiting |-> IF call[t].bh = NULL THEN t ELSE NULL]
  OBVIOUS
<1>7. call[t].pos \in Blocks \cup Pages
  BY <1>1 DEF CallShape, Call, At
<1>8. req \in Request /\ req.bh = call[t].bh /\ req.pos = call[t].pos
      /\ req.waiting = IF call[t].bh = NULL THEN t ELSE NULL
  BY <1>1, <1>6, <1>7 DEF Request, Call
<1>9. add_request(s, req)
  BY <1>2, <1>6 DEF FindSlot
<1>10. request' = [request EXCEPT ![s] = req]
  BY <1>9 DEF add_request
<1> QED
  BY <1>5, <1>8, <1>9, <1>10

\* The lock goes from the task to the request.
LEMMA FindSlotOK ==
  ASSUME IInv, NEW t \in Tasks, FindSlot(t)
  PROVE  IInv'
<1>1. TypeOK /\ CallShape(t) /\ At(t, "find") /\ UNCHANGED <<b_lock, b_uptodate>>
      /\ b_dirt' \in [Blocks -> BOOLEAN] /\ NULL \notin Blocks
  BY PositionAssumption DEF IInv, Shapes, FindSlot, TypeOK
<1>2. PICK s \in Slots, req \in Request :
           /\ ~Taken(s) /\ add_request(s, req) /\ request' = [request EXCEPT ![s] = req]
           /\ req.bh = call[t].bh /\ req.pos = call[t].pos
           /\ req.waiting = IF call[t].bh = NULL THEN t ELSE NULL
  BY FindSlotAdds
<1>3. PICK k \in 1 .. Len(list) + 1 :
           /\ list' \in Seq(Slots) /\ Len(list') = Len(list) + 1
           /\ \A i \in 1 .. Len(list) + 1 :
                list'[i] = IF i < k THEN list[i] ELSE IF i = k THEN s ELSE list[i - 1]
  BY <1>1, <1>2, PlaceOfRequest
<1>4. /\ request' \in [Slots -> Request \cup {NULL}]
      /\ request'[s] = req /\ \A u \in Slots : u # s => request'[u] = request[u]
  BY <1>1, <1>2 DEF TypeOK
<1>5. Taken(s)' /\ \A u \in Slots : u # s => (Taken(u)' <=> Taken(u))
  BY <1>4, FreeAssumption DEF Taken
<1>6. PICK c : c = [call[t] EXCEPT !.at = "page"]
  OBVIOUS
<1>7. c \in Call /\ c.at = "page" /\ c.bh = call[t].bh /\ c.pos = call[t].pos
      /\ c.ahead = call[t].ahead
  BY <1>1, <1>6 DEF TypeOK, Call
<1>8. call' = [call EXCEPT ![t] = IF call[t].bh = NULL THEN c ELSE Idle]
  BY <1>6 DEF FindSlot
<1>9. /\ call' \in [Tasks -> Call] /\ \A u \in Tasks : u # t => call'[u] = call[u]
      /\ call'[t] = IF call[t].bh = NULL THEN c ELSE Idle
  BY <1>1, <1>7, <1>8, IdleCall DEF TypeOK
<1>10. TypeOK'
  BY <1>1, <1>3, <1>4, <1>9 DEF TypeOK
<1>11. \A u \in Tasks : CallShape(u)'
  <2>1. CallShape(t)'
    BY <1>1, <1>7, <1>9, IdleCall DEF CallShape, At
  <2> QED
    BY <2>1, <1>9 DEF IInv, Shapes, CallShape
<1>12. \A u \in Slots : u # s /\ Taken(u) => request[u].waiting # t
  BY <1>1 DEF IInv, Shapes, RequestShape, At
<1>13. ASSUME NEW u \in Slots
       PROVE  RequestShape(u)'
  <2>1. CASE u = s
    <3>1. req.waiting \in Tasks => req.waiting = t /\ call[t].bh = NULL
      BY <1>2, FreeAssumption
    <3>2. req.waiting \in Tasks => call'[t].at = "page"
      BY <3>1, <1>7, <1>9
    <3>3. req.bh \in Blocks => req.pos = req.bh
      BY <1>1, <1>2 DEF CallShape
    <3>4. req.bh = NULL => req.pos \in Pages
      BY <1>1, <1>2 DEF CallShape, At
    <3> QED
      BY <2>1, <3>1, <3>2, <3>3, <3>4, <1>4, <1>5, <1>12 DEF RequestShape, At
  <2>2. CASE u # s
    <3>1. RequestShape(u) /\ request'[u] = request[u] /\ (Taken(u)' <=> Taken(u))
      BY <2>2, <1>4, <1>5 DEF IInv, Shapes
    <3>2. Taken(u) /\ request[u].waiting \in Tasks =>
             request[u].waiting # t /\ request[u].waiting # req.waiting
      BY <2>2, <1>2, <1>12, FreeAssumption
    <3> QED
      BY <2>2, <3>1, <3>2, <1>4, <1>5, <1>9 DEF RequestShape, At
  <2> QED
    BY <2>1, <2>2
<1>14. list \in Seq(Slots) /\ Len(list) \in Nat /\ \A i \in 1 .. Len(list) : list[i] # s
  BY <1>1, <1>2 DEF TypeOK, IInv, LinksBusySlots
<1>15. LinkedOnce'
  <2>1. LinkedOnce
    BY DEF IInv
  <2> SUFFICES ASSUME NEW i \in 1 .. Len(list) + 1, NEW j \in 1 .. Len(list) + 1,
                      list'[i] = list'[j]
               PROVE  i = j
    BY <1>3 DEF LinkedOnce
  <2>2. k \in Nat /\ i \in Nat /\ j \in Nat
    BY <1>14
  <2>0. list'[k] = s /\ \A m \in 1 .. Len(list) + 1 : m # k => list'[m] # s
    <3> SUFFICES ASSUME NEW m \in 1 .. Len(list) + 1, m # k
                 PROVE  list'[m] # s
      BY <1>3
    <3>1. CASE m < k
      BY <3>1, <2>2, <1>3, <1>14
    <3>2. CASE m > k
      <4>1. m - 1 \in 1 .. Len(list) /\ ~(m < k)
        BY <3>2, <2>2, <1>14
      <4>2. list'[m] = list[m - 1]
        BY <3>2, <4>1, <1>3
      <4> QED
        BY <4>1, <4>2, <1>14
    <3> QED
      BY <3>1, <3>2, <2>2, <1>14
  <2>3. CASE i = k
    BY <2>0, <2>3
  <2>4. CASE j = k
    BY <2>0, <2>4
  <2>5. CASE i # k /\ j # k
    <3>1. PICK a \in 1 .. Len(list) : list'[i] = list[a] /\ a = IF i < k THEN i ELSE i - 1
      <4>1. CASE i < k
        BY <4>1, <2>2, <1>3, <1>14
      <4>2. CASE i > k
        BY <4>2, <2>2, <1>3, <1>14
      <4> QED
        BY <4>1, <4>2, <2>2, <2>5
    <3>2. PICK b \in 1 .. Len(list) : list'[j] = list[b] /\ b = IF j < k THEN j ELSE j - 1
      <4>1. CASE j < k
        BY <4>1, <2>2, <1>3, <1>14
      <4>2. CASE j > k
        BY <4>2, <2>2, <1>3, <1>14
      <4> QED
        BY <4>1, <4>2, <2>2, <2>5
    <3>3. a = b
      BY <2>1, <3>1, <3>2 DEF LinkedOnce
    <3>4. a \in Nat /\ a = (IF i < k THEN i ELSE i - 1) /\ a = (IF j < k THEN j ELSE j - 1)
      BY <3>1, <3>2, <3>3, <1>14
    <3> QED
      BY <2>2, <2>5, <3>4
  <2>6. i = k \/ j = k \/ (i # k /\ j # k)
    OBVIOUS
  <2> QED
    BY <2>3, <2>4, <2>5, <2>6
<1>16. LinksBusySlots'
  <2>1. ASSUME NEW u \in Slots
        PROVE  (\E i \in 1 .. Len(list) + 1 : list'[i] = u)
                 <=> u = s \/ \E i \in 1 .. Len(list) : list[i] = u
    <3>1. list'[k] = s /\ k \in 1 .. Len(list) + 1
      BY <1>3, <1>14
    <3>2. ASSUME NEW i \in 1 .. Len(list), list[i] = u
          PROVE  \E j \in 1 .. Len(list) + 1 : list'[j] = u
      <4>1. CASE i < k
        BY <4>1, <3>2, <1>3, <1>14
      <4>2. CASE i >= k
        <5>1. i + 1 \in 1 .. Len(list) + 1 /\ ~(i + 1 < k) /\ i + 1 # k /\ (i + 1) - 1 = i
          BY <4>2, <1>14
        <5>2. list'[i + 1] = list[i]
          BY <5>1, <1>3
        <5> QED
          BY <5>1, <5>2, <3>2
      <4> QED
        BY <4>1, <4>2, <1>14
    <3>3. ASSUME NEW i \in 1 .. Len(list) + 1, list'[i] = u, u # s
          PROVE  \E j \in 1 .. Len(list) : list[j] = u
      <4>1. CASE i < k
        BY <4>1, <3>3, <1>3, <1>14
      <4>2. CASE i > k
        BY <4>2, <3>3, <1>3, <1>14
      <4> QED
        BY <4>1, <4>2, <3>1, <3>3, <1>14
    <3> QED
      BY <3>1, <3>2, <3>3
  <2> QED
    BY <2>1, <1>3, <1>5 DEF IInv, LinksBusySlots
<1>17. ASSUME NEW b \in Blocks
       PROVE  OneOwner(b)' /\ OwnedIffLocked(b)'
  <2>1. OneOwner(b) /\ OwnedIffLocked(b)
    BY DEF IInv, LockInv
  <2> DEFINE Has(u) == Taken(u) /\ request[u].bh = b
  <2>2. (\A u \in Slots : u # s => (Has(u)' <=> Has(u))) /\ (Has(s)' <=> b = call[t].bh) /\ ~Has(s)
    BY <1>2, <1>4, <1>5
  <2>3. (\A u \in Tasks : u # t => (Holds(u, b)' <=> Holds(u, b)))
        /\ (Holds(t, b) <=> b = call[t].bh) /\ ~Holds(t, b)'
    BY <1>1, <1>7, <1>9, IdleCall DEF Holds, At
  <2>4. /\ \A r, u \in Slots : Has(r) /\ Has(u) => r = u
        /\ \A u, v \in Tasks : Holds(u, b) /\ Holds(v, b) => u = v
        /\ \A u \in Tasks, r \in Slots : ~(Holds(u, b) /\ Has(r))
        /\ b_lock[b] <=> \/ \E r \in Slots : Has(r)
                         \/ \E u \in Tasks : Holds(u, b)
    BY <2>1, Zenon DEF OneOwner, OwnedIffLocked
  <2> SUFFICES /\ \A r, u \in Slots : Has(r)' /\ Has(u)' => r = u
               /\ \A u, v \in Tasks : Holds(u, b)' /\ Holds(v, b)' => u = v
               /\ \A u \in Tasks, r \in Slots : ~(Holds(u, b)' /\ Has(r)')
               /\ b_lock'[b] <=> \/ \E r \in Slots : Has(r)'
                                 \/ \E u \in Tasks : Holds(u, b)'
    BY Zenon DEF OneOwner, OwnedIffLocked
  <2> HIDE DEF Has
  <2> QED
    BY <2>2, <2>3, <2>4, <1>1
<1> QED
  BY <1>10, <1>11, <1>13, <1>15, <1>16, <1>17 DEF IInv, Shapes, LockInv

\* The lock is given back with the request, and the task of a page goes on.
LEMMA end_requestOK ==
  ASSUME IInv, NEW ok \in BOOLEAN, end_request(ok)
  PROVE  IInv'
<1>1. list \in Seq(Slots) /\ list # <<>> /\ request \in [Slots -> Request \cup {NULL}]
      /\ call \in [Tasks -> Call] /\ b_lock \in [Blocks -> BOOLEAN]
      /\ NULL \notin Blocks
  BY PositionAssumption DEF IInv, TypeOK, end_request
<1>2. /\ list' = Tail(list) /\ list' \in Seq(Slots) /\ Len(list') = Len(list) - 1
      /\ \A i \in 1 .. Len(list) - 1 : list'[i] = list[i + 1]
      /\ Head(list) = list[1] /\ Len(list) \in Nat /\ Len(list) >= 1
  BY <1>1, TailMoves DEF end_request
<1>3. PICK h \in Slots : h = Head(list) /\ h = list[1]
  BY <1>1, <1>2
<1>4. PICK r : r = request[h]
  OBVIOUS
<1>5. Taken(h) /\ r \in Request
  BY <1>1, <1>2, <1>3, <1>4 DEF IInv, LinksBusySlots, Taken
<1>6. /\ request' \in [Slots -> Request \cup {NULL}]
      /\ ~Taken(h)' /\ \A u \in Slots : u # h => request'[u] = request[u] /\ (Taken(u)' <=> Taken(u))
  <2>1. request' = [request EXCEPT ![h] = NULL]
    BY <1>3 DEF end_request
  <2> QED
    BY <2>1, <1>1 DEF Taken
<1>7. \A b \in Blocks : b_lock'[b] <=> b_lock[b] /\ b # r.bh
  <2>1. b_lock' = [b \in Blocks |-> b_lock[b] /\ b # r.bh]
    BY <1>3, <1>4 DEF end_request
  <2> QED
    BY <2>1
<1>8. ASSUME NEW u \in Tasks
      PROVE  /\ call'[u] \in Call
             /\ u = r.waiting => call'[u] = Idle
             /\ u # r.waiting => call'[u].at = IF At(u, "asleep") THEN "find" ELSE call[u].at
             /\ u # r.waiting => call'[u].bh = call[u].bh /\ call'[u].pos = call[u].pos
                                 /\ call'[u].ahead = call[u].ahead
  <2>1. call[u] \in Call
    BY <1>1
  <2>2. PICK c : c = [call[u] EXCEPT !.at = "find"]
    OBVIOUS
  <2>3. c \in Call /\ c.at = "find" /\ c.bh = call[u].bh /\ c.pos = call[u].pos
        /\ c.ahead = call[u].ahead
    BY <2>1, <2>2 DEF Call
  <2>4. call'[u] = IF u = r.waiting THEN Idle ELSE IF At(u, "asleep") THEN c ELSE call[u]
    BY <1>3, <1>4, <2>2 DEF end_request
  <2> QED
    BY <2>1, <2>3, <2>4, IdleCall
<1>9. TypeOK'
  <2>1. call' \in [Tasks -> Call]
    <3>1. call' = [u \in Tasks |-> IF u = r.waiting THEN Idle
                                   ELSE IF At(u, "asleep") THEN [call[u] EXCEPT !.at = "find"]
                                   ELSE call[u]]
      BY <1>3, <1>4, Zenon DEF end_request
    <3>2. call' = [u \in Tasks |-> call'[u]]
      BY <3>1
    <3> QED
      BY <3>2, <1>8
  <2>2. b_lock' \in [Blocks -> BOOLEAN] /\ b_uptodate' \in [Blocks -> BOOLEAN]
        /\ b_dirt' \in [Blocks -> BOOLEAN]
    BY DEF end_request, IInv, TypeOK
  <2> QED
    BY <2>1, <2>2, <1>2, <1>6 DEF TypeOK
<1>10. \A u \in Tasks : u = r.waiting => At(u, "page")
  BY <1>4, <1>5 DEF IInv, Shapes, RequestShape
<1>11. ASSUME NEW u \in Tasks
       PROVE  CallShape(u)'
  <2>1. CallShape(u)
    BY DEF IInv, Shapes
  <2>2. CASE u = r.waiting
    BY <2>2, <1>1, <1>8, IdleCall DEF CallShape
  <2>3. CASE u # r.waiting
    BY <2>1, <2>3, <1>8 DEF CallShape, At
  <2> QED
    BY <2>2, <2>3
<1>12. ASSUME NEW u \in Slots
       PROVE  RequestShape(u)'
  <2> SUFFICES ASSUME u # h, Taken(u)
               PROVE  RequestShape(u)'
    BY <1>6 DEF RequestShape
  <2>1. RequestShape(u) /\ RequestShape(h) /\ request'[u] = request[u] /\ Taken(u)'
    BY <1>6 DEF IInv, Shapes
  <2>2. ASSUME request[u].waiting \in Tasks
        PROVE  request[u].waiting # r.waiting /\ At(request[u].waiting, "page")
    BY <2>1, <2>2, <1>4, <1>5 DEF RequestShape
  <2>3. ASSUME request[u].waiting \in Tasks
        PROVE  At(request[u].waiting, "page")'
    BY <2>1, <2>2, <2>3, <1>8 DEF At
  <2> QED
    BY <2>1, <2>3, <1>6 DEF RequestShape
<1>13. LinkedOnce'
  <2> SUFFICES ASSUME NEW i \in 1 .. Len(list) - 1, NEW j \in 1 .. Len(list) - 1,
                      list'[i] = list'[j]
               PROVE  i = j
    BY <1>2 DEF LinkedOnce
  <2>1. i + 1 \in 1 .. Len(list) /\ j + 1 \in 1 .. Len(list) /\ list[i + 1] = list[j + 1]
    BY <1>2
  <2>2. i + 1 = j + 1
    BY <2>1 DEF IInv, LinkedOnce
  <2> QED
    BY <2>2
<1>14. LinksBusySlots'
  <2> SUFFICES ASSUME NEW u \in Slots
               PROVE  Taken(u)' <=> \E i \in 1 .. Len(list) - 1 : list'[i] = u
    BY <1>2 DEF LinksBusySlots
  <2>1. Taken(u)' <=> u # h /\ \E i \in 1 .. Len(list) : list[i] = u
    BY <1>6 DEF IInv, LinksBusySlots
  <2>2. ASSUME NEW i \in 1 .. Len(list), list[i] = u, u # h
        PROVE  \E j \in 1 .. Len(list) - 1 : list'[j] = u
    <3>1. i - 1 \in 1 .. Len(list) - 1 /\ (i - 1) + 1 = i
      BY <2>2, <1>2, <1>3
    <3> QED
      BY <3>1, <2>2, <1>2
  <2>3. ASSUME NEW i \in 1 .. Len(list) - 1, list'[i] = u
        PROVE  u # h /\ \E j \in 1 .. Len(list) : list[j] = u
    <3>1. i + 1 \in 1 .. Len(list) /\ list[i + 1] = u /\ 1 \in 1 .. Len(list) /\ i + 1 # 1
      BY <2>3, <1>2
    <3> QED
      BY <3>1, <1>3 DEF IInv, LinkedOnce
  <2> QED
    BY <2>1, <2>2, <2>3
<1>15. ASSUME NEW b \in Blocks
       PROVE  OneOwner(b)' /\ OwnedIffLocked(b)'
  <2>1. OneOwner(b) /\ OwnedIffLocked(b)
    BY DEF IInv, LockInv
  <2> DEFINE Has(u) == Taken(u) /\ request[u].bh = b
  <2>2. (\A u \in Slots : u # h => (Has(u)' <=> Has(u))) /\ ~Has(h)' /\ (Has(h) <=> b = r.bh)
    BY <1>4, <1>5, <1>6
  <2>3. \A u \in Tasks : Holds(u, b)' <=> Holds(u, b)
    <3> SUFFICES ASSUME NEW u \in Tasks
                 PROVE  Holds(u, b)' <=> Holds(u, b)
      OBVIOUS
    <3>1. CASE u = r.waiting
      BY <3>1, <1>1, <1>8, <1>10, IdleCall DEF Holds, At
    <3>2. CASE u # r.waiting
      BY <3>2, <1>8 DEF Holds, At
    <3> QED
      BY <3>1, <3>2
  <2>4. /\ \A v, u \in Slots : Has(v) /\ Has(u) => v = u
        /\ \A u, v \in Tasks : Holds(u, b) /\ Holds(v, b) => u = v
        /\ \A u \in Tasks, v \in Slots : ~(Holds(u, b) /\ Has(v))
        /\ b_lock[b] <=> \/ \E v \in Slots : Has(v)
                         \/ \E u \in Tasks : Holds(u, b)
    BY <2>1, Zenon DEF OneOwner, OwnedIffLocked
  <2> SUFFICES /\ \A v, u \in Slots : Has(v)' /\ Has(u)' => v = u
               /\ \A u, v \in Tasks : Holds(u, b)' /\ Holds(v, b)' => u = v
               /\ \A u \in Tasks, v \in Slots : ~(Holds(u, b)' /\ Has(v)')
               /\ b_lock'[b] <=> \/ \E v \in Slots : Has(v)'
                                 \/ \E u \in Tasks : Holds(u, b)'
    BY Zenon DEF OneOwner, OwnedIffLocked
  <2> HIDE DEF Has
  <2> QED
    BY <2>2, <2>3, <2>4, <1>7
<1> QED
  BY <1>9, <1>11, <1>12, <1>13, <1>14, <1>15 DEF IInv, Shapes, LockInv

\* Every step of the queue preserves it.
LEMMA NextKeepsIInv ==
  ASSUME IInv, [Next]_vars
  PROVE  IInv'
<1>1. CASE UNCHANGED vars
  BY <1>1 DEF vars, buffers, IInv, TypeOK, Shapes, CallShape, RequestShape, LinkedOnce,
              LinksBusySlots, LockInv, OneOwner, OwnedIffLocked, Holds, Taken, At
<1>2. ASSUME NEW t \in Tasks, NEW b \in Blocks, NEW rw \in {READ, WRITE}, NEW ahead \in BOOLEAN,
             ll_rw_block(t, rw, ahead, b)
      PROVE  IInv'
  BY <1>2, ll_rw_blockOK
<1>3. ASSUME NEW t \in Tasks, NEW page \in Pages, NEW rw \in {READ, WRITE},
             ll_rw_page(t, rw, page)
      PROVE  IInv'
  BY <1>3, ll_rw_pageOK
<1>4. ASSUME NEW t \in Tasks, Kernel(t)
      PROVE  IInv'
  BY <1>4, LockBufferOK, FindSlotOK, NoSlotOK, SleepOnRequestOK DEF Kernel
<1>5. ASSUME NEW ok \in BOOLEAN, end_request(ok)
      PROVE  IInv'
  BY <1>5, end_requestOK
<1>6. ASSUME NEW b \in Blocks, Modify(b) \/ Invalidate(b)
      PROVE  IInv'
  BY <1>6, UsersOK
<1> QED
  BY <1>1, <1>2, <1>3, <1>4, <1>5, <1>6 DEF Next

\* So the invariant holds.
THEOREM Inductive == Spec => []IInv
<1>1. IInv /\ [Next]_vars => IInv'
  BY NextKeepsIInv
<1> QED
  BY <1>1, InitOK, PTL DEF Spec
-----------------------------------------------------------------------------
\* Every variable keeps its type, a call and a request are about a buffer or
\* about a page, and a task waits for one page at a time.
THEOREM TypeCorrect == Spec => [](TypeOK /\ Shapes)
<1>1. IInv => TypeOK /\ Shapes
  BY DEF IInv
<1> QED
  BY <1>1, Inductive, PTL

\* The list of requests is never destroyed: add_request() and end_request()
\* keep it linking every busy slot once, whatever the order of the elevator,
\* and no two requests are for the same buffer, which is locked.
THEOREM ListStaysIntact == Spec => []ListIntact
<1>1. ASSUME IInv
      PROVE  ListIntact
  <2>1. list \in Seq(Slots) /\ Len(list) \in Nat /\ DOMAIN list = 1 .. Len(list)
    BY <1>1 DEF IInv, TypeOK
  <2>2. \A s \in Slots : s \in Queued <=> Taken(s)
    BY <1>1, <2>1 DEF Queued, IInv, LinksBusySlots
  <2>3. Queued \subseteq Slots
    BY <2>1 DEF Queued
  <2>4. Len(list) = Cardinality(Queued)
    <3>1. list \in Bijection(1 .. Len(list), Queued)
      BY <1>1, <2>1 DEF IInv, LinkedOnce, Queued, Bijection, Injection, Surjection, IsInjective
    <3>2. IsFiniteSet(1 .. Len(list)) /\ Cardinality(1 .. Len(list)) = Len(list)
      BY <2>1, FS_Interval
    <3> QED
      BY <3>1, <3>2, FS_Bijection DEF ExistsBijection
  <2>5. ASSUME NEW s \in Queued, request[s].bh # NULL
        PROVE  /\ b_lock[request[s].bh]
               /\ \A u \in Queued : request[u].bh = request[s].bh => u = s
    <3>1. s \in Slots /\ Taken(s) /\ request[s] \in Request
      BY <1>1, <2>2, <2>3 DEF IInv, TypeOK, Taken
    <3>2. PICK b \in Blocks : b = request[s].bh
      BY <3>1, <2>5 DEF Request
    <3>3. OneOwner(b) /\ OwnedIffLocked(b)
      BY <1>1 DEF IInv, LockInv
    <3> QED
      BY <3>1, <3>2, <3>3, <2>2, <2>3 DEF OneOwner, OwnedIffLocked
  <2> QED
    BY <2>2, <2>3, <2>4, <2>5 DEF ListIntact, Taken
<1> QED
  BY <1>1, Inductive, PTL

\* A buffer is locked exactly while it has a request, or a task that holds its
\* lock on the way to queue one: no lock is left behind by make_request(), and
\* lock_buffer() waits for nothing that is not going to happen.
THEOREM NoLockIsLeft == Spec => []LocksHaveOwners
<1>1. ASSUME IInv
      PROVE  LocksHaveOwners
  <2>1. list \in Seq(Slots) /\ DOMAIN list = 1 .. Len(list)
    BY <1>1 DEF IInv, TypeOK
  <2>2. \A s \in Slots : s \in Queued <=> Taken(s)
    BY <1>1, <2>1 DEF Queued, IInv, LinksBusySlots
  <2>3. Queued \subseteq Slots
    BY <2>1 DEF Queued
  <2> QED
    BY <1>1, <2>2, <2>3 DEF IInv, LockInv, OwnedIffLocked, LocksHaveOwners, Holds
<1> QED
  BY <1>1, Inductive, PTL

-----------------------------------------------------------------------------
(* The sweeps of the elevator, while no pages are swapped.                 *)

\* IN_ORDER is a strict order, and total where positions differ.
LEMMA OrderOfRequests ==
  ASSUME NEW r \in Request, NEW s \in Request, NEW u \in Request
  PROVE  /\ IN_ORDER(r, s) /\ IN_ORDER(s, u) => IN_ORDER(r, u)
         /\ r.pos # s.pos => IN_ORDER(r, s) \/ IN_ORDER(s, r)
<1>1. \A x \in Request : x.cmd \in Nat /\ x.pos \in Nat
  <2> SUFFICES ASSUME NEW x \in Request
               PROVE  x.cmd \in Nat /\ x.pos \in Nat
    OBVIOUS
  <2>1. x.cmd \in {READ, WRITE} /\ x.pos \in Blocks \cup Pages
    BY DEF Request
  <2>2. x.cmd \in Nat
    BY <2>1 DEF READ, WRITE
  <2>3. x.pos \in Nat
    BY <2>1, PositionAssumption
  <2> QED
    BY <2>2, <2>3
<1> QED
  BY <1>1 DEF IN_ORDER

\* If the loop of add_request() finds no place, and the list falls somewhere,
\* then the new request belongs behind the last one: it does not fit right
\* behind the fall, so it is beyond the request there; and were it before the
\* last one, it would fit before the first request that it is before.
LEMMA NoPlaceMeansLast ==
  ASSUME NEW n \in Nat, NEW a \in [1 .. n -> Request], NEW req \in Request,
         req.bh # NULL, \A i \in 1 .. n : a[i].pos # req.pos,
         \A i \in 1 .. n - 1 : ~ Between(a[i], req, a[i + 1]),
         NEW f \in 1 .. n - 1, ~Rises(a, f)
  PROVE  IN_ORDER(a[n], req)
<1>1. \A i \in 1 .. n - 1 :
        ~((IN_ORDER(a[i], req) \/ ~IN_ORDER(a[i], a[i + 1])) /\ IN_ORDER(req, a[i + 1]))
  BY DEF Between
<1>2. ~IN_ORDER(req, a[f + 1])
  BY <1>1 DEF Rises
<1> DEFINE T == {j \in 1 .. n : j > f /\ IN_ORDER(req, a[j])}
<1>3. CASE T = {}
  <2>1. n \in 1 .. n /\ n > f /\ a[n] \in Request
    OBVIOUS
  <2>2. ~IN_ORDER(req, a[n])
    BY <1>3, <2>1
  <2> QED
    BY <2>1, <2>2, OrderOfRequests
<1>4. CASE T # {}
  <2>1. T \in SUBSET Nat
    OBVIOUS
  <2>2. PICK j \in T : \A y \in T : j <= y
    <3> HIDE DEF T
    <3> QED
      BY <1>4, <2>1, LeastNat
  <2>3. j \in 1 .. n /\ j > f /\ j # f + 1 /\ IN_ORDER(req, a[j])
    BY <1>2, <2>2
  <2>4. PICK i \in 1 .. n - 1 : i = j - 1 /\ i + 1 = j /\ i > f
    BY <2>3
  <2>5. ~IN_ORDER(req, a[i])
    BY <2>2, <2>3, <2>4
  <2>6. i \in 1 .. n /\ a[i] \in Request
    BY <2>4
  <2>7. IN_ORDER(a[i], req)
    BY <2>5, <2>6, OrderOfRequests
  <2> QED
    BY <1>1, <2>3, <2>4, <2>7
<1> QED
  BY <1>3, <1>4

\* So add_request() makes no second fall.
LEMMA InsertKeepsSweeps ==
  ASSUME NEW n \in Nat, NEW a \in [1 .. n -> Request], FallsOnce(a, n),
         NEW req \in Request, req.bh # NULL, \A i \in 1 .. n : a[i].pos # req.pos,
         NEW k \in 1 .. n + 1,
         \/ k = n + 1 /\ \A i \in 1 .. n - 1 : ~ Between(a[i], req, a[i + 1])
         \/ k - 1 \in 1 .. n - 1 /\ Between(a[k - 1], req, a[k]),
         NEW d \in [1 .. n + 1 -> Request],
         \A i \in 1 .. n + 1 : d[i] = IF i < k THEN a[i] ELSE IF i = k THEN req ELSE a[i - 1]
  PROVE  FallsOnce(d, n + 1)
<1>1. CASE k = n + 1 /\ \A i \in 1 .. n - 1 : ~ Between(a[i], req, a[i + 1])
  <2>1. \A i \in 1 .. n - 1 : Rises(d, i) <=> Rises(a, i)
    <3> SUFFICES ASSUME NEW i \in 1 .. n - 1
                 PROVE  Rises(d, i) <=> Rises(a, i)
      OBVIOUS
    <3>1. i \in 1 .. n + 1 /\ i + 1 \in 1 .. n + 1 /\ i < k /\ i + 1 < k
      BY <1>1
    <3>2. d[i] = a[i] /\ d[i + 1] = a[i + 1]
      BY <3>1
    <3> QED
      BY <3>2 DEF Rises
  <2>2. ASSUME NEW i \in 1 .. n - 1, ~Rises(a, i)
        PROVE  Rises(d, n)
    <3>1. IN_ORDER(a[n], req)
      BY <1>1, <2>2, NoPlaceMeansLast
    <3>2. n \in 1 .. n + 1 /\ n + 1 \in 1 .. n + 1 /\ d[n] = a[n] /\ d[n + 1] = req
      BY <1>1, <2>2
    <3> QED
      BY <3>1, <3>2 DEF Rises
  <2>3. \A i \in 1 .. (n + 1) - 1 : i \in 1 .. n - 1 \/ i = n
    OBVIOUS
  <2> QED
    BY <2>1, <2>2, <2>3 DEF FallsOnce
<1>2. CASE k - 1 \in 1 .. n - 1 /\ Between(a[k - 1], req, a[k])
  <2>1. (IN_ORDER(a[k - 1], req) \/ ~IN_ORDER(a[k - 1], a[k])) /\ IN_ORDER(req, a[k])
    BY <1>2 DEF Between
  <2>2. \A i \in 1 .. n + 1 : i \in Int /\ k \in Int /\ n \in Int
    OBVIOUS
  <2>3. ASSUME NEW i \in 1 .. (n + 1) - 1, ~Rises(d, i)
        PROVE  i # k /\ \E j \in 1 .. n - 1 : ~Rises(a, j) /\ j = IF i < k THEN i ELSE i - 1
    <3>1. i \in 1 .. n + 1 /\ i + 1 \in 1 .. n + 1 /\ k \in 1 .. n + 1 /\ k - 1 \in 1 .. n + 1
      BY <1>2
    <3>2. CASE i = k - 1
      <4>1. d[i] = a[k - 1] /\ d[i + 1] = req /\ (k - 1) + 1 = k
        BY <3>1, <3>2
      <4>2. ~Rises(a, i)
        BY <2>1, <2>3, <3>2, <4>1 DEF Rises
      <4> QED
        BY <4>2, <3>2, <1>2
    <3>3. CASE i < k - 1
      <4>1. d[i] = a[i] /\ d[i + 1] = a[i + 1] /\ i \in 1 .. n - 1
        BY <3>1, <3>3
      <4> QED
        BY <4>1, <3>3, <2>3 DEF Rises
    <3>4. CASE i = k
      <4>1. d[i] = req /\ d[i + 1] = a[k]
        BY <3>1, <3>4
      <4> QED
        BY <4>1, <2>1, <2>3 DEF Rises
    <3>5. CASE i > k
      <4>1. d[i] = a[i - 1] /\ d[i + 1] = a[i]
        BY <3>1, <3>5
      <4>2. PICK j \in 1 .. n - 1 : j = i - 1 /\ j + 1 = i
        BY <3>1, <3>5
      <4>3. ~Rises(a, j)
        BY <4>1, <4>2, <2>3 DEF Rises
      <4> QED
        BY <4>2, <4>3, <3>5
    <3> QED
      BY <3>1, <3>2, <3>3, <3>4, <3>5
  <2> SUFFICES ASSUME NEW i \in 1 .. (n + 1) - 1, NEW j \in 1 .. (n + 1) - 1,
                      ~Rises(d, i), ~Rises(d, j)
               PROVE  i = j
    BY DEF FallsOnce
  <2>4. PICK x \in 1 .. n - 1 : ~Rises(a, x) /\ x = IF i < k THEN i ELSE i - 1
    BY <2>3
  <2>5. PICK y \in 1 .. n - 1 : ~Rises(a, y) /\ y = IF j < k THEN j ELSE j - 1
    BY <2>3
  <2>6. i # k /\ j # k
    BY <2>3
  <2>7. x = y
    BY <2>4, <2>5 DEF FallsOnce
  <2>8. x = (IF i < k THEN i ELSE i - 1) /\ x = (IF j < k THEN j ELSE j - 1)
    BY <2>4, <2>5, <2>7
  <2> QED
    BY <2>6, <2>8
<1> QED
  BY <1>1, <1>2

\* Taking the head off makes none either.
LEMMA TailKeepsSweeps ==
  ASSUME NEW n \in Nat, NEW a, FallsOnce(a, n), NEW d,
         \A i \in 1 .. n - 1 : d[i] = a[i + 1]
  PROVE  FallsOnce(d, n - 1)
<1> SUFFICES ASSUME NEW i \in 1 .. (n - 1) - 1, NEW j \in 1 .. (n - 1) - 1,
                    ~Rises(d, i), ~Rises(d, j)
             PROVE  i = j
  BY DEF FallsOnce
<1>1. PICK x \in 1 .. n - 1 : x = i + 1
  OBVIOUS
<1>2. PICK y \in 1 .. n - 1 : y = j + 1
  OBVIOUS
<1>3. i \in 1 .. n - 1 /\ x \in 1 .. n - 1 /\ j \in 1 .. n - 1 /\ y \in 1 .. n - 1
  OBVIOUS
<1>4. d[i] = a[x] /\ d[i + 1] = a[x + 1] /\ d[j] = a[y] /\ d[j + 1] = a[y + 1]
  BY <1>1, <1>2, <1>3
<1>5. ~Rises(a, x) /\ ~Rises(a, y)
  BY <1>4 DEF Rises
<1>6. x = y
  BY <1>5 DEF FallsOnce
<1> QED
  BY <1>1, <1>2, <1>6

\* Without pages every call is about a buffer, and the positions of queued
\* requests are those of their buffers, which differ.
LEMMA PositionsDiffer ==
  ASSUME IInv, Pages = {}, NEW t \in Tasks, FindSlot(t)
  PROVE  /\ call[t].bh \in Blocks
         /\ \A i \in 1 .. Len(list) :
              request[list[i]] \in Request /\ request[list[i]].pos # call[t].pos
<1>1. At(t, "find") /\ CallShape(t) /\ call[t] \in Call /\ NULL \notin Blocks
  BY PositionAssumption DEF IInv, TypeOK, Shapes, FindSlot
<1>2. PICK b \in Blocks : call[t].bh = b /\ call[t].pos = b
  BY <1>1 DEF CallShape, At, Call
<1>3. Holds(t, b)
  BY <1>1, <1>2 DEF Holds, At
<1> SUFFICES ASSUME NEW i \in 1 .. Len(list)
             PROVE  request[list[i]] \in Request /\ request[list[i]].pos # b
  BY <1>2
<1>4. PICK s \in Slots : s = list[i]
  BY DEF IInv, TypeOK
<1>5. Taken(s)
  BY <1>4 DEF IInv, LinksBusySlots
<1>6. request[s] \in Request
  BY <1>5 DEF IInv, TypeOK, Taken
<1>7. request[s].bh \in Blocks /\ request[s].pos = request[s].bh
  BY <1>5, <1>6 DEF IInv, Shapes, RequestShape, Request
<1>8. request[s].bh # b
  BY <1>3, <1>5 DEF IInv, LockInv, OneOwner
<1> QED
  BY <1>4, <1>6, <1>7, <1>8

\* add_request() keeps the sweeps.
LEMMA FindSlotSweeps ==
  ASSUME IInv, Swept, Pages = {}, NEW t \in Tasks, FindSlot(t)
  PROVE  Swept'
<1>0. NULL \notin Blocks
  BY PositionAssumption
<1>1. TypeOK /\ Len(list) \in Nat /\ list \in Seq(Slots)
      /\ request \in [Slots -> Request \cup {NULL}]
  BY DEF IInv, TypeOK
<1>2. PICK s \in Slots, req \in Request :
           /\ ~Taken(s) /\ add_request(s, req) /\ request' = [request EXCEPT ![s] = req]
           /\ req.bh = call[t].bh /\ req.pos = call[t].pos
  BY FindSlotAdds
<1>3. PICK k \in 1 .. Len(list) + 1 :
           /\ list' \in Seq(Slots) /\ Len(list') = Len(list) + 1
           /\ \A i \in 1 .. Len(list) + 1 :
                list'[i] = IF i < k THEN list[i] ELSE IF i = k THEN s ELSE list[i - 1]
           /\ \/ /\ k = Len(list) + 1
                 /\ \A i \in 1 .. Len(list) - 1 :
                      ~ Between(request[list[i]], req, request[list[i + 1]])
              \/ /\ k - 1 \in 1 .. Len(list) - 1
                 /\ Between(request[list[k - 1]], req, request[list[k]])
  BY <1>1, <1>2, PlaceOfRequest
<1>4. PICK n \in Nat : n = Len(list)
  BY <1>1
<1>5. PICK a : a = QueuedRequests
  OBVIOUS
<1>6. PICK d : d = QueuedRequests'
  OBVIOUS
<1>7. \A i \in 1 .. n : a[i] = request[list[i]] /\ list[i] \in Slots /\ list[i] # s
  BY <1>1, <1>2, <1>4, <1>5 DEF QueuedRequests, IInv, LinksBusySlots
<1>8. a \in [1 .. n -> Request]
  BY <1>4, <1>5, <1>7, PositionsDiffer DEF QueuedRequests
<1>9. FallsOnce(a, n)
  BY <1>4, <1>5 DEF Swept
<1>10. req.bh # NULL /\ \A i \in 1 .. n : a[i].pos # req.pos
  BY <1>0, <1>2, <1>4, <1>7, PositionsDiffer
<1>11. \/ k = n + 1 /\ \A i \in 1 .. n - 1 : ~ Between(a[i], req, a[i + 1])
       \/ k - 1 \in 1 .. n - 1 /\ Between(a[k - 1], req, a[k])
  <2>1. CASE k = n + 1 /\ \A i \in 1 .. n - 1 :
                            ~ Between(request[list[i]], req, request[list[i + 1]])
    <3>1. \A i \in 1 .. n - 1 : i \in 1 .. n /\ i + 1 \in 1 .. n
      OBVIOUS
    <3> QED
      BY <2>1, <3>1, <1>7
  <2>2. CASE k - 1 \in 1 .. n - 1 /\ Between(request[list[k - 1]], req, request[list[k]])
    <3>1. k \in 1 .. n /\ k - 1 \in 1 .. n
      BY <2>2, <1>4
    <3> QED
      BY <2>2, <3>1, <1>7
  <2> QED
    BY <2>1, <2>2, <1>3, <1>4
<1>12. ASSUME NEW i \in 1 .. n + 1
       PROVE  request'[list'[i]] = IF i < k THEN a[i] ELSE IF i = k THEN req ELSE a[i - 1]
  <2>1. list'[i] = IF i < k THEN list[i] ELSE IF i = k THEN s ELSE list[i - 1]
    BY <1>3, <1>4
  <2>2. k \in Nat /\ i \in Nat /\ n \in Nat /\ k <= n + 1
    BY <1>4
  <2>3. CASE i < k
    <3>1. i \in 1 .. n
      BY <2>2, <2>3
    <3> QED
      BY <2>1, <2>3, <3>1, <1>1, <1>2, <1>7
  <2>4. CASE i = k
    BY <2>1, <2>4, <1>1, <1>2
  <2>5. CASE i > k
    <3>1. i - 1 \in 1 .. n /\ ~(i < k) /\ i # k
      BY <2>2, <2>5
    <3>2. list'[i] = list[i - 1] /\ list[i - 1] \in Slots /\ list[i - 1] # s
      BY <2>1, <3>1, <1>7
    <3> QED
      BY <3>1, <3>2, <1>1, <1>2, <1>7
  <2> QED
    BY <2>2, <2>3, <2>4, <2>5
<1>13. d = [i \in 1 .. n + 1 |-> request'[list'[i]]]
  BY <1>3, <1>4, <1>6 DEF QueuedRequests
<1>14. ASSUME NEW i \in 1 .. n + 1
       PROVE  (IF i < k THEN a[i] ELSE IF i = k THEN req ELSE a[i - 1]) \in Request
  <2>1. k \in 1 .. n + 1
    BY <1>4
  <2>2. i < k => i \in 1 .. n
    BY <2>1
  <2>3. ~(i < k) /\ i # k => i - 1 \in 1 .. n
    BY <2>1
  <2> QED
    BY <2>2, <2>3, <1>8
<1>15. d \in [1 .. n + 1 -> Request]
       /\ \A i \in 1 .. n + 1 : d[i] = IF i < k THEN a[i] ELSE IF i = k THEN req ELSE a[i - 1]
  BY <1>12, <1>13, <1>14
<1>16. FallsOnce(d, n + 1)
  <2>1. k \in 1 .. n + 1
    BY <1>4
  <2> QED
    BY <2>1, <1>8, <1>9, <1>10, <1>11, <1>15, InsertKeepsSweeps
<1> QED
  BY <1>3, <1>4, <1>6, <1>16 DEF Swept

\* end_request() keeps the sweeps.
LEMMA end_requestSweeps ==
  ASSUME IInv, Swept, NEW ok \in BOOLEAN, end_request(ok)
  PROVE  Swept'
<1>1. list \in Seq(Slots) /\ list # <<>> /\ request \in [Slots -> Request \cup {NULL}]
  BY DEF IInv, TypeOK, end_request
<1>2. /\ list' = Tail(list) /\ Len(list') = Len(list) - 1
      /\ \A i \in 1 .. Len(list) - 1 : list'[i] = list[i + 1]
      /\ Head(list) = list[1] /\ Len(list) \in Nat /\ Len(list) >= 1
  BY <1>1, TailMoves DEF end_request
<1>3. request' = [request EXCEPT ![list[1]] = NULL]
  BY <1>2 DEF end_request
<1>4. PICK n \in Nat : n = Len(list)
  BY <1>2
<1>5. PICK a : a = QueuedRequests
  OBVIOUS
<1>6. PICK d : d = QueuedRequests'
  OBVIOUS
<1>7. ASSUME NEW i \in 1 .. n - 1
      PROVE  d[i] = a[i + 1]
  <2>1. i + 1 \in 1 .. n /\ 1 \in 1 .. n /\ i + 1 # 1
    BY <1>2, <1>4
  <2>2. list[i + 1] \in Slots /\ list[i + 1] # list[1]
    BY <2>1, <1>1, <1>4 DEF IInv, LinkedOnce
  <2>3. d[i] = request'[list'[i]] /\ list'[i] = list[i + 1]
    BY <1>2, <1>4, <1>6 DEF QueuedRequests
  <2>4. a[i + 1] = request[list[i + 1]]
    BY <2>1, <1>4, <1>5 DEF QueuedRequests
  <2> QED
    BY <2>2, <2>3, <2>4, <1>1, <1>3
<1>8. FallsOnce(a, n)
  BY <1>4, <1>5 DEF Swept
<1>9. FallsOnce(d, n - 1)
  BY <1>7, <1>8, TailKeepsSweeps
<1> QED
  BY <1>2, <1>4, <1>6, <1>9 DEF Swept

\* As long as no pages are swapped, the head of the drive makes one sweep
\* after the other: add_request() puts a request where it makes no second
\* fall of the list, whatever the order of the calls.
THEOREM HeadMakesSweeps ==
  ASSUME Pages = {}
  PROVE  Spec => []TwoSweeps
<1>1. Init => Swept
  <2> SUFFICES ASSUME Init
               PROVE  Swept
    OBVIOUS
  <2>1. Len(list) = 0
    BY DEF Init
  <2> QED
    BY <2>1 DEF Swept, FallsOnce
<1>2. IInv /\ Swept /\ [Next]_vars => Swept'
  <2> SUFFICES ASSUME IInv, Swept, [Next]_vars
               PROVE  Swept'
    OBVIOUS
  <2>1. CASE UNCHANGED <<request, list>>
    BY <2>1 DEF Swept, FallsOnce, Rises, QueuedRequests
  <2>2. ASSUME NEW t \in Tasks, FindSlot(t)
        PROVE  Swept'
    BY <2>2, FindSlotSweeps
  <2>3. ASSUME NEW ok \in BOOLEAN, end_request(ok)
        PROVE  Swept'
    BY <2>3, end_requestSweeps
  <2> QED
    BY <2>1, <2>2, <2>3
       DEF Next, Kernel, vars, ll_rw_block, ll_rw_page, LockBuffer, NoSlot, SleepOnRequest,
           Modify, Invalidate
<1>3. ASSUME IInv, Swept
      PROVE  TwoSweeps
  <2>1. PICK n \in Nat : n = Len(list)
    BY <1>3 DEF IInv, TypeOK
  <2> DEFINE D == {i \in 1 .. n - 1 : ~IN_ORDER(request[list[i]], request[list[i + 1]])}
  <2>2. \A i \in D : i \in 1 .. n - 1 /\ ~Rises(QueuedRequests, i)
    BY <2>1 DEF Rises, QueuedRequests
  <2>3. \A i, j \in D : i = j
    BY <1>3, <2>1, <2>2 DEF Swept, FallsOnce
  <2>4. Cardinality(D) <= 1
    <3> HIDE DEF D
    <3>1. CASE D = {}
      <4>1. Cardinality(D) = 0
        BY <3>1, FS_EmptySet, Zenon
      <4> QED
        BY <4>1
    <3>2. CASE D # {}
      <4>1. PICK i \in D : TRUE
        BY <3>2
      <4>2. D = {i}
        BY <4>1, <2>3
      <4>3. Cardinality(D) = 1
        BY <4>2, FS_Singleton, Zenon
      <4> QED
        BY <4>3
    <3> QED
      BY <3>1, <3>2
  <2> QED
    BY <2>1, <2>4 DEF TwoSweeps
<1> QED
  BY <1>1, <1>2, <1>3, Inductive, PTL DEF Spec
-----------------------------------------------------------------------------
(* The hard disk driver.  One context of it runs at a time, because the     *)
(* controller is quiet while driver code runs and while there is no         *)
(* request; so the answer that comes belongs to the command that do_hd      *)
(* waits for, and the command to the request at the head and the sector     *)
(* that the driver is at.                                                   *)

AnyCommand == [op : Ops \cup {NULL}, sec : Int, left : Int, real : BOOLEAN]
States == {"ready", "start", "busy", "drq", "error"}
Positions == {"none", "request", "reset", "out", "cmd", "data", "end"}

\* The types that the argument needs.
ShapeOK ==
  /\ nr_sectors \in Nat
  /\ ctl \in [cmd : AnyCommand, st : States]
  /\ pc \in [Contexts -> [at : Positions, cmd : AnyCommand]]
  /\ irq \in BOOLEAN

\* No command is in progress; driver code runs; it is at end_request(1).
Quiet == ~irq /\ ctl.st # "busy"
InDriver == \E c \in Contexts : pc[c].at # "none"
AtEnd == \E c \in Contexts : pc[c].at = "end"

OneDriver ==
  /\ \A c, d \in Contexts : pc[c].at # "none" /\ pc[d].at # "none" => c = d
  /\ InDriver \/ list = <<>> => Quiet

\* What was counted off of CURRENT was transferred, and the driver is only
\* busy with a request.
HeadOK ==
  /\ list # <<>> =>
       /\ IF AtEnd THEN nr_sectors = 0 ELSE nr_sectors \in 1 .. Sectors(CURRENT)
       /\ 0 .. Sector - 1 \subseteq moved
  /\ \A c \in Contexts : pc[c].at \in {"reset", "out", "cmd", "data", "end"} => list # <<>>

\* A command is for CURRENT, at the sector that the driver is at.
ForHead(cmd) == cmd.real /\ cmd.sec = Sector /\ cmd.left = nr_sectors

\* The controller works at the command that do_hd waits for; after an
\* interrupt of a write it is one sector ahead of the driver.
AnswerOK ==
  /\ irq => ctl.st \notin {"start", "busy"}
  /\ irq \/ ctl.st = "busy" => ctl.cmd.op \in Ops /\ do_hd = ctl.cmd.op
  /\ ctl.cmd.op = "read" /\ (irq \/ ctl.st = "busy") => ForHead(ctl.cmd)
  /\ ctl.cmd.op = "read" /\ irq => ctl.st \in {"drq", "error"}
  /\ ctl.cmd.op = "write" /\ ctl.st = "busy" => ForHead(ctl.cmd)
  /\ ctl.cmd.op = "write" /\ irq /\ ctl.st # "error" =>
       /\ ctl.cmd.real /\ ctl.cmd.sec = Sector + 1 /\ ctl.cmd.left = nr_sectors - 1
       /\ Sector \in moved
       /\ ctl.st = IF nr_sectors > 1 THEN "drq" ELSE "ready"
  /\ ctl.cmd.op = "restore" /\ irq => ctl.st \in {"ready", "error"}
  /\ ctl.cmd.op = "specify" /\ irq => ctl.st = "ready"

\* The command that hd_out() is about to give, or that has been given and
\* waits for its first sector.
CommandOf(c) ==
  /\ pc[c].at \in {"out", "cmd"} =>
       /\ pc[c].cmd.op \in Ops
       /\ pc[c].cmd.op \in {"read", "write"} => ForHead(pc[c].cmd)
  /\ pc[c].at = "cmd" => do_hd = pc[c].cmd.op
  /\ pc[c].at = "data" =>
       /\ ctl.st \in {"start", "drq"} /\ ctl.cmd.op = "write" /\ ForHead(ctl.cmd)
       /\ do_hd = "write"
CommandOK == \A c \in Contexts : CommandOf(c)

\* The inductive invariant of the driver, next to that of the queue.
HdInv == ShapeOK /\ OneDriver /\ HeadOK /\ AnswerOK /\ CommandOK

\* Every step of the driver and its controller is a step of the queue, or
\* changes nothing of it.
LEMMA HdStepIsQueueStep ==
  ASSUME [HdNext]_hdVars
  PROVE  [Next]_vars
<1>1. CASE UNCHANGED vars
  BY <1>1
<1>2. ASSUME NEW ok \in BOOLEAN, end_request(ok)
      PROVE  Next
  BY <1>2 DEF Next
<1>3. ASSUME NEW t \in Tasks
      PROVE  /\ \A b \in Blocks, rw \in {READ, WRITE}, ahead \in BOOLEAN :
                  TaskStep(ll_rw_block(t, rw, ahead, b)) => Next
             /\ \A page \in Pages, rw \in {READ, WRITE} : TaskStep(ll_rw_page(t, rw, page)) => Next
             /\ TaskStep(Kernel(t)) => Next
  BY DEF TaskStep, Next
<1>4. ASSUME NEW b \in Blocks, TaskStep(Modify(b)) \/ TaskStep(Invalidate(b))
      PROVE  Next
  BY <1>4 DEF TaskStep, Next
<1>5. ASSUME NEW c, NEW up \in BOOLEAN, NEW l, EndRequest(c, up, l)
      PROVE  Next
  BY <1>2, <1>5 DEF EndRequest
<1>6. ASSUME NEW c, NEW l, CountError(c, l) \/ bad_rw_intr(c, l)
      PROVE  [Next]_vars
  BY <1>5, <1>6 DEF CountError, bad_rw_intr, Crash
<1>7. ASSUME NEW c \in Contexts, Driver(c)
      PROVE  [Next]_vars
  <2>1. CASE do_hd_request(c)
    BY <1>5, <2>1 DEF do_hd_request
  <2>2. CASE reset_hd(c) \/ HdOut(c) \/ HdCmd(c)
    BY <2>2 DEF reset_hd, HdOut, HdCmd
  <2>3. CASE HdData(c)
    BY <1>6, <2>3 DEF HdData, Crash
  <2>4. CASE HdEnd(c)
    BY <1>5, <2>4 DEF HdEnd
  <2> QED
    BY <1>7, <2>1, <2>2, <2>3, <2>4 DEF Driver
<1>8. CASE HdInterrupt
  BY <1>6, <1>8 DEF HdInterrupt, read_intr, write_intr, Crash
<1>9. CASE hd_times_out
  BY <1>6, <1>9 DEF hd_times_out
<1>10. CASE Controller
  BY <1>10 DEF Controller
<1>11. CASE UNCHANGED hdVars
  BY <1>11 DEF hdVars
<1> QED
  BY <1>3, <1>4, <1>7, <1>8, <1>9, <1>10, <1>11 DEF HdNext

\* The commands that the driver makes have the type of a command.
LEMMA CommandTypes ==
  /\ NoCommand \in AnyCommand
  /\ \A op \in Ops : Other(op) \in AnyCommand /\ Other(op).op = op
  /\ \A op \in Ops, n \in Int, m \in Int :
       LET cmd == [op |-> op, sec |-> n, left |-> m, real |-> TRUE]
       IN  cmd \in AnyCommand /\ cmd.op = op /\ cmd.sec = n /\ cmd.left = m /\ cmd.real
  /\ "read" \in Ops /\ "write" \in Ops /\ "restore" \in Ops /\ "specify" \in Ops
<1>1. NoCommand \in AnyCommand
  BY DEF AnyCommand, NoCommand
<1>2. ASSUME NEW op \in Ops
      PROVE  Other(op) \in AnyCommand /\ Other(op).op = op
  <2>1. PICK cmd \in AnyCommand : cmd = NoCommand
    BY <1>1
  <2>2. Other(op) = [cmd EXCEPT !.op = op]
    BY <2>1 DEF Other
  <2> QED
    BY <2>2 DEF AnyCommand
<1>3. ASSUME NEW op \in Ops, NEW n \in Int, NEW m \in Int
      PROVE  LET cmd == [op |-> op, sec |-> n, left |-> m, real |-> TRUE]
             IN  cmd \in AnyCommand /\ cmd.op = op /\ cmd.sec = n /\ cmd.left = m /\ cmd.real
  BY DEF AnyCommand
<1>4. "read" \in Ops /\ "write" \in Ops /\ "restore" \in Ops /\ "specify" \in Ops
  BY DEF Ops
<1> QED
  BY <1>1, <1>2, <1>3, <1>4

\* A command goes on with the next sector.
LEMMA CommandGoesOn ==
  ASSUME NEW cmd \in AnyCommand,
         NEW k, k = [cmd EXCEPT !.sec = cmd.sec + 1, !.left = cmd.left - 1]
  PROVE  /\ k \in AnyCommand /\ k.op = cmd.op /\ k.real = cmd.real
         /\ k.sec = cmd.sec + 1 /\ k.left = cmd.left - 1
<1> DEFINE n == cmd.sec + 1
           m == cmd.left - 1
<1>1. n \in Int /\ m \in Int /\ k = [cmd EXCEPT !.sec = n, !.left = m]
  BY DEF AnyCommand
<1> HIDE DEF n, m
<1>2. k \in AnyCommand /\ k.op = cmd.op /\ k.real = cmd.real /\ k.sec = n /\ k.left = m
  BY <1>1 DEF AnyCommand
<1> QED
  BY <1>2 DEF n, m

\* Go() only moves one context.
LEMMA GoMoves ==
  ASSUME ShapeOK, NEW c \in Contexts, NEW l \in Positions, NEW cmd \in AnyCommand, Go(c, l, cmd)
  PROVE  /\ pc' \in [Contexts -> [at : Positions, cmd : AnyCommand]]
         /\ pc'[c].at = l /\ pc'[c].cmd = cmd
         /\ \A d \in Contexts : d # c => pc'[d] = pc[d]
<1>1. PICK p : p = [at |-> l, cmd |-> cmd]
  OBVIOUS
<1>2. p \in [at : Positions, cmd : AnyCommand] /\ p.at = l /\ p.cmd = cmd
  BY <1>1
<1>3. pc' = [pc EXCEPT ![c] = p]
  BY <1>1 DEF Go
<1> QED
  BY <1>2, <1>3 DEF ShapeOK

\* The head of the list is a request, of at least one sector.
LEMMA HeadIsRequest ==
  IInv /\ list # <<>> =>
    Head(list) \in Slots /\ CURRENT \in Request /\ Sectors(CURRENT) \in Nat \ {0}
<1> SUFFICES ASSUME IInv, list # <<>>
             PROVE  Head(list) \in Slots /\ CURRENT \in Request /\ Sectors(CURRENT) \in Nat \ {0}
  OBVIOUS
<1>1. list \in Seq(Slots) /\ Head(list) = list[1] /\ 1 \in 1 .. Len(list)
  BY DEF IInv, TypeOK
<1>2. Head(list) \in Slots /\ Taken(Head(list))
  BY <1>1 DEF IInv, LinksBusySlots
<1>3. CURRENT \in Request
  BY <1>2 DEF IInv, TypeOK, Taken, CURRENT
<1> QED
  BY <1>2, <1>3, DiskAssumption DEF Sectors

\* So is the head of the list after a step.
LEMMA NextHeadIsRequest ==
  ASSUME IInv', list' # <<>>
  PROVE  Sectors(CURRENT)' \in Nat \ {0}
<1>1. list' \in Seq(Slots) /\ Head(list)' = list'[1] /\ 1 \in 1 .. Len(list')
  BY DEF IInv, TypeOK
<1>2. Head(list)' \in Slots /\ Taken(Head(list))'
  BY <1>1 DEF IInv, LinksBusySlots
<1>3. CURRENT' \in Request
  BY <1>2 DEF IInv, TypeOK, Taken, CURRENT
<1> QED
  BY <1>2, <1>3, DiskAssumption DEF Sectors

\* When the queue is left alone, so is CURRENT.
LEMMA SameHead ==
  ASSUME UNCHANGED vars
  PROVE  /\ list' = list /\ CURRENT' = CURRENT /\ Sectors(CURRENT)' = Sectors(CURRENT)
         /\ UNCHANGED nr_sectors => Sector' = Sector
BY DEF vars, CURRENT, Sector, Sectors

\* A step after which the controller is quiet, and one context is where it
\* has no command.
LEMMA QuietStep ==
  ASSUME ShapeOK', HeadOK', NEW c \in Contexts,
         \A d \in Contexts : d # c => pc'[d].at = "none",
         irq' = FALSE, ctl'.st # "busy",
         pc'[c].at \notin {"out", "cmd", "data"}
  PROVE  HdInv'
<1>1. OneDriver'
  BY DEF OneDriver, Quiet
<1>2. AnswerOK'
  BY DEF AnswerOK
<1>3. CommandOK'
  BY DEF CommandOK, CommandOf
<1> QED
  BY <1>1, <1>2, <1>3 DEF HdInv

\* end_request() leaves the next request with all its sectors.
LEMMA EndRequestOK ==
  ASSUME IInv', HdInv, NEW c \in Contexts, NEW up \in BOOLEAN, EndRequest(c, up, "request"),
         \A d \in Contexts : d # c => pc[d].at = "none",
         irq' = FALSE, ctl.st # "busy"
  PROVE  HdInv'
<1>1. ShapeOK
  BY DEF HdInv
<1>2. ctl' = [ctl EXCEPT !.cmd.real = FALSE]
  BY DEF EndRequest
<1>3. ctl' \in [cmd : AnyCommand, st : States] /\ ctl'.st = ctl.st
  BY <1>1, <1>2 DEF ShapeOK, AnyCommand
<1>4. pc' = [x \in Contexts |-> IF x = c THEN [at |-> "request", cmd |-> NoCommand]
                               ELSE [pc[x] EXCEPT !.cmd.real = FALSE]]
  BY DEF EndRequest
<1>5. ASSUME NEW d \in Contexts, d # c
      PROVE  pc'[d] \in [at : Positions, cmd : AnyCommand] /\ pc'[d].at = "none"
  <2>1. PICK p \in [at : Positions, cmd : AnyCommand] : p = pc[d]
    BY <1>1 DEF ShapeOK
  <2>2. pc'[d] = [p EXCEPT !.cmd.real = FALSE]
    BY <1>4, <1>5, <2>1
  <2>3. PICK cmd \in AnyCommand : cmd = p.cmd
    OBVIOUS
  <2>4. PICK k : k = [cmd EXCEPT !.real = FALSE]
    OBVIOUS
  <2>5. k \in AnyCommand
    BY <2>4 DEF AnyCommand
  <2>6. pc'[d] = [p EXCEPT !.cmd = k]
    BY <2>2, <2>3, <2>4
  <2> QED
    BY <1>5, <2>1, <2>5, <2>6
<1>6. pc'[c] \in [at : Positions, cmd : AnyCommand] /\ pc'[c].at = "request"
  BY <1>4, CommandTypes DEF Positions
<1>7. pc' \in [Contexts -> [at : Positions, cmd : AnyCommand]]
  BY <1>4, <1>5, <1>6
<1>8. ~AtEnd'
  BY <1>5, <1>6 DEF AtEnd
<1>9. NewHead
  BY DEF EndRequest
<1>10. CASE list' = <<>>
  <2>1. nr_sectors' = 0
    BY <1>9, <1>10 DEF NewHead
  <2>2. HeadOK'
    BY <1>5, <1>6, <1>10 DEF HeadOK
  <2>3. ShapeOK'
    BY <1>3, <1>7, <2>1 DEF ShapeOK
  <2> QED
    BY <1>3, <1>5, <1>6, <2>2, <2>3, QuietStep
<1>11. CASE list' # <<>>
  <2>1. nr_sectors' = Sectors(CURRENT)'
    BY <1>9, <1>11 DEF NewHead, CURRENT, Sectors
  <2>2. Sectors(CURRENT)' \in Nat \ {0}
    BY <1>11, NextHeadIsRequest
  <2>3. Sector' = 0
    BY <2>1, <2>2 DEF Sector, CURRENT
  <2>4. HeadOK'
    BY <1>5, <1>6, <1>8, <2>1, <2>2, <2>3 DEF HeadOK
  <2>5. ShapeOK'
    BY <1>3, <1>7, <2>1, <2>2 DEF ShapeOK
  <2> QED
    BY <1>3, <1>5, <1>6, <2>4, <2>5, QuietStep
<1> QED
  BY <1>10, <1>11

\* Driver code that runs is alone with a quiet controller.
LEMMA DriverIsAlone ==
  ASSUME HdInv, NEW c \in Contexts, pc[c].at # "none"
  PROVE  irq = FALSE /\ ctl.st # "busy" /\ \A d \in Contexts : d # c => pc[d].at = "none"
BY DEF HdInv, OneDriver, InDriver, Quiet, ShapeOK

\* A step that counts nothing off, and that only one context takes, not to or
\* from end_request(1).
LEMMA NothingCounted ==
  ASSUME HdInv, UNCHANGED vars, UNCHANGED <<nr_sectors, moved>>,
         NEW c \in Contexts, \A d \in Contexts : d # c => pc'[d] = pc[d],
         pc[c].at # "end", pc'[c].at # "end",
         pc'[c].at \in {"reset", "out", "cmd", "data"} => list # <<>>
  PROVE  HeadOK'
<1>1. list' = list /\ Sectors(CURRENT)' = Sectors(CURRENT) /\ Sector' = Sector
  BY SameHead
<1>2. AtEnd' <=> AtEnd
  BY DEF AtEnd
<1>3. HeadOK
  BY DEF HdInv
<1>4. list # <<>> => /\ IF AtEnd THEN nr_sectors = 0 ELSE nr_sectors \in 1 .. Sectors(CURRENT)
                     /\ 0 .. Sector - 1 \subseteq moved
  BY <1>3 DEF HeadOK
<1>5. list' # <<>> => /\ IF AtEnd' THEN nr_sectors' = 0 ELSE nr_sectors' \in 1 .. Sectors(CURRENT)'
                      /\ 0 .. Sector' - 1 \subseteq moved'
  BY <1>1, <1>2, <1>4
<1>6. \A d \in Contexts : pc'[d].at \in {"reset", "out", "cmd", "data", "end"} => list' # <<>>
  BY <1>1, <1>3 DEF HeadOK
<1> QED
  BY <1>5, <1>6 DEF HeadOK

\* A context goes to a place without a command while the controller is quiet.
LEMMA QuietMove ==
  ASSUME HdInv, NEW c \in Contexts, NEW l \in {"none", "request", "reset"}, Go(c, l, NoCommand),
         UNCHANGED vars, UNCHANGED <<nr_sectors, moved>>,
         \A d \in Contexts : d # c => pc[d].at = "none",
         pc[c].at # "end", l = "reset" => list # <<>>,
         irq' = FALSE, ctl' \in [cmd : AnyCommand, st : States], ctl'.st # "busy"
  PROVE  HdInv'
<1>1. l \in Positions
  BY DEF Positions
<1>2. /\ pc' \in [Contexts -> [at : Positions, cmd : AnyCommand]]
      /\ pc'[c].at = l
      /\ \A d \in Contexts : d # c => pc'[d] = pc[d]
  BY <1>1, GoMoves, CommandTypes DEF HdInv
<1>3. ShapeOK'
  BY <1>2 DEF HdInv, ShapeOK
<1>4. HeadOK'
  BY <1>2, NothingCounted
<1>5. \A d \in Contexts : d # c => pc'[d].at = "none"
  BY <1>2
<1>6. pc'[c].at \notin {"out", "cmd", "data"}
  BY <1>2
<1> QED
  BY <1>3, <1>4, <1>5, <1>6, QuietStep

\* A request that has too many errors is given up, otherwise it is tried
\* again.
LEMMA CountErrorOK ==
  ASSUME IInv', HdInv, NEW c \in Contexts, NEW l \in {"request"}, CountError(c, l),
         \A d \in Contexts : d # c => pc[d].at = "none",
         pc[c].at # "end", irq' = FALSE, ctl.st # "busy"
  PROVE  HdInv'
<1>1. CASE EndRequest(c, FALSE, "request")
  BY <1>1, EndRequestOK
<1>2. CASE Go(c, "request", NoCommand) /\ UNCHANGED <<vars, nr_sectors, moved, ctl>>
  <2>1. ctl' \in [cmd : AnyCommand, st : States] /\ ctl'.st # "busy"
    BY <1>2 DEF HdInv, ShapeOK
  <2> QED
    BY <1>2, <2>1, QuietMove
<1> QED
  BY <1>1, <1>2 DEF CountError

\* The handlers of errors, while there is a request.
LEMMA bad_rw_intrOK ==
  ASSUME IInv', HdInv, NEW c \in Contexts, bad_rw_intr(c, "request"), list # <<>>,
         \A d \in Contexts : d # c => pc[d].at = "none",
         pc[c].at # "end", irq' = FALSE, ctl.st # "busy"
  PROVE  HdInv'
BY CountErrorOK DEF bad_rw_intr

\* do_hd_request() gives a command for the sector it is at, or none.
LEMMA do_hd_requestOK ==
  ASSUME IInv, IInv', HdInv, NEW c \in Contexts, do_hd_request(c)
  PROVE  HdInv'
<1>1. pc[c].at = "request" /\ irq' = irq
  BY DEF do_hd_request, PcAt
<1>2. irq' = FALSE /\ ctl.st # "busy" /\ \A d \in Contexts : d # c => pc[d].at = "none"
  BY <1>1, DriverIsAlone
<1>3. CASE pc' = [pc EXCEPT ![c] = Nowhere] /\ UNCHANGED <<vars, current, ctl>>
  <2>1. Go(c, "none", NoCommand)
    BY <1>3 DEF Go, Nowhere
  <2>2. ctl' \in [cmd : AnyCommand, st : States] /\ ctl'.st # "busy"
    BY <1>2, <1>3 DEF HdInv, ShapeOK
  <2> QED
    BY <1>1, <1>2, <1>3, <2>1, <2>2, QuietMove DEF current
<1>4. CASE EndRequest(c, FALSE, "request")
  BY <1>2, <1>4, EndRequestOK
<1>5. CASE list # <<>> /\ Go(c, "reset", NoCommand) /\ UNCHANGED <<vars, current, handler, ctl>>
  <2>1. ctl' \in [cmd : AnyCommand, st : States] /\ ctl'.st # "busy"
    BY <1>2, <1>5 DEF HdInv, ShapeOK
  <2> QED
    BY <1>1, <1>2, <1>5, <2>1, QuietMove DEF current
<1>6. ASSUME NEW cmd \in AnyCommand, Go(c, "out", cmd), cmd.op \in Ops,
             cmd.op \in {"read", "write"} => ForHead(cmd),
             list # <<>>, UNCHANGED <<vars, current, handler, ctl>>
      PROVE  HdInv'
  <2>1. "out" \in Positions
    BY DEF Positions
  <2>2. /\ pc' \in [Contexts -> [at : Positions, cmd : AnyCommand]]
        /\ pc'[c].at = "out" /\ pc'[c].cmd = cmd
        /\ \A d \in Contexts : d # c => pc'[d] = pc[d]
    BY <1>6, <2>1, GoMoves DEF HdInv
  <2>3. ShapeOK'
    BY <1>1, <1>6, <2>2 DEF HdInv, ShapeOK, current
  <2>4. HeadOK'
    BY <1>1, <1>6, <2>2, NothingCounted DEF current
  <2>5. OneDriver' /\ AnswerOK'
    BY <1>2, <1>6, <2>2 DEF OneDriver, Quiet, AnswerOK
  <2>6. Sector' = Sector /\ nr_sectors' = nr_sectors
    BY <1>6, SameHead DEF current
  <2>7. CommandOK'
    BY <1>2, <1>6, <2>2, <2>6 DEF CommandOK, CommandOf, ForHead
  <2> QED
    BY <2>3, <2>4, <2>5, <2>7 DEF HdInv
<1>7. CASE list # <<>> /\ Go(c, "out", Other("restore")) /\ UNCHANGED <<vars, current, handler, ctl>>
  BY <1>6, <1>7, CommandTypes
<1>8. ASSUME list # <<>>, NEW op \in {"read", "write"},
             Go(c, "out", [op |-> op, sec |-> Sector, left |-> nr_sectors, real |-> TRUE]),
             UNCHANGED <<vars, current, handler, ctl>>
      PROVE  HdInv'
  <2>1. Sectors(CURRENT) \in Nat
    BY <1>8, HeadIsRequest
  <2>2. nr_sectors \in Int /\ Sector \in Int
    BY <2>1 DEF HdInv, ShapeOK, Sector
  <2>3. PICK cmd : cmd = [op |-> op, sec |-> Sector, left |-> nr_sectors, real |-> TRUE]
    OBVIOUS
  <2>4. cmd \in AnyCommand /\ cmd.op = op /\ op \in Ops /\ ForHead(cmd)
    BY <2>2, <2>3, CommandTypes DEF ForHead
  <2> QED
    BY <1>6, <1>8, <2>3, <2>4
<1> QED
  <2>1. CASE list = <<>>
    BY <1>3, <2>1 DEF do_hd_request
  <2>2. CASE list # <<>> /\ EndRequest(c, FALSE, "request")
    BY <1>4, <2>2
  <2>3. CASE /\ list # <<>> /\ UNCHANGED <<vars, current, handler, ctl>>
             /\ IF reset THEN recalibrate' = TRUE /\ Go(c, "reset", NoCommand)
                ELSE IF recalibrate THEN recalibrate' = FALSE /\ Go(c, "out", Other("restore"))
                ELSE /\ Go(c, "out", [op |-> IF CURRENT.cmd = READ THEN "read" ELSE "write",
                                      sec |-> Sector, left |-> nr_sectors, real |-> TRUE])
                     /\ UNCHANGED recalibrate
    <3>1. CASE reset
      BY <1>5, <2>3, <3>1
    <3>2. CASE ~reset /\ recalibrate
      BY <1>7, <2>3, <3>2
    <3>3. CASE ~reset /\ ~recalibrate
      <4>1. PICK op \in {"read", "write"} : op = IF CURRENT.cmd = READ THEN "read" ELSE "write"
        OBVIOUS
      <4> QED
        BY <1>8, <2>3, <3>3, <4>1
    <3> QED
      BY <3>1, <3>2, <3>3
  <2> QED
    BY <2>1, <2>2, <2>3 DEF do_hd_request

\* reset_hd() makes the controller quiet before it specifies a drive.
LEMMA reset_hdOK ==
  ASSUME HdInv, NEW c \in Contexts, reset_hd(c)
  PROVE  HdInv'
<1>1. pc[c].at = "reset" /\ UNCHANGED vars /\ UNCHANGED <<nr_sectors, moved>> /\ list # <<>>
  BY DEF reset_hd, PcAt, current, HdInv, HeadOK
<1>2. irq = FALSE /\ ctl.st # "busy" /\ \A d \in Contexts : d # c => pc[d].at = "none"
  BY <1>1, DriverIsAlone
<1>3. irq' = FALSE /\ ctl' \in [cmd : AnyCommand, st : States] /\ ctl'.st # "busy"
  <2>1. CASE ctl' = [cmd |-> NoCommand, st |-> "ready"] /\ irq' = FALSE
    BY <2>1, CommandTypes DEF States
  <2>2. CASE UNCHANGED <<ctl, irq>>
    BY <1>2, <2>2 DEF HdInv, ShapeOK
  <2> QED
    BY <2>1, <2>2 DEF reset_hd
<1>4. CASE Go(c, "request", NoCommand)
  BY <1>1, <1>2, <1>3, <1>4, QuietMove
<1>5. CASE Go(c, "out", Other("specify"))
  <2>1. "out" \in Positions
    BY DEF Positions
  <2>2. /\ pc' \in [Contexts -> [at : Positions, cmd : AnyCommand]]
        /\ pc'[c].at = "out" /\ pc'[c].cmd.op = "specify"
        /\ \A d \in Contexts : d # c => pc'[d] = pc[d]
    BY <1>5, <2>1, GoMoves, CommandTypes DEF HdInv
  <2>3. ShapeOK'
    BY <1>1, <1>3, <2>2 DEF HdInv, ShapeOK
  <2>4. HeadOK'
    BY <1>1, <2>2, NothingCounted
  <2>5. OneDriver' /\ AnswerOK'
    BY <1>2, <1>3, <2>2 DEF OneDriver, Quiet, AnswerOK
  <2>6. CommandOK'
    BY <1>2, <2>2, CommandTypes DEF CommandOK, CommandOf
  <2> QED
    BY <2>3, <2>4, <2>5, <2>6 DEF HdInv
<1> QED
  <2>1. Go(c, "out", Other("specify")) \/ Go(c, "request", NoCommand)
    BY DEF reset_hd
  <2> QED
    BY <1>4, <1>5, <2>1

\* hd_out() sets the handler of its command ...
LEMMA HdOutOK ==
  ASSUME HdInv, NEW c \in Contexts, HdOut(c)
  PROVE  HdInv'
<1>1. pc[c].at = "out" /\ UNCHANGED vars /\ UNCHANGED <<nr_sectors, moved, ctl>> /\ list # <<>>
  BY DEF HdOut, PcAt, current, HdInv, HeadOK
<1>2. irq = FALSE /\ ctl.st # "busy" /\ \A d \in Contexts : d # c => pc[d].at = "none"
  BY <1>1, DriverIsAlone
<1>3. irq' = FALSE /\ do_hd' = pc[c].cmd.op /\ Go(c, "cmd", pc[c].cmd)
  BY DEF HdOut
<1>4. pc[c].cmd \in AnyCommand /\ "cmd" \in Positions
  BY DEF HdInv, ShapeOK, Positions
<1>5. /\ pc' \in [Contexts -> [at : Positions, cmd : AnyCommand]]
      /\ pc'[c].at = "cmd" /\ pc'[c].cmd = pc[c].cmd
      /\ \A d \in Contexts : d # c => pc'[d] = pc[d]
  BY <1>3, <1>4, GoMoves DEF HdInv
<1>6. ShapeOK'
  BY <1>1, <1>3, <1>5 DEF HdInv, ShapeOK
<1>7. HeadOK'
  BY <1>1, <1>5, NothingCounted
<1>8. OneDriver' /\ AnswerOK'
  BY <1>1, <1>2, <1>3, <1>5 DEF OneDriver, Quiet, AnswerOK
<1>9. Sector' = Sector /\ nr_sectors' = nr_sectors
  BY <1>1, SameHead
<1>10. CommandOf(c)
  BY DEF HdInv, CommandOK
<1>11. CommandOf(c)'
  BY <1>1, <1>3, <1>5, <1>9, <1>10 DEF CommandOf, ForHead
<1>12. \A d \in Contexts : d # c => CommandOf(d)'
  BY <1>2, <1>5 DEF CommandOf
<1> QED
  BY <1>6, <1>7, <1>8, <1>11, <1>12 DEF HdInv, CommandOK

\* ... and starts it.
LEMMA HdCmdOK ==
  ASSUME HdInv, NEW c \in Contexts, HdCmd(c)
  PROVE  HdInv'
<1>1. pc[c].at = "cmd" /\ UNCHANGED vars /\ UNCHANGED <<nr_sectors, moved, do_hd, irq>> /\ list # <<>>
  BY DEF HdCmd, PcAt, current, handler, HdInv, HeadOK
<1>2. irq = FALSE /\ ctl.st # "busy" /\ \A d \in Contexts : d # c => pc[d].at = "none"
  BY <1>1, DriverIsAlone
<1>3. PICK cmd \in AnyCommand : cmd = pc[c].cmd
  BY DEF HdInv, ShapeOK
<1>4. /\ cmd.op \in Ops /\ do_hd = cmd.op
      /\ cmd.op \in {"read", "write"} => ForHead(cmd)
  BY <1>1, <1>3 DEF HdInv, CommandOK, CommandOf
<1>5. ctl' = [cmd |-> cmd, st |-> IF cmd.op = "write" THEN "start" ELSE "busy"]
  BY <1>3 DEF HdCmd, Started
<1>6. ctl' \in [cmd : AnyCommand, st : States] /\ ctl'.cmd = cmd
      /\ ctl'.st = IF cmd.op = "write" THEN "start" ELSE "busy"
  BY <1>5 DEF States
<1>7. Sector' = Sector /\ nr_sectors' = nr_sectors /\ list' = list
  BY <1>1, SameHead
<1>8. cmd.op \in {"read", "write"} => ForHead(cmd)'
  BY <1>4, <1>7 DEF ForHead
<1>9. CASE cmd.op = "write"
  <2>1. PICK p \in [at : Positions, cmd : AnyCommand] : p = pc[c]
    BY DEF HdInv, ShapeOK
  <2>2. PICK q : q = [p EXCEPT !.at = "data"]
    OBVIOUS
  <2>3. q \in [at : Positions, cmd : AnyCommand] /\ q.at = "data"
    BY <2>2 DEF Positions
  <2>4. pc' = [pc EXCEPT ![c] = q]
    BY <1>3, <1>9, <2>1, <2>2 DEF HdCmd
  <2>5. /\ pc' \in [Contexts -> [at : Positions, cmd : AnyCommand]]
        /\ pc'[c].at = "data"
        /\ \A d \in Contexts : d # c => pc'[d] = pc[d]
    BY <2>3, <2>4 DEF HdInv, ShapeOK
  <2>6. ShapeOK'
    BY <1>1, <1>6, <2>5 DEF HdInv, ShapeOK
  <2>7. HeadOK'
    BY <1>1, <2>5, NothingCounted
  <2>8. OneDriver' /\ AnswerOK'
    BY <1>1, <1>2, <1>6, <1>9, <2>5 DEF OneDriver, Quiet, AnswerOK
  <2>9. CommandOK'
    BY <1>1, <1>2, <1>4, <1>6, <1>8, <1>9, <2>5 DEF CommandOK, CommandOf
  <2> QED
    BY <2>6, <2>7, <2>8, <2>9 DEF HdInv
<1>10. CASE cmd.op # "write"
  <2>1. Go(c, "none", NoCommand)
    BY <1>3, <1>10 DEF HdCmd, Go, Nowhere
  <2>2. "none" \in Positions
    BY DEF Positions
  <2>3. /\ pc' \in [Contexts -> [at : Positions, cmd : AnyCommand]]
        /\ pc'[c].at = "none"
        /\ \A d \in Contexts : d # c => pc'[d] = pc[d]
    BY <2>1, <2>2, GoMoves, CommandTypes DEF HdInv
  <2>4. ShapeOK'
    BY <1>1, <1>6, <2>3 DEF HdInv, ShapeOK
  <2>5. HeadOK'
    BY <1>1, <2>3, NothingCounted
  <2>6. \A d \in Contexts : pc'[d].at = "none"
    BY <1>2, <2>3
  <2>7. OneDriver'
    BY <1>1, <1>7, <2>6 DEF OneDriver, InDriver
  <2>8. AnswerOK'
    BY <1>1, <1>2, <1>4, <1>6, <1>8, <1>10 DEF AnswerOK
  <2>9. CommandOK'
    BY <2>6 DEF CommandOK, CommandOf
  <2> QED
    BY <2>4, <2>5, <2>7, <2>8, <2>9 DEF HdInv
<1> QED
  BY <1>9, <1>10

\* The first sector of a write is that of CURRENT.
LEMMA HdDataOK ==
  ASSUME IInv', HdInv, NEW c \in Contexts, HdData(c)
  PROVE  HdInv'
<1>1. pc[c].at = "data" /\ list # <<>> /\ irq' = FALSE
  BY DEF HdData, PcAt, HdInv, HeadOK
<1>2. ctl.st # "busy" /\ \A d \in Contexts : d # c => pc[d].at = "none"
  BY <1>1, DriverIsAlone
<1>3. ctl.st \in {"start", "drq"} /\ ctl.cmd.op = "write" /\ ForHead(ctl.cmd) /\ do_hd = "write"
  BY <1>1 DEF HdInv, CommandOK, CommandOf
<1>4. CASE bad_rw_intr(c, "request")
  BY <1>1, <1>2, <1>4, bad_rw_intrOK
<1>5. CASE PortWrite /\ pc' = [pc EXCEPT ![c] = Nowhere] /\ UNCHANGED <<vars, current, handler>>
  <2>1. PICK cmd \in AnyCommand : cmd = ctl.cmd
    BY DEF HdInv, ShapeOK
  <2>2. cmd.real /\ cmd.sec = Sector /\ cmd.left = nr_sectors /\ cmd.op = "write"
    BY <1>3, <2>1 DEF ForHead
  <2>3. PICK k : k = [cmd EXCEPT !.real = cmd.real /\ cmd.sec = Sector]
    OBVIOUS
  <2>4. ctl' = [cmd |-> k, st |-> "busy"]
    BY <1>5, <2>1, <2>3 DEF PortWrite
  <2>5. /\ k \in AnyCommand
        /\ k.real /\ k.sec = Sector /\ k.left = nr_sectors /\ k.op = "write"
    BY <2>2, <2>3 DEF AnyCommand
  <2>6. ctl' \in [cmd : AnyCommand, st : States] /\ ctl'.cmd = k /\ ctl'.st = "busy"
    BY <2>4, <2>5 DEF States
  <2>7. Go(c, "none", NoCommand) /\ "none" \in Positions
    BY <1>5 DEF Go, Nowhere, Positions
  <2>8. /\ pc' \in [Contexts -> [at : Positions, cmd : AnyCommand]]
        /\ pc'[c].at = "none"
        /\ \A d \in Contexts : d # c => pc'[d] = pc[d]
    BY <2>7, GoMoves, CommandTypes DEF HdInv
  <2>9. ShapeOK'
    BY <1>1, <1>5, <2>6, <2>8 DEF HdInv, ShapeOK, current
  <2>10. HeadOK'
    BY <1>1, <1>5, <2>8, NothingCounted DEF current
  <2>11. \A d \in Contexts : pc'[d].at = "none"
    BY <1>2, <2>8
  <2>12. list' = list /\ Sector' = Sector /\ nr_sectors' = nr_sectors /\ do_hd' = do_hd
    BY <1>5, SameHead DEF current, handler
  <2>13. OneDriver'
    BY <1>1, <2>11, <2>12 DEF OneDriver, InDriver
  <2>14. AnswerOK'
    BY <1>1, <1>3, <2>5, <2>6, <2>12, CommandTypes DEF AnswerOK, ForHead
  <2>15. CommandOK'
    BY <2>11 DEF CommandOK, CommandOf
  <2> QED
    BY <2>9, <2>10, <2>13, <2>14, <2>15 DEF HdInv
<1> QED
  BY <1>1, <1>4, <1>5 DEF HdData

\* end_request(1).
LEMMA HdEndOK ==
  ASSUME IInv', HdInv, NEW c \in Contexts, HdEnd(c)
  PROVE  HdInv'
<1>1. pc[c].at = "end" /\ irq' = irq /\ EndRequest(c, TRUE, "request")
  BY DEF HdEnd, PcAt
<1>2. irq = FALSE /\ ctl.st # "busy" /\ \A d \in Contexts : d # c => pc[d].at = "none"
  BY <1>1, DriverIsAlone
<1> QED
  BY <1>1, <1>2, EndRequestOK

\* A step of the controller, which takes a command in progress on.
LEMMA ControllerMoves ==
  ASSUME HdInv, UNCHANGED vars, UNCHANGED <<nr_sectors, do_hd, pc>>, moved \subseteq moved',
         ctl' \in [cmd : AnyCommand, st : States], irq' \in BOOLEAN,
         ctl.st = "busy", ctl'.st \notin {"start", "busy"},
         irq' => AnswerOK'
  PROVE  HdInv'
<1>1. list' = list /\ Sectors(CURRENT)' = Sectors(CURRENT) /\ Sector' = Sector
  BY SameHead
<1>2. \A c \in Contexts : pc[c].at = "none" /\ pc'[c] = pc[c]
  BY DEF HdInv, OneDriver, InDriver, Quiet
<1>3. list # <<>>
  BY DEF HdInv, OneDriver, Quiet
<1>4. ShapeOK'
  BY DEF HdInv, ShapeOK
<1>5. ~AtEnd /\ ~AtEnd'
  BY <1>2 DEF AtEnd
<1>6. HeadOK
  BY DEF HdInv
<1>7. HeadOK'
  BY <1>1, <1>2, <1>3, <1>5, <1>6 DEF HeadOK
<1>8. OneDriver'
  BY <1>1, <1>2, <1>3 DEF OneDriver, InDriver
<1>9. CommandOK'
  BY <1>2 DEF CommandOK, CommandOf
<1>10. AnswerOK'
  <2>1. CASE irq'
    BY <2>1
  <2>2. CASE ~irq'
    BY <2>2 DEF AnswerOK
  <2> QED
    BY <2>1, <2>2
<1> QED
  BY <1>4, <1>7, <1>8, <1>9, <1>10 DEF HdInv

\* The controller, as long as it gives no error before the first sector of a
\* write and none for a specify.
LEMMA ControllerOK ==
  ASSUME HdInv, Controller, "refused" \notin Faults, "specify" \notin Faults
  PROVE  HdInv'
<1>1. UNCHANGED vars /\ UNCHANGED <<nr_sectors, do_hd, pc>>
  BY DEF Controller, handler
<1>2. list' = list /\ Sectors(CURRENT)' = Sectors(CURRENT) /\ Sector' = Sector
  BY <1>1, SameHead
<1>3. PICK cmd \in AnyCommand : cmd = ctl.cmd
  BY DEF HdInv, ShapeOK
<1>4. PICK st \in States : st = ctl.st
  BY DEF HdInv, ShapeOK
<1>5. ctl = [cmd |-> cmd, st |-> st]
  BY <1>3, <1>4 DEF HdInv, ShapeOK
<1>7. CASE AskForSector
  <2>1. irq = FALSE /\ st = "start"
    BY <1>4, <1>7 DEF AskForSector, HdInv, AnswerOK, ShapeOK
  <2>2. ctl' = [cmd |-> cmd, st |-> "drq"] /\ irq' = FALSE /\ moved' = moved
    BY <1>5, <1>7, <2>1 DEF AskForSector
  <2>3. ctl' \in [cmd : AnyCommand, st : States] /\ ctl'.cmd = cmd /\ ctl'.st = "drq"
    BY <2>2 DEF States
  <2>4. ShapeOK'
    BY <1>1, <2>2, <2>3 DEF HdInv, ShapeOK
  <2>5. AtEnd' <=> AtEnd
    BY <1>1 DEF AtEnd
  <2>6. HeadOK'
    BY <1>1, <1>2, <2>2, <2>5 DEF HdInv, HeadOK
  <2>7. OneDriver'
    BY <1>1, <1>2, <2>2, <2>3 DEF HdInv, OneDriver, InDriver, Quiet
  <2>8. AnswerOK'
    BY <2>2, <2>3 DEF AnswerOK
  <2>9. CommandOK'
    BY <1>1, <1>2, <1>3, <2>3 DEF HdInv, CommandOK, CommandOf, ForHead
  <2> QED
    BY <2>4, <2>6, <2>7, <2>8, <2>9 DEF HdInv
<1>8. CASE SectorWritten
  <2>1. st = "busy" /\ cmd.op = "write" /\ ForHead(cmd) /\ do_hd = "write"
    BY <1>3, <1>4, <1>8 DEF SectorWritten, HdInv, AnswerOK
  <2>2. PICK k : k = [cmd EXCEPT !.sec = cmd.sec + 1, !.left = cmd.left - 1]
    OBVIOUS
  <2>3. k \in AnyCommand /\ k.op = "write" /\ k.real /\ k.sec = Sector + 1 /\ k.left = nr_sectors - 1
    <3>1. /\ k \in AnyCommand /\ k.op = cmd.op /\ k.real = cmd.real
          /\ k.sec = cmd.sec + 1 /\ k.left = cmd.left - 1
      BY <2>2, CommandGoesOn
    <3> QED
      BY <2>1, <3>1 DEF ForHead
  <2>4. ctl' = [cmd |-> k, st |-> IF nr_sectors > 1 THEN "drq" ELSE "ready"]
    BY <1>3, <1>8, <2>1, <2>2 DEF SectorWritten, NextSector, ForHead
  <2>5. /\ ctl' \in [cmd : AnyCommand, st : States] /\ ctl'.cmd = k
        /\ ctl'.st = IF nr_sectors > 1 THEN "drq" ELSE "ready"
    BY <2>3, <2>4 DEF States
  <2>6. moved' = moved \cup {Sector} /\ irq' \in BOOLEAN
    BY <1>3, <1>8, <2>1 DEF SectorWritten, ForHead, Requests
  <2>7. AnswerOK'
    BY <1>1, <1>2, <2>1, <2>3, <2>5, <2>6, CommandTypes DEF AnswerOK
  <2> QED
    BY <1>1, <1>4, <2>1, <2>5, <2>6, <2>7, ControllerMoves
<1>9. CASE CommandDone
  <2>1. st = "busy" /\ cmd.op # "write" /\ cmd.op \in Ops /\ do_hd = cmd.op
        /\ (cmd.op = "read" => ForHead(cmd))
    BY <1>3, <1>4, <1>9 DEF CommandDone, HdInv, AnswerOK
  <2>2. ctl' = [cmd |-> cmd, st |-> IF cmd.op = "read" THEN "drq" ELSE "ready"]
    BY <1>5, <1>9 DEF CommandDone
  <2>3. /\ ctl' \in [cmd : AnyCommand, st : States] /\ ctl'.cmd = cmd
        /\ ctl'.st = IF cmd.op = "read" THEN "drq" ELSE "ready"
    BY <2>2 DEF States
  <2>4. moved' = moved /\ irq' \in BOOLEAN
    BY <1>9 DEF CommandDone, Requests
  <2>5. AnswerOK'
    BY <1>1, <1>2, <2>1, <2>3 DEF AnswerOK, ForHead
  <2> QED
    BY <1>1, <1>4, <2>1, <2>3, <2>4, <2>5, ControllerMoves
<1>10. CASE CommandFails
  <2>1. st = "busy" /\ cmd.op # "specify" /\ cmd.op \in Ops /\ do_hd = cmd.op
        /\ (cmd.op = "read" => ForHead(cmd))
    BY <1>3, <1>4, <1>10 DEF CommandFails, Busy, HdInv, AnswerOK
  <2>2. ctl' = [cmd |-> cmd, st |-> "error"]
    BY <1>5, <1>10 DEF CommandFails
  <2>3. ctl' \in [cmd : AnyCommand, st : States] /\ ctl'.cmd = cmd /\ ctl'.st = "error"
    BY <2>2 DEF States
  <2>4. moved' = moved /\ irq' \in BOOLEAN
    BY <1>10 DEF CommandFails, Requests
  <2>5. AnswerOK'
    BY <1>1, <1>2, <2>1, <2>3 DEF AnswerOK, ForHead
  <2> QED
    BY <1>1, <1>4, <2>1, <2>3, <2>4, <2>5, ControllerMoves
<1> QED
  BY <1>7, <1>8, <1>9, <1>10 DEF Controller

\* The timer, as long as it runs out for a lost interrupt only.
LEMMA hd_times_outOK ==
  ASSUME IInv', HdInv, hd_times_out, "late" \notin Faults
  PROVE  HdInv'
<1>1. /\ \A c \in Contexts : pc[c].at = "none"
      /\ irq = FALSE /\ ctl.st # "busy" /\ irq' = FALSE
  BY DEF hd_times_out, Busy, HdInv, ShapeOK
<1>2. CASE UNCHANGED <<vars, current, reset, ctl, pc, do_hd>>
  <2>1. /\ list' = list /\ Sectors(CURRENT)' = Sectors(CURRENT) /\ Sector' = Sector
        /\ UNCHANGED <<nr_sectors, moved, ctl, pc>>
    BY <1>2, SameHead DEF current
  <2>2. AtEnd' <=> AtEnd
    BY <2>1 DEF AtEnd
  <2>3. ShapeOK'
    BY <1>1, <2>1 DEF HdInv, ShapeOK
  <2>4. HeadOK'
    BY <2>1, <2>2 DEF HdInv, HeadOK
  <2> QED
    <3>1. "intr" \in Contexts
      BY DEF Contexts
    <3>2. \A d \in Contexts : pc'[d].at = "none"
      BY <1>1, <2>1
    <3>3. irq' = FALSE /\ ctl'.st # "busy"
      BY <1>1, <2>1
    <3> QED
      BY <2>3, <2>4, <3>1, <3>2, <3>3, QuietStep
<1>3. CASE CountError("intr", "request")
  BY <1>1, <1>3, CountErrorOK DEF Contexts
<1> QED
  BY <1>2, <1>3 DEF hd_times_out

\* read_intr() takes the sector that the controller has read.
LEMMA read_intrOK ==
  ASSUME IInv, HdInv, read_intr, irq, irq' = FALSE, do_hd = "read", win_result_ok,
         \A c \in Contexts : pc[c].at = "none"
  PROVE  HdInv'
<1>1. list # <<>> /\ "intr" \in Contexts
  BY DEF HdInv, OneDriver, Quiet, Contexts
<1>2. PICK cmd \in AnyCommand : cmd = ctl.cmd
  BY DEF HdInv, ShapeOK
<1>3. cmd.op = "read" /\ cmd.real /\ cmd.sec = Sector /\ cmd.left = nr_sectors /\ ctl.st = "drq"
  BY <1>2 DEF HdInv, AnswerOK, win_result_ok, ForHead
<1>4. UNCHANGED vars /\ nr_sectors' = nr_sectors - 1 /\ moved' = moved \cup {Sector}
  BY <1>1, <1>2, <1>3 DEF read_intr
<1>5. PICK k : k = [cmd EXCEPT !.sec = cmd.sec + 1, !.left = cmd.left - 1]
  OBVIOUS
<1>6. Sectors(CURRENT) \in Nat \ {0} /\ nr_sectors \in 1 .. Sectors(CURRENT)
      /\ 0 .. Sector - 1 \subseteq moved /\ Sector = Sectors(CURRENT) - nr_sectors
  BY <1>1, HeadIsRequest DEF HdInv, HeadOK, AtEnd, Sector
<1>7. list' = list /\ Sectors(CURRENT)' = Sectors(CURRENT) /\ Sector' = Sector + 1
  <2>1. list' = list /\ CURRENT' = CURRENT /\ Sectors(CURRENT)' = Sectors(CURRENT)
    BY <1>4, SameHead
  <2>2. Sector' = Sectors(CURRENT)' - nr_sectors'
    BY DEF Sector, Sectors, CURRENT
  <2> QED
    BY <1>4, <1>6, <2>1, <2>2
<1>8. k \in AnyCommand /\ k.op = "read" /\ k.real /\ k.sec = Sector' /\ k.left = nr_sectors'
  <2>1. /\ k \in AnyCommand /\ k.op = cmd.op /\ k.real = cmd.real
        /\ k.sec = cmd.sec + 1 /\ k.left = cmd.left - 1
    BY <1>5, CommandGoesOn
  <2> QED
    BY <1>3, <1>4, <1>7, <2>1
<1>9. ctl' = [cmd |-> k, st |-> IF nr_sectors > 1 THEN "busy" ELSE "ready"]
  BY <1>1, <1>2, <1>3, <1>5 DEF read_intr, NextSector
<1>10. /\ ctl' \in [cmd : AnyCommand, st : States] /\ ctl'.cmd = k
       /\ ctl'.st = IF nr_sectors > 1 THEN "busy" ELSE "ready"
  BY <1>8, <1>9 DEF States
<1>11. 0 .. Sector' - 1 \subseteq moved' /\ nr_sectors' \in Nat
  BY <1>4, <1>6, <1>7
<1>12. CASE nr_sectors > 1 /\ do_hd' = "read" /\ UNCHANGED pc
  <2>1. ShapeOK'
    BY <1>10, <1>11, <1>12 DEF HdInv, ShapeOK
  <2>2. ~AtEnd'
    BY <1>12 DEF AtEnd
  <2>3. nr_sectors' \in 1 .. Sectors(CURRENT)'
    BY <1>4, <1>6, <1>7, <1>12
  <2>4. HeadOK'
    BY <1>7, <1>11, <1>12, <2>2, <2>3 DEF HeadOK
  <2>5. OneDriver'
    BY <1>1, <1>7, <1>12 DEF OneDriver, InDriver
  <2>6. AnswerOK'
    BY <1>8, <1>10, <1>12, CommandTypes DEF AnswerOK, ForHead
  <2>7. CommandOK'
    BY <1>12 DEF CommandOK, CommandOf
  <2> QED
    BY <2>1, <2>4, <2>5, <2>6, <2>7 DEF HdInv
<1>13. CASE nr_sectors = 1 /\ Go("intr", "end", NoCommand)
  <2>1. "end" \in Positions
    BY DEF Positions
  <2>2. /\ pc' \in [Contexts -> [at : Positions, cmd : AnyCommand]]
        /\ pc'["intr"].at = "end"
        /\ \A d \in Contexts : d # "intr" => pc'[d].at = "none"
    BY <1>1, <1>13, <2>1, GoMoves, CommandTypes DEF HdInv
  <2>3. ShapeOK'
    BY <1>10, <1>11, <2>2 DEF HdInv, ShapeOK
  <2>4. AtEnd' /\ nr_sectors' = 0
    BY <1>1, <1>4, <1>13, <2>2 DEF AtEnd
  <2>5. HeadOK'
    BY <1>1, <1>7, <1>11, <2>4 DEF HeadOK
  <2>6. ctl'.st # "busy" /\ pc'["intr"].at \notin {"out", "cmd", "data"}
    BY <1>10, <1>13, <2>2
  <2> QED
    BY <1>1, <2>2, <2>3, <2>5, <2>6, QuietStep
<1> QED
  BY <1>1, <1>12, <1>13 DEF read_intr

\* write_intr() gives the controller the sector behind the one it has written.
LEMMA write_intrOK ==
  ASSUME IInv, HdInv, write_intr, irq, irq' = FALSE, do_hd = "write", win_result_ok,
         \A c \in Contexts : pc[c].at = "none"
  PROVE  HdInv'
<1>1. list # <<>> /\ "intr" \in Contexts
  BY DEF HdInv, OneDriver, Quiet, Contexts
<1>2. PICK cmd \in AnyCommand : cmd = ctl.cmd
  BY DEF HdInv, ShapeOK
<1>3. /\ cmd.op = "write" /\ cmd.real /\ cmd.sec = Sector + 1 /\ cmd.left = nr_sectors - 1
      /\ Sector \in moved
      /\ ctl.st = IF nr_sectors > 1 THEN "drq" ELSE "ready"
  BY <1>2 DEF HdInv, AnswerOK, win_result_ok
<1>4. UNCHANGED vars /\ nr_sectors' = nr_sectors - 1 /\ moved' = moved
  BY <1>1 DEF write_intr
<1>5. Sectors(CURRENT) \in Nat \ {0} /\ nr_sectors \in 1 .. Sectors(CURRENT)
      /\ 0 .. Sector - 1 \subseteq moved /\ Sector = Sectors(CURRENT) - nr_sectors
  BY <1>1, HeadIsRequest DEF HdInv, HeadOK, AtEnd, Sector
<1>6. list' = list /\ Sectors(CURRENT)' = Sectors(CURRENT) /\ Sector' = Sector + 1
  <2>1. list' = list /\ CURRENT' = CURRENT /\ Sectors(CURRENT)' = Sectors(CURRENT)
    BY <1>4, SameHead
  <2>2. Sector' = Sectors(CURRENT)' - nr_sectors'
    BY DEF Sector, Sectors, CURRENT
  <2> QED
    BY <1>4, <1>5, <2>1, <2>2
<1>7. 0 .. Sector' - 1 \subseteq moved' /\ nr_sectors' \in Nat
  BY <1>3, <1>4, <1>5, <1>6
<1>8. CASE nr_sectors > 1 /\ do_hd' = "write" /\ UNCHANGED pc
  <2>1. PICK k : k = [cmd EXCEPT !.real = cmd.real /\ cmd.sec = Sector + 1]
    OBVIOUS
  <2>2. k \in AnyCommand /\ k.op = "write" /\ k.real /\ k.sec = Sector' /\ k.left = nr_sectors'
    BY <1>3, <1>4, <1>6, <2>1 DEF AnyCommand
  <2>3. ctl' = [cmd |-> k, st |-> "busy"]
    BY <1>1, <1>2, <1>3, <1>8, <2>1 DEF write_intr
  <2>4. ctl' \in [cmd : AnyCommand, st : States] /\ ctl'.cmd = k /\ ctl'.st = "busy"
    BY <2>2, <2>3 DEF States
  <2>5. ShapeOK'
    BY <1>7, <1>8, <2>4 DEF HdInv, ShapeOK
  <2>6. ~AtEnd'
    BY <1>8 DEF AtEnd
  <2>7. nr_sectors' \in 1 .. Sectors(CURRENT)'
    BY <1>4, <1>5, <1>6, <1>8
  <2>8. HeadOK'
    BY <1>6, <1>7, <1>8, <2>6, <2>7 DEF HeadOK
  <2>9. OneDriver'
    BY <1>1, <1>6, <1>8 DEF OneDriver, InDriver
  <2>10. AnswerOK'
    BY <1>8, <2>2, <2>4, CommandTypes DEF AnswerOK, ForHead
  <2>11. CommandOK'
    BY <1>8 DEF CommandOK, CommandOf
  <2> QED
    BY <2>5, <2>8, <2>9, <2>10, <2>11 DEF HdInv
<1>9. CASE nr_sectors = 1 /\ Go("intr", "end", NoCommand) /\ UNCHANGED ctl
  <2>1. "end" \in Positions
    BY DEF Positions
  <2>2. /\ pc' \in [Contexts -> [at : Positions, cmd : AnyCommand]]
        /\ pc'["intr"].at = "end"
        /\ \A d \in Contexts : d # "intr" => pc'[d].at = "none"
    BY <1>1, <1>9, <2>1, GoMoves, CommandTypes DEF HdInv
  <2>3. ShapeOK'
    BY <1>7, <1>9, <2>2 DEF HdInv, ShapeOK
  <2>4. AtEnd' /\ nr_sectors' = 0
    BY <1>1, <1>4, <1>9, <2>2 DEF AtEnd
  <2>5. HeadOK'
    BY <1>1, <1>6, <1>7, <2>4 DEF HeadOK
  <2>6. ctl'.st # "busy" /\ pc'["intr"].at \notin {"out", "cmd", "data"}
    BY <1>3, <1>9, <2>2
  <2> QED
    BY <1>1, <2>2, <2>3, <2>5, <2>6, QuietStep
<1> QED
  BY <1>1, <1>8, <1>9 DEF write_intr

\* An interrupt finds its handler, and the handler a request; only a specify
\* that fails would leave the driver without one.
LEMMA HdInterruptOK ==
  ASSUME IInv, IInv', HdInv, HdInterrupt
  PROVE  HdInv'
<1>1. irq /\ irq' = FALSE /\ list # <<>> /\ \A c \in Contexts : pc[c].at = "none"
  BY DEF HdInterrupt, HdInv, OneDriver, InDriver, Quiet
<1>2. ctl.cmd.op \in Ops /\ do_hd = ctl.cmd.op /\ ctl.st \notin {"start", "busy"}
  BY <1>1 DEF HdInv, AnswerOK
<1>3. "intr" \in Contexts /\ NULL \notin Ops
  BY HandlerAssumption DEF Contexts
<1>4. CASE do_hd \in {"read", "write", "restore"} /\ bad_rw_intr("intr", "request")
  <2>1. pc["intr"].at # "end"
    BY <1>1, <1>3
  <2> QED
    BY <1>1, <1>2, <1>3, <1>4, <2>1, bad_rw_intrOK
<1>5. ASSUME NEW l \in {"request", "reset"}, Go("intr", l, NoCommand),
             UNCHANGED <<vars, current, reset, ctl>>
      PROVE  HdInv'
  <2>1. pc["intr"].at # "end" /\ ctl' \in [cmd : AnyCommand, st : States] /\ ctl'.st # "busy"
    BY <1>1, <1>2, <1>3, <1>5 DEF HdInv, ShapeOK
  <2>2. UNCHANGED vars /\ UNCHANGED <<nr_sectors, moved>>
    BY <1>5 DEF current
  <2> QED
    BY <1>1, <1>3, <1>5, <2>1, <2>2, QuietMove
<1>6. CASE do_hd = "read" /\ win_result_ok /\ read_intr
  BY <1>1, <1>6, read_intrOK
<1>7. CASE do_hd = "write" /\ win_result_ok /\ write_intr
  BY <1>1, <1>7, write_intrOK
<1>8. do_hd = "specify" => win_result_ok
  BY <1>1, <1>2 DEF HdInv, AnswerOK, win_result_ok
<1> QED
  BY <1>2, <1>3, <1>4, <1>5, <1>6, <1>7, <1>8 DEF HdInterrupt

\* A task that queues a request keeps it away from the head, and uses a slot
\* that is free.
LEMMA FindSlotKeepsHead ==
  ASSUME IInv, list # <<>>, NEW t \in Tasks, FindSlot(t)
  PROVE  /\ list' # <<>> /\ Head(list') = Head(list)
         /\ request'[Head(list)] = request[Head(list)]
<1>1. TypeOK /\ list \in Seq(Slots) /\ Len(list) \in Nat /\ Len(list) >= 1 /\ Head(list) = list[1]
  BY DEF IInv, TypeOK
<1>2. PICK s \in Slots, req \in Request :
        ~Taken(s) /\ add_request(s, req) /\ request' = [request EXCEPT ![s] = req]
  BY FindSlotAdds
<1>3. PICK k \in 1 .. Len(list) + 1 :
           /\ list' \in Seq(Slots) /\ Len(list') = Len(list) + 1
           /\ \A i \in 1 .. Len(list) + 1 :
                list'[i] = IF i < k THEN list[i] ELSE IF i = k THEN s ELSE list[i - 1]
           /\ k = Len(list) + 1 \/ k - 1 \in 1 .. Len(list) - 1
  BY <1>1, <1>2, PlaceOfRequest
<1>4. 1 < k /\ 1 \in 1 .. Len(list) + 1
  BY <1>1, <1>3
<1>5. list'[1] = list[1]
  BY <1>3, <1>4
<1>6. list' # <<>> /\ Head(list') = list'[1]
  BY <1>1, <1>3
<1>7. Taken(Head(list)) /\ Head(list) \in Slots
  BY <1>1 DEF IInv, LinksBusySlots
<1> QED
  BY <1>1, <1>2, <1>5, <1>6, <1>7

\* A step of a task that leaves the head alone or gives the disk its first
\* request.
LEMMA TaskStepOK ==
  ASSUME IInv', HdInv, NEW A, TaskStep(A),
         list # <<>> => /\ list' # <<>> /\ Head(list') = Head(list)
                        /\ request'[Head(list)] = request[Head(list)]
  PROVE  HdInv'
<1>1. /\ \A c \in Contexts : pc[c].at = "none"
      /\ UNCHANGED <<do_hd, ctl, irq>>
  BY DEF TaskStep, handler
<1>2. ShapeOK
  BY DEF HdInv
<1>3. CASE list = <<>> /\ list' # <<>>
  <2>1. NewHead /\ Go("task", "request", NoCommand) /\ "task" \in Contexts /\ "request" \in Positions
    BY <1>3 DEF TaskStep, Contexts, Positions
  <2>2. /\ pc' \in [Contexts -> [at : Positions, cmd : AnyCommand]]
        /\ pc'["task"].at = "request"
        /\ \A d \in Contexts : d # "task" => pc'[d].at = "none"
    BY <1>1, <1>2, <2>1, GoMoves, CommandTypes
  <2>3. nr_sectors' = Sectors(CURRENT)'
    BY <1>3, <2>1 DEF NewHead, CURRENT, Sectors
  <2>4. Sectors(CURRENT)' \in Nat \ {0}
    BY <1>3, NextHeadIsRequest
  <2>5. Sector' = 0
    BY <2>3, <2>4 DEF Sector, CURRENT
  <2>6. ~AtEnd'
    BY <2>2 DEF AtEnd
  <2>7. HeadOK'
    BY <2>2, <2>3, <2>4, <2>5, <2>6 DEF HeadOK
  <2>8. ShapeOK'
    BY <1>1, <1>2, <2>2, <2>3, <2>4 DEF ShapeOK
  <2>9. irq' = FALSE /\ ctl'.st # "busy"
    BY <1>1, <1>3 DEF HdInv, OneDriver, Quiet, ShapeOK
  <2>10. pc'["task"].at \notin {"out", "cmd", "data"}
    BY <2>2
  <2> QED
    BY <2>1, <2>2, <2>7, <2>8, <2>9, <2>10, QuietStep
<1>4. CASE ~(list = <<>> /\ list' # <<>>)
  <2>1. UNCHANGED <<nr_sectors, moved, pc>>
    BY <1>4 DEF TaskStep, current
  <2>2. list = <<>> <=> list' = <<>>
    BY <1>4
  <2>3. ASSUME list # <<>>
        PROVE  Sectors(CURRENT)' = Sectors(CURRENT) /\ Sector' = Sector
    <3>1. CURRENT' = CURRENT
      BY <2>3 DEF CURRENT
    <3>2. Sectors(CURRENT)' = Sectors(CURRENT)
      BY <3>1 DEF Sectors
    <3>3. Sector' = Sectors(CURRENT)' - nr_sectors'
      BY DEF Sector, Sectors, CURRENT
    <3> QED
      BY <2>1, <3>2, <3>3 DEF Sector
  <2>4. ShapeOK'
    BY <1>1, <1>2, <2>1 DEF ShapeOK
  <2>5. AtEnd' <=> AtEnd
    BY <2>1 DEF AtEnd
  <2>6. HeadOK'
    BY <1>1, <2>1, <2>2, <2>3, <2>5 DEF HdInv, HeadOK
  <2>7. OneDriver'
    BY <1>1, <2>1, <2>2 DEF HdInv, OneDriver, InDriver, Quiet
  <2>8. AnswerOK'
    <3>1. CASE list = <<>>
      BY <1>1, <3>1 DEF HdInv, OneDriver, Quiet, AnswerOK
    <3>2. CASE list # <<>>
      BY <1>1, <2>1, <2>3, <3>2 DEF HdInv, AnswerOK, ForHead
    <3> QED
      BY <3>1, <3>2
  <2>9. CommandOK'
    BY <1>1, <2>1 DEF CommandOK, CommandOf
  <2> QED
    BY <2>4, <2>6, <2>7, <2>8, <2>9 DEF HdInv
<1> QED
  BY <1>3, <1>4

\* The disk is idle at the beginning.
LEMMA HdInitOK == HdInit => IInv /\ HdInv
<1> SUFFICES ASSUME HdInit
             PROVE  HdInv
  BY InitOK DEF HdInit
<1>1. list = <<>> /\ nr_sectors = 0 /\ irq = FALSE
  BY DEF HdInit, Init
<1>2. ctl = [cmd |-> NoCommand, st |-> "ready"]
  BY DEF HdInit
<1>3. ctl \in [cmd : AnyCommand, st : States] /\ ctl.st = "ready"
  BY <1>2, CommandTypes DEF States
<1>4. \A c \in Contexts : pc[c] = Nowhere
  BY DEF HdInit
<1>5. Nowhere \in [at : Positions, cmd : AnyCommand] /\ Nowhere.at = "none"
  BY CommandTypes DEF Nowhere, Positions
<1>6. \A c \in Contexts : pc[c].at = "none"
  BY <1>4, <1>5
<1>7. pc \in [Contexts -> [at : Positions, cmd : AnyCommand]]
  BY <1>5 DEF HdInit
<1>8. ShapeOK
  BY <1>1, <1>3, <1>7 DEF ShapeOK
<1>9. HeadOK
  BY <1>1, <1>6 DEF HeadOK
<1>10. OneDriver /\ AnswerOK /\ CommandOK
  BY <1>1, <1>3, <1>6 DEF OneDriver, Quiet, AnswerOK, CommandOK, CommandOf
<1> QED
  BY <1>8, <1>9, <1>10 DEF HdInv

\* Every step of the disk preserves both invariants.
LEMMA HdNextKeepsInv ==
  ASSUME IInv, HdInv, [HdNext]_hdVars,
         "refused" \notin Faults, "specify" \notin Faults, "late" \notin Faults
  PROVE  IInv' /\ HdInv'
<1>1. IInv'
  BY HdStepIsQueueStep, NextKeepsIInv
<1> SUFFICES HdInv'
  BY <1>1
<1>2. ASSUME NEW t \in Tasks, NEW b \in Blocks, NEW rw \in {READ, WRITE}, NEW ahead \in BOOLEAN,
             TaskStep(ll_rw_block(t, rw, ahead, b))
      PROVE  HdInv'
  <2>1. UNCHANGED <<request, list>>
    BY <1>2 DEF TaskStep, ll_rw_block
  <2> QED
    BY <1>1, <1>2, <2>1, TaskStepOK
<1>3. ASSUME NEW t \in Tasks, NEW page \in Pages, NEW rw \in {READ, WRITE},
             TaskStep(ll_rw_page(t, rw, page))
      PROVE  HdInv'
  <2>1. UNCHANGED <<request, list>>
    BY <1>3 DEF TaskStep, ll_rw_page
  <2> QED
    BY <1>1, <1>3, <2>1, TaskStepOK
<1>4. ASSUME NEW t \in Tasks, TaskStep(Kernel(t))
      PROVE  HdInv'
  <2>1. CASE FindSlot(t)
    BY <1>1, <1>4, <2>1, FindSlotKeepsHead, TaskStepOK
  <2>2. CASE LockBuffer(t) \/ NoSlot(t) \/ SleepOnRequest(t)
    <3>1. UNCHANGED <<request, list>>
      BY <2>2 DEF LockBuffer, NoSlot, SleepOnRequest
    <3> QED
      BY <1>1, <1>4, <3>1, TaskStepOK
  <2> QED
    BY <1>4, <2>1, <2>2 DEF TaskStep, Kernel
<1>5. ASSUME NEW b \in Blocks, TaskStep(Modify(b)) \/ TaskStep(Invalidate(b))
      PROVE  HdInv'
  <2>1. UNCHANGED <<request, list>>
    BY <1>5 DEF TaskStep, Modify, Invalidate
  <2> QED
    BY <1>1, <1>5, <2>1, TaskStepOK
<1>6. ASSUME NEW c \in Contexts, Driver(c)
      PROVE  HdInv'
  BY <1>1, <1>6, do_hd_requestOK, reset_hdOK, HdOutOK, HdCmdOK, HdDataOK, HdEndOK DEF Driver
<1>7. CASE HdInterrupt
  BY <1>1, <1>7, HdInterruptOK
<1>8. CASE hd_times_out
  BY <1>1, <1>8, hd_times_outOK
<1>9. CASE Controller
  BY <1>9, ControllerOK
<1>10. CASE UNCHANGED hdVars
  <2>1. UNCHANGED vars /\ UNCHANGED <<nr_sectors, moved, do_hd, ctl, irq, pc>>
    BY <1>10 DEF hdVars, current, handler
  <2>2. list' = list /\ Sectors(CURRENT)' = Sectors(CURRENT) /\ Sector' = Sector
    BY <2>1, SameHead
  <2>3. ShapeOK' /\ OneDriver'
    BY <2>1, <2>2 DEF HdInv, ShapeOK, OneDriver, InDriver, Quiet
  <2>4. AtEnd' <=> AtEnd
    BY <2>1 DEF AtEnd
  <2>5. HeadOK'
    BY <2>1, <2>2, <2>4 DEF HdInv, HeadOK
  <2>6. AnswerOK' /\ CommandOK'
    BY <2>1, <2>2 DEF HdInv, AnswerOK, CommandOK, CommandOf, ForHead
  <2> QED
    BY <2>3, <2>5, <2>6 DEF HdInv
<1> QED
  BY <1>2, <1>3, <1>4, <1>5, <1>6, <1>7, <1>8, <1>9, <1>10 DEF HdNext

\* The driver implements the queue, whatever goes wrong on the disk: its steps
\* are end_request() at the right moments, or nothing that the queue sees.
THEOREM DiskImplementsQueue == HdSpec => Spec
<1>1. HdInit => Init
  BY DEF HdInit
<1>2. [HdNext]_hdVars => [Next]_vars
  BY HdStepIsQueueStep
<1> QED
  BY <1>1, <1>2, PTL DEF HdSpec, Spec

\* So the list of requests stays intact under the driver too: its interrupts
\* and its timer end requests one by one, and never one that is not queued.
THEOREM ListStaysIntactOnDisk == HdSpec => []ListIntact
BY DiskImplementsQueue, ListStaysIntact, PTL

\* Every sector that the driver counts off was transferred, and no handler runs
\* without a request: for any number of drives, errors and sectors, with
\* errors, interrupts that are lost and a drive that never asks for data, in
\* any order.  What is excluded is what breaks it: a specify or the first
\* sector of a write that the controller refuses, and a timer that runs out
\* for an answer that is late.
THEOREM SectorsAreTransferred ==
  ASSUME "refused" \notin Faults, "specify" \notin Faults, "late" \notin Faults
  PROVE  HdSpec => []TransfersAreReal
<1>1. HdInit => IInv /\ HdInv
  BY HdInitOK
<1>2. IInv /\ HdInv /\ [HdNext]_hdVars => IInv' /\ HdInv'
  BY HdNextKeepsInv
<1>3. HdInv => TransfersAreReal
  <2> SUFFICES ASSUME HdInv
               PROVE  TransfersAreReal
    OBVIOUS
  <2>1. list # <<>> => 0 .. Sector - 1 \subseteq moved
    BY DEF HdInv, HeadOK
  <2>2. \A c \in Contexts : pc[c].at # "crash"
    BY DEF HdInv, ShapeOK, Positions
  <2> QED
    BY <2>1, <2>2 DEF TransfersAreReal
<1> QED
  BY <1>1, <1>2, <1>3, PTL DEF HdSpec

=============================================================================
