---------------------------- MODULE RequestQueue ----------------------------
(***************************************************************************)
(* ll_rw_blk.c and blk.h: the request queue of one block device.  Tasks     *)
(* call ll_rw_block() to read or write a buffer and ll_rw_page() to swap a  *)
(* page; the driver serves the request at the head of the list and calls    *)
(* end_request() from an interrupt.                                         *)
(*                                                                          *)
(* A request is a slot of the array request[]; the list links slots in the  *)
(* order of the elevator algorithm.  Device and sector are one number, the  *)
(* position, since IN_ORDER compares them lexicographically.  A buffer is   *)
(* named by the position of its block.                                      *)
(*                                                                          *)
(* Kernel code runs to the next sleep_on() without another task in between, *)
(* and interrupts come between any two steps of it that are not under       *)
(* cli(); make_request() has one such place that matters, between its       *)
(* search for a free slot and sleep_on(&wait_for_request).  The loop        *)
(* "while (b_lock) sleep_on" is a guard, as WaitSpec promises.              *)
(***************************************************************************)
EXTENDS Naturals, FiniteSets, SequencesExt

CONSTANTS
  Tasks,
  NR_REQUEST,  \* slots of the array (32)
  Blocks,      \* positions of the blocks that buffers hold
  Pages,       \* positions of the pages that are swapped
  NULL         \* no buffer (a swap request), or a free slot

ASSUME RequestAssumption == NR_REQUEST \in Nat \ {0}
ASSUME PositionAssumption == Blocks \subseteq Nat /\ Pages \subseteq Nat /\ NULL \notin Nat

VARIABLES
  request,     \* the array; NULL is a slot with dev = -1
  list,        \* dev->current_request and the next links: slots, head first
  b_lock, b_dirt, b_uptodate,  \* of the buffer heads
  call         \* what each task is doing

buffers == <<b_lock, b_dirt, b_uptodate>>
vars == <<request, list, buffers, call>>

Slots == 0 .. NR_REQUEST - 1
READ == 0
WRITE == 1

Request == [cmd : {READ, WRITE}, pos : Blocks \cup Pages, bh : Blocks \cup {NULL},
            waiting : Tasks \cup {NULL}]
ASSUME FreeAssumption == NULL \notin Tasks /\ NULL \notin Request

\* A task is idle, waits for the lock of a buffer, looks for a slot, has found
\* none, sleeps on wait_for_request, or waits for its page.
Call == [at : {"idle", "lock", "find", "full", "asleep", "page"},
         rw : {READ, WRITE}, ahead : BOOLEAN, pos : Blocks \cup Pages \cup {NULL},
         bh : Blocks \cup {NULL}]
Idle == [at |-> "idle", rw |-> READ, ahead |-> FALSE, pos |-> NULL, bh |-> NULL]

TypeOK ==
  /\ request \in [Slots -> Request \cup {NULL}]
  /\ list \in Seq(Slots)
  /\ b_lock \in [Blocks -> BOOLEAN]
  /\ b_dirt \in [Blocks -> BOOLEAN]
  /\ b_uptodate \in [Blocks -> BOOLEAN]
  /\ call \in [Tasks -> Call]

\* blk_dev_init, and an empty buffer cache.
Init ==
  /\ request = [s \in Slots |-> NULL]
  /\ list = <<>>
  /\ b_lock = [b \in Blocks |-> FALSE]
  /\ b_dirt = [b \in Blocks |-> FALSE]
  /\ b_uptodate = [b \in Blocks |-> FALSE]
  /\ call = [t \in Tasks |-> Idle]

At(t, l) == call[t].at = l
Goto(t, l) == call' = [call EXCEPT ![t].at = l]
-----------------------------------------------------------------------------
\* The order of the elevator.
IN_ORDER(s1, s2) == s1.cmd < s2.cmd \/ (s1.cmd = s2.cmd /\ s1.pos < s2.pos)

\* Mutant: the end of a sweep is not looked for.
BetweenRising(tmp, req, nxt) ==
  IF req.bh = NULL THEN nxt.bh # NULL ELSE IN_ORDER(tmp, req) /\ IN_ORDER(req, nxt)

\* The loop of add_request() leaves req between tmp and nxt.
Between(tmp, req, nxt) ==
  IF req.bh = NULL
  THEN nxt.bh # NULL
  ELSE (IN_ORDER(tmp, req) \/ ~IN_ORDER(tmp, nxt)) /\ IN_ORDER(req, nxt)

\* Mutant: always right behind the head.
add_requestNext(s, req) ==
  /\ request' = [request EXCEPT ![s] = req]
  /\ list' = IF list = <<>> THEN <<s>> ELSE InsertAt(list, 2, s)

\* add_request(): never before the head, which the driver is working on, and
\* behind the last one when no place is found.
add_request(s, req) ==
  LET places == {i \in 1 .. Len(list) - 1 :
                   Between(request[list[i]], req, request[list[i + 1]])}
  IN  /\ request' = [request EXCEPT ![s] = req]
      /\ list' = IF list = <<>> THEN <<s>>
                 ELSE InsertAt(list, 1 + (IF places = {} THEN Len(list) ELSE Min(places)), s)

\* Writes of buffers only look at the first two thirds of the slots; the
\* search goes from the last slot down.
SlotsFor(rw, bh) ==
  IF rw = WRITE /\ bh # NULL THEN {s \in Slots : s < (NR_REQUEST * 2) \div 3} ELSE Slots
FreeSlots(rw, bh) == {s \in SlotsFor(rw, bh) : request[s] = NULL}
-----------------------------------------------------------------------------
\* ll_rw_block(rw or rw-ahead, bh): a read-ahead of a locked buffer is
\* forgotten, anything else goes on to lock_buffer().
ll_rw_block(t, rw, ahead, b) ==
  /\ At(t, "idle")
  /\ ~(ahead /\ b_lock[b])
  /\ call' = [call EXCEPT ![t] = [at |-> "lock", rw |-> rw, ahead |-> ahead, pos |-> b, bh |-> b]]
  /\ UNCHANGED <<request, list, buffers>>

\* Mutant: lock_buffer() does not wait.
LockBufferAtOnce(t) ==
  LET c == call[t]
      done == IF c.rw = WRITE THEN ~b_dirt[c.bh] ELSE b_uptodate[c.bh]
  IN  /\ At(t, "lock")
      /\ \/ done /\ call' = [call EXCEPT ![t] = Idle] /\ UNCHANGED b_lock
         \/ ~done /\ Goto(t, "find") /\ b_lock' = [b_lock EXCEPT ![c.bh] = TRUE]
      /\ UNCHANGED <<request, list, b_dirt, b_uptodate>>

\* lock_buffer(), and the check whether there is anything left to do.
LockBuffer(t) ==
  LET c == call[t]
      done == IF c.rw = WRITE THEN ~b_dirt[c.bh] ELSE b_uptodate[c.bh]
  IN  /\ At(t, "lock")
      /\ ~b_lock[c.bh]
      /\ \/ done /\ call' = [call EXCEPT ![t] = Idle] /\ UNCHANGED b_lock
         \/ ~done /\ Goto(t, "find") /\ b_lock' = [b_lock EXCEPT ![c.bh] = TRUE]
      /\ UNCHANGED <<request, list, b_dirt, b_uptodate>>

\* The search for a free slot succeeds: the request is filled in and queued,
\* and the buffer counts as clean from now on.
FindSlot(t) ==
  LET c == call[t]
      free == FreeSlots(c.rw, c.bh)
  IN  /\ At(t, "find")
      /\ free # {}
      /\ add_request(Max(free), [cmd |-> c.rw, pos |-> c.pos, bh |-> c.bh,
                                 waiting |-> IF c.bh = NULL THEN t ELSE NULL])
      /\ b_dirt' = [b \in Blocks |-> b_dirt[b] /\ b # c.bh]
      /\ call' = [call EXCEPT ![t] = IF c.bh = NULL THEN [c EXCEPT !.at = "page"] ELSE Idle]
      /\ UNCHANGED <<b_lock, b_uptodate>>

\* Mutant: a read-ahead that is given up leaves its buffer locked.
NoSlotStaysLocked(t) ==
  LET c == call[t]
  IN  /\ At(t, "find")
      /\ FreeSlots(c.rw, c.bh) = {}
      /\ \/ c.ahead /\ call' = [call EXCEPT ![t] = Idle]
         \/ ~c.ahead /\ Goto(t, "full")
      /\ UNCHANGED <<request, list, buffers>>

\* It fails: a read-ahead is given up, anything else is going to sleep.
NoSlot(t) ==
  LET c == call[t]
  IN  /\ At(t, "find")
      /\ FreeSlots(c.rw, c.bh) = {}
      /\ \/ /\ c.ahead
            /\ b_lock' = [b_lock EXCEPT ![c.bh] = FALSE]
            /\ call' = [call EXCEPT ![t] = Idle]
         \/ ~c.ahead /\ Goto(t, "full") /\ UNCHANGED b_lock
      /\ UNCHANGED <<request, list, b_dirt, b_uptodate>>

\* sleep_on(&wait_for_request), without cli().
SleepOnRequest(t) ==
  /\ At(t, "full")
  /\ Goto(t, "asleep")
  /\ UNCHANGED <<request, list, buffers>>

\* ll_rw_page(): a request without a buffer head, for which the task waits.
ll_rw_page(t, rw, page) ==
  /\ At(t, "idle")
  /\ call' = [call EXCEPT ![t] = [at |-> "find", rw |-> rw, ahead |-> FALSE, pos |-> page, bh |-> NULL]]
  /\ UNCHANGED <<request, list, buffers>>

\* end_request(), from the interrupt that ends the request at the head: the
\* buffer is unlocked, the task that waits for a page and the tasks that wait
\* for a slot go on.
end_request(uptodate) ==
  /\ list # <<>>
  /\ LET r == request[Head(list)]
     IN  /\ b_uptodate' = [b \in Blocks |-> IF b = r.bh THEN uptodate ELSE b_uptodate[b]]
         /\ b_lock' = [b \in Blocks |-> b_lock[b] /\ b # r.bh]
         /\ call' = [t \in Tasks |->
                       IF t = r.waiting THEN Idle
                       ELSE IF At(t, "asleep") THEN [call[t] EXCEPT !.at = "find"]
                       ELSE call[t]]
  /\ request' = [request EXCEPT ![Head(list)] = NULL]
  /\ list' = Tail(list)
  /\ UNCHANGED b_dirt

\* The users of the cache: a buffer that is valid is modified, even while it
\* is being written, and one that is neither locked nor dirty is given to
\* another block.
Modify(b) ==
  /\ b_uptodate[b]
  /\ b_dirt' = [b_dirt EXCEPT ![b] = TRUE]
  /\ UNCHANGED <<request, list, b_lock, b_uptodate, call>>

Invalidate(b) ==
  /\ ~b_lock[b] /\ ~b_dirt[b]
  /\ b_uptodate' = [b_uptodate EXCEPT ![b] = FALSE]
  /\ UNCHANGED <<request, list, b_lock, b_dirt, call>>
-----------------------------------------------------------------------------
Kernel(t) == LockBuffer(t) \/ FindSlot(t) \/ NoSlot(t) \/ SleepOnRequest(t)

Next ==
  \/ \E t \in Tasks :
       \/ \E b \in Blocks, rw \in {READ, WRITE}, ahead \in BOOLEAN : ll_rw_block(t, rw, ahead, b)
       \/ \E page \in Pages, rw \in {READ, WRITE} : ll_rw_page(t, rw, page)
       \/ Kernel(t)
  \/ \E ok \in BOOLEAN : end_request(ok)
  \/ \E b \in Blocks : Modify(b) \/ Invalidate(b)

Spec == Init /\ [][Next]_vars

\* The drive finishes what it has started, well or not (HardDisk).
FairSpec == Spec /\ WF_vars(\E ok \in BOOLEAN : end_request(ok))
                 /\ \A t \in Tasks : WF_vars(Kernel(t))
-----------------------------------------------------------------------------
Queued == {list[i] : i \in DOMAIN list}

\* The list is never destroyed (the panics of INIT_REQUEST): it links every
\* busy slot once, and the buffer of a queued request is locked and has no
\* other request.
ListIntact ==
  /\ Queued = {s \in Slots : request[s] # NULL}
  /\ Len(list) = Cardinality(Queued)
  /\ \A s \in Queued : request[s].bh # NULL =>
       /\ b_lock[request[s].bh]
       /\ \A u \in Queued : request[u].bh = request[s].bh => u = s

\* A locked buffer is going to be unlocked: it has a request, or a task that
\* holds the lock is on its way to queue one.
LocksHaveOwners ==
  \A b \in Blocks :
    b_lock[b] <=> \/ \E s \in Queued : request[s].bh = b
                  \/ \E t \in Tasks : call[t].bh = b /\ call[t].at \in {"find", "full", "asleep"}

\* The head of the drive makes one sweep after the other: behind the request
\* being served the list rises, falls at most once, and rises again.
TwoSweeps ==
  Cardinality({i \in 1 .. Len(list) - 1 :
                 ~IN_ORDER(request[list[i]], request[list[i + 1]])}) <= 1

\* Every request for a buffer is served, although others are put before it
\* for ever.  (Not so while pages are swapped: those always go first.)
EveryRequestServed ==
  \A b \in Blocks :
    LET queued == \E s \in Queued : request[s].bh = b IN []<>~queued
-----------------------------------------------------------------------------
\* The comment at wait_for_request: it is used to wait when there are no free
\* requests.
SleepOnlyWhenFull ==
  \A t \in Tasks : At(t, "asleep") => FreeSlots(call[t].rw, call[t].bh) = {}
=============================================================================
