------------------------------ MODULE Terminal ------------------------------
(***************************************************************************)
(* tty_io.c and pty.c: one direction of a pseudo terminal.  Writers put     *)
(* characters into write_q of one end with tty_write(); pty_copy() moves    *)
(* them to read_q of the other end, copy_to_cooked() edits them there into  *)
(* secondary, and readers take them out with tty_read(), which pulls first. *)
(*                                                                          *)
(* The other direction has queues of its own and touches none of these as   *)
(* long as there is no echo, which tty_init() leaves off for both ends.  It  *)
(* also gives the modes: the master writes to a slave that edits lines and   *)
(* makes signals (lflag = "cooked"), the slave to a master that does not     *)
(* ("raw"); c_iflag and c_oflag are 0, so nothing is translated.             *)
(*                                                                          *)
(* No interrupt touches the queues of a pseudo terminal.  A task runs until *)
(* it sleeps, which put_fs_byte() and get_fs_byte() may do at every byte.    *)
(* A queue is the sequence of its characters.                               *)
(***************************************************************************)
EXTENDS Integers, FiniteSets, SequencesExt

CONSTANTS
  Readers, Writers,        \* tasks, disjoint
  TTY_BUF_SIZE,            \* (1024)
  ROOM,                    \* (128) what a writer that slept waits for
  Chars,                   \* what is typed in each mode: "nl", "eof", "kill",
                           \* "erase", "intr" and others
  Interrupted,             \* in each mode, who gets signals from elsewhere
  ReadCounts, WriteCounts  \* bounds: the counts of their calls, at least 1

VARIABLES
  write_q, stopped,           \* of the end that is written to
  read_q, secondary, data,    \* of the end that is read; data is secondary's
  lflag, VMIN,                \* its modes
  user                        \* the calls of the readers and writers

queues == <<write_q, read_q, secondary, data>>
vars == <<queues, stopped, lflag, VMIN, user>>

Users == Readers \cup Writers
LineEnds == {"nl", "eof"}
Cooked == lflag = "cooked"
FULL(q) == Len(q) = TTY_BUF_SIZE - 1
LEFT(q) == TTY_BUF_SIZE - 1 - Len(q)

\* PUTCH() does not look: the head that meets the tail makes the queue empty.
Put(c, q) == IF FULL(q) THEN << >> ELSE Append(q, c)

\* nr counts down and b counts up; c is the character in put_fs_byte();
\* early is set when a line is read before its end has come.
Calls == [at : {"idle", "again", "loop", "copy", "fetch", "asleep", "woken"},
          nr : Nat, b : Nat, c : Chars[lflag] \cup {"none"}, early : BOOLEAN, signal : BOOLEAN]
Idle == [at |-> "idle", nr |-> 0, b |-> 0, c |-> "none", early |-> FALSE, signal |-> FALSE]

TypeOK ==
  /\ \A q \in {write_q, read_q, secondary} :
       q \in Seq(Chars[lflag]) /\ Len(q) < TTY_BUF_SIZE
  /\ data \in Int /\ stopped \in BOOLEAN
  /\ lflag \in {"cooked", "raw"} /\ VMIN \in {0, 1} \cup ReadCounts
  /\ user \in [Users -> Calls]

\* tty_init(), with any VMIN that was set in raw mode; VTIME stays 0.
Init ==
  /\ write_q = << >> /\ read_q = << >> /\ secondary = << >> /\ data = 0
  /\ stopped = FALSE
  /\ \/ lflag = "cooked" /\ VMIN = 1
     \/ lflag = "raw" /\ VMIN \in {0, 1} \cup ReadCounts
  /\ user = [t \in Users |-> Idle]

At(t, l) == user[t].at = l

\* The kernel is not preempted: a reader that begins its next round has not
\* given up the processor.
Turn(t) == \A u \in Users \ {t} : ~At(u, "loop")
NobodyRuns == \A u \in Users : ~At(u, "loop")
-----------------------------------------------------------------------------
\* The queues as a record, w, r, s and d, with what happened to them: "intr"
\* when the interrupt character sent SIGINT to the group of the readers.
Queues == [w |-> write_q, r |-> read_q, s |-> secondary, d |-> data, intr |-> FALSE]

\* The secondary queue without the line that has not ended yet.
EndedLines(s) ==
  SubSeq(s, 1, Max({0} \cup {i \in DOMAIN s : s[i] \in LineEnds}))

\* Mutant: a line may be killed beyond its beginning.
CookAcrossLines(q, c) ==
  IF FULL(q.s) THEN [q EXCEPT !.r = Append(@, c)]
  ELSE IF Cooked /\ c = "kill" THEN [q EXCEPT !.s = << >>]
  ELSE [q EXCEPT !.s = Append(@, c), !.d = IF c \in LineEnds THEN @ + 1 ELSE @]

\* One character of copy_to_cooked(); those that find the queue full stay.
Cook(q, c) ==
  IF FULL(q.s) THEN [q EXCEPT !.r = Append(@, c)]
  ELSE IF Cooked /\ c = "kill" THEN [q EXCEPT !.s = EndedLines(@)]
  ELSE IF Cooked /\ c = "erase"
       THEN [q EXCEPT !.s = IF @ = EndedLines(@) THEN @ ELSE Front(@)]
  ELSE IF Cooked /\ c = "intr" THEN [q EXCEPT !.intr = TRUE]
  ELSE [q EXCEPT !.s = Append(@, c), !.d = IF c \in LineEnds THEN @ + 1 ELSE @]

copy_to_cooked(q) == FoldLeft(Cook, [q EXCEPT !.r = << >>], q.r)

\* Does task t have a signal pending, when the queues are q?
Signalled(t, q) == user[t].signal \/ (q.intr /\ t \in Readers)

\* One round of the loop of pty_copy() with the character c of write_q; one
\* that the loop does not reach stays.  halt: is the other end stopped?  by is
\* the current task, in a set, or {} for a program that only calls ioctl().
PtyRound(by, halt, q, c) ==
  LET cooked == IF FULL(q.r) /\ ~FULL(q.s) THEN copy_to_cooked(q) ELSE q
      leave == \/ halt \/ q.w # << >> \/ FULL(cooked.r)
               \/ q.moved /\ \E t \in by : Signalled(t, q)
  IN  IF leave THEN [q EXCEPT !.w = Append(@, c)]
      ELSE [cooked EXCEPT !.r = Append(@, c), !.moved = TRUE]

pty_copy(by, halt, q) ==
  LET start == [w |-> << >>, r |-> q.r, s |-> q.s, d |-> q.d, intr |-> FALSE, moved |-> FALSE]
  IN  copy_to_cooked(FoldLeft(LAMBDA x, c : PtyRound(by, halt, x, c), start, q.w))

\* The queues become those of q, and the call of t becomes c.
Settle(q) ==
  write_q' = q.w /\ read_q' = q.r /\ secondary' = q.s /\ data' = q.d

\* The calls of all tasks after wake_up() of both queues and the signal of q;
\* an idle task is in user mode, where it handles a signal at once.
Woken(q) ==
  [t \in Users |->
     IF At(t, "idle") THEN user[t]
     ELSE [user[t] EXCEPT !.at = IF @ = "asleep" THEN "woken" ELSE @,
                          !.signal = Signalled(t, q)]]
-----------------------------------------------------------------------------
\* sys_read() or sys_write() of n bytes by a task in the foreground.
Call(t, n) ==
  /\ NobodyRuns /\ At(t, "idle")
  /\ user' = [user EXCEPT ![t].at = "again", ![t].nr = n]
  /\ UNCHANGED <<queues, stopped, lflag, VMIN>>

\* A signal from elsewhere, which makes a sleeper runnable.
Signal(t) ==
  /\ NobodyRuns /\ ~At(t, "idle")
  /\ user' = [user EXCEPT ![t].at = IF @ = "asleep" THEN "woken" ELSE @, ![t].signal = TRUE]
  /\ UNCHANGED <<queues, stopped, lflag, VMIN>>

\* TCOOFF and TCOON of ioctl() for the writing end.
Stop(halt) ==
  LET q == pty_copy({}, halt, Queues)
  IN  /\ NobodyRuns
      /\ stopped' = halt
      /\ Settle(q) /\ user' = Woken(q)
      /\ UNCHANGED <<lflag, VMIN>>

\* TCFLSH of ioctl(), and the TCSETSF of the reading end.
Flush ==
  /\ NobodyRuns
  /\ \/ write_q' = << >> /\ UNCHANGED read_q
     \/ read_q' = << >> /\ UNCHANGED write_q
  /\ UNCHANGED <<secondary, data, stopped, lflag, VMIN, user>>
-----------------------------------------------------------------------------
\* tty_read() after its inner loop: another round if the minimum is not there.
Ended(u) ==
  LET minimum == IF Cooked \/ VMIN = 0 THEN u.nr + u.b ELSE Min({VMIN, u.nr + u.b})
  IN  IF Cooked \/ u.b >= minimum THEN Idle ELSE [u EXCEPT !.at = "loop", !.early = FALSE]

\* The inner loop takes a character out of q; put_fs_byte() comes next, except
\* after an end of file.
Getch(t, q, u) ==
  LET c == Head(q.s)
  IN  /\ Settle([q EXCEPT !.s = Tail(@), !.d = IF c \in LineEnds THEN @ - 1 ELSE @])
      /\ user' = [Woken(q) EXCEPT
                    ![t] = IF Cooked /\ c = "eof" THEN Ended(u)
                           ELSE [u EXCEPT !.at = "copy", !.c = c]]

\* tty_read: a round of the outer loop.  It pulls what the other end has
\* written, and returns, sleeps or takes the first character.
ReadLoop(t) ==
  LET q == pty_copy({t}, stopped, Queues)
      u == Woken(q)[t]
      nothing == q.s = << >> \/ (Cooked /\ ~FULL(q.r) /\ q.d = 0)
      timeout == Cooked \/ VMIN > 0
  IN  /\ Turn(t) /\ user[t].at \in {"again", "loop", "woken"}
      /\ \/ /\ nothing
            /\ Settle(q)
            /\ user' = [Woken(q) EXCEPT ![t] = IF u.signal \/ ~timeout THEN Idle
                                               ELSE [u EXCEPT !.at = "asleep"]]
         \/ /\ ~nothing
            /\ Getch(t, q, [u EXCEPT !.early = Cooked /\ q.d = 0])
      /\ UNCHANGED <<stopped, lflag, VMIN>>

\* tty_read: the character is stored; the next one, or the end of the loop.
ReadByte(t) ==
  LET u == [user[t] EXCEPT !.b = @ + 1, !.nr = @ - 1, !.c = "none"]
      over == u.nr = 0 \/ (Cooked /\ user[t].c = "nl") \/ secondary = << >>
  IN  /\ NobodyRuns /\ At(t, "copy")
      /\ \/ over /\ user' = [user EXCEPT ![t] = Ended(u)] /\ UNCHANGED queues
         \/ ~over /\ Getch(t, Queues, u)
      /\ UNCHANGED <<stopped, lflag, VMIN>>

\* tty_write: sleep_if_full(), whose loop a woken task is in, and the checks
\* up to get_fs_byte().
WriteLoop(t) ==
  LET full == IF At(t, "woken") THEN LEFT(write_q) < ROOM ELSE FULL(write_q)
  IN  /\ NobodyRuns /\ user[t].at \in {"again", "woken"}
      /\ user' = [user EXCEPT ![t] = IF @.signal THEN Idle
                                     ELSE [@ EXCEPT !.at = IF full THEN "asleep" ELSE "fetch"]]
      /\ UNCHANGED <<queues, stopped, lflag, VMIN>>

\* tty_write: the character is there.  After the last one, or with the queue
\* full, it calls tty->write(), and schedule() if there are more.
WriteByte(t) ==
  /\ NobodyRuns /\ At(t, "fetch")
  /\ \E c \in Chars[lflag] :
       LET nr == user[t].nr - 1
           put == [Queues EXCEPT !.w = Put(c, @)]
           more == nr > 0 /\ ~FULL(put.w)
           q == IF more THEN put ELSE pty_copy({t}, stopped, put)
       IN  /\ Settle(q)
           /\ user' = [(IF more THEN user ELSE Woken(q)) EXCEPT
                         ![t] = IF nr = 0 THEN Idle
                                ELSE [@ EXCEPT !.nr = nr, !.at = IF more THEN @ ELSE "again"]]
  /\ UNCHANGED <<stopped, lflag, VMIN>>
-----------------------------------------------------------------------------
Next ==
  \/ \E t \in Readers, n \in ReadCounts : Call(t, n)
  \/ \E t \in Writers, n \in WriteCounts : Call(t, n)
  \/ \E t \in Interrupted[lflag] : Signal(t)
  \/ \E halt \in BOOLEAN : Stop(halt)
  \/ Flush
  \/ \E t \in Readers : ReadLoop(t) \/ ReadByte(t)
  \/ \E t \in Writers : WriteLoop(t) \/ WriteByte(t)

Spec == Init /\ [][Next]_vars
-----------------------------------------------------------------------------
\* secondary->data is the number of lines that have ended in the queue,
\* whatever is edited away, taken in the middle of a line or left behind by a
\* queue that is full.
LinesCounted == data = Cardinality({i \in DOMAIN secondary : secondary[i] \in LineEnds})

\* A reader that has begun a line finds the rest of it, although the line
\* behind it is edited and killed while it sleeps in put_fs_byte().  (A line
\* longer than the queues is read early.)
ReaderKeepsItsLine ==
  \A t \in Readers :
    Cooked /\ At(t, "copy") /\ user[t].c # "nl" /\ ~user[t].early => data > 0

\* When nobody runs, a reader sleeps because there is no line for it anywhere,
\* also not in front of the edited queue, and a writer only while no reader
\* sleeps: the two never wait for each other, although each is woken by the
\* calls of the other only.
SleepersHaveReason ==
  (\A t \in Users : user[t].at \in {"idle", "asleep"}) =>
    \A t \in Users : At(t, "asleep") =>
      IF t \in Readers
      THEN /\ secondary = << >> \/ (Cooked /\ data = 0 /\ ~FULL(read_q))
           /\ stopped \/ write_q = << >>
      ELSE stopped \/ \A r \in Readers : ~At(r, "asleep")

\* What is typed is delivered as lines, and delivered.
LinesGetThrough == LinesCounted /\ ReaderKeepsItsLine /\ SleepersHaveReason
=============================================================================
