------------------------------ MODULE HardDisk ------------------------------
(***************************************************************************)
(* hd.c under the request queue of ll_rw_blk.c: the driver traverses the    *)
(* list with interrupts, one per sector, retries what fails, resets and     *)
(* recalibrates the controller, and gives up after MAX_ERRORS.              *)
(*                                                                          *)
(* Driver code runs in two contexts.  "intr" is an interrupt of the disk or *)
(* of the timer: interrupts are off and nothing else of the CPU runs.       *)
(* "task" is the task whose request found the list empty: add_request()     *)
(* calls do_hd_request() after sti(), so that interrupts come between its   *)
(* steps, but no other task runs.  Only the controller moves while the CPU  *)
(* does.                                                                    *)
(*                                                                          *)
(* Reading the status register takes back the interrupt that the controller *)
(* requests.  The timer runs out in 200 ticks, longer than do_hd_request()  *)
(* takes.                                                                   *)
(***************************************************************************)
EXTENDS RequestQueue

CONSTANTS
  NR_HD,         \* drives (1 or 2)
  MAX_ERRORS,    \* 7
  BlockSectors,  \* sectors of a block (2)
  PageSectors,   \* sectors of a page (8)
  LastPos,       \* the position at the end of its partition, or NULL
  Faults         \* what may go wrong

ASSUME DiskAssumption ==
  /\ {NR_HD, MAX_ERRORS, BlockSectors, PageSectors} \subseteq Nat \ {0}
  /\ Faults \subseteq {"error", "specify", "refused", "lost", "late", "drq"}

VARIABLES
  errors, nr_sectors,  \* of CURRENT
  moved,               \* history: the sectors of CURRENT that were transferred
  do_hd,               \* the handler of the next interrupt, by its command
  hd_timeout,          \* whether the timer of the disk runs
  reset, recalibrate,
  drive,               \* the static i of reset_hd()
  ctl,                 \* the controller
  irq,                 \* it requests an interrupt
  pc                   \* where the two contexts are

current == <<errors, nr_sectors, moved>>
flags == <<reset, recalibrate, drive>>
handler == <<do_hd, hd_timeout>>
hdVars == <<vars, current, flags, handler, ctl, irq, pc>>

Contexts == {"task", "intr"}
Ops == {"read", "write", "restore", "specify"}
ASSUME HandlerAssumption == NULL \notin Ops
Sectors(r) == IF r.bh = NULL THEN PageSectors ELSE BlockSectors
MaxSectors == Max({BlockSectors, PageSectors})

\* A command: the sector it is at, how many are left, and (history) whether
\* it is for the request that is CURRENT.
Command == [op : Ops \cup {NULL}, sec : 0 .. MaxSectors, left : 0 .. MaxSectors, real : BOOLEAN]
NoCommand == [op |-> NULL, sec |-> 0, left |-> 0, real |-> FALSE]
Other(op) == [NoCommand EXCEPT !.op = op]

\* Where a context is: not in the driver, in do_hd_request(), in reset_hd(),
\* in hd_out() before SET_INTR and before the command, in the wait for DRQ,
\* at end_request(1), or beyond a CURRENT that is NULL.
Pc == [at : {"none", "request", "reset", "out", "cmd", "data", "end", "crash"}, cmd : Command]
Nowhere == [at |-> "none", cmd |-> NoCommand]

HdTypeOK ==
  /\ TypeOK
  /\ errors \in 0 .. MAX_ERRORS - 1
  /\ nr_sectors \in 0 .. MaxSectors /\ moved \subseteq 0 .. MaxSectors - 1
  /\ do_hd \in Ops \cup {NULL} /\ hd_timeout \in BOOLEAN
  /\ {reset, recalibrate, irq} \subseteq BOOLEAN
  /\ drive \in 0 .. NR_HD
  /\ ctl \in [cmd : Command, st : {"ready", "start", "busy", "drq", "error"}]
  /\ pc \in [Contexts -> Pc]

HdInit ==
  /\ Init
  /\ errors = 0 /\ nr_sectors = 0 /\ moved = {}
  /\ do_hd = NULL /\ hd_timeout = FALSE
  /\ reset = FALSE /\ recalibrate = FALSE /\ drive = 0
  /\ ctl = [cmd |-> NoCommand, st |-> "ready"] /\ irq = FALSE
  /\ pc = [c \in Contexts |-> Nowhere]

CURRENT == request[Head(list)]
Sector == Sectors(CURRENT) - nr_sectors     \* CURRENT->sector and ->buffer
PcAt(c, l) == pc[c].at = l /\ (c = "task" => pc["intr"].at = "none")
Go(c, l, cmd) == pc' = [pc EXCEPT ![c] = [at |-> l, cmd |-> cmd]]
Crash(c) == Go(c, "crash", NoCommand) /\ UNCHANGED <<vars, current, reset, ctl>>

\* A head that comes to the front has all its sectors left, and no command in
\* progress is for it.
NewHead ==
  /\ errors' = 0
  /\ nr_sectors' = IF list' = <<>> THEN 0 ELSE Sectors(request'[Head(list')])
  /\ moved' = {}
-----------------------------------------------------------------------------
\* The controller.  A drive that is to be written asks for the first sector
\* without an interrupt; then each sector that was written, or can be read,
\* is an interrupt, and so is an error.

Busy == ctl.st \in {"start", "busy"}

\* Mutant: win_result() only looks at BUSY.
win_result_idle == ~Busy

\* win_result(): ready, and no error.
win_result_ok == ctl.st \in {"ready", "drq"}

Started(cmd) == [cmd |-> cmd, st |-> IF cmd.op = "write" THEN "start" ELSE "busy"]
NextSector == [ctl.cmd EXCEPT !.sec = @ + 1, !.left = @ - 1]

Requests == irq' \in {TRUE} \cup (IF "lost" \in Faults THEN {FALSE} ELSE {})

AskForSector ==
  /\ ctl.st = "start"
  /\ ctl' = [ctl EXCEPT !.st = "drq"]
  /\ UNCHANGED <<irq, moved>>

SectorWritten ==
  /\ ctl.st = "busy" /\ ctl.cmd.op = "write"
  /\ moved' = IF ctl.cmd.real THEN moved \cup {ctl.cmd.sec} ELSE moved
  /\ ctl' = [cmd |-> NextSector, st |-> IF ctl.cmd.left > 1 THEN "drq" ELSE "ready"]
  /\ Requests

CommandDone ==
  /\ ctl.st = "busy" /\ ctl.cmd.op # "write"
  /\ ctl' = [ctl EXCEPT !.st = IF ctl.cmd.op = "read" THEN "drq" ELSE "ready"]
  /\ UNCHANGED moved
  /\ Requests

CommandFails ==
  /\ Busy
  /\ (IF ctl.st = "start" THEN "refused" ELSE IF ctl.cmd.op = "specify" THEN "specify" ELSE "error")
       \in Faults
  /\ ctl' = [ctl EXCEPT !.st = "error"]
  /\ UNCHANGED moved
  /\ Requests

Controller ==
  /\ AskForSector \/ SectorWritten \/ CommandDone \/ CommandFails
  /\ UNCHANGED <<vars, errors, nr_sectors, flags, handler, pc>>
-----------------------------------------------------------------------------
\* end_request(); other commands on their way are no longer for CURRENT.
EndRequest(c, uptodate, next) ==
  /\ end_request(uptodate)
  /\ NewHead
  /\ ctl' = [ctl EXCEPT !.cmd.real = FALSE]
  /\ pc' = [x \in Contexts |-> IF x = c THEN [at |-> next, cmd |-> NoCommand]
                               ELSE [pc[x] EXCEPT !.cmd.real = FALSE]]

\* ++CURRENT->errors, which ends the request when there are too many.
CountError(c, next) ==
  \/ /\ errors + 1 >= MAX_ERRORS
     /\ EndRequest(c, FALSE, next)
  \/ /\ errors + 1 < MAX_ERRORS
     /\ errors' = errors + 1
     /\ Go(c, next, NoCommand)
     /\ UNCHANGED <<vars, nr_sectors, moved, ctl>>

\* bad_rw_intr(): the errors that are compared are those of the next request
\* if this one has ended, which are none, or what is at address 8 if there is
\* none: an entry of the page directory, and a large number.
bad_rw_intr(c, next) ==
  \/ list = <<>> /\ Crash(c)
  \/ /\ list # <<>>
     /\ CountError(c, next)
     /\ reset' = (reset \/ list' = <<>> \/ errors' > MAX_ERRORS \div 2)

\* do_hd_request() up to hd_out() or reset_hd(): nothing to do, the end of the
\* partition is near, or a command.
do_hd_request(c) ==
  /\ PcAt(c, "request")
  /\ \/ /\ list = <<>>
        /\ do_hd' = NULL /\ hd_timeout' = FALSE
        /\ pc' = [pc EXCEPT ![c] = Nowhere]
        /\ UNCHANGED <<vars, current, recalibrate, ctl>>
     \/ /\ list # <<>> /\ CURRENT.pos = LastPos /\ nr_sectors < 2
        /\ EndRequest(c, FALSE, "request")
        /\ UNCHANGED <<handler, recalibrate>>
     \/ /\ list # <<>> /\ ~(CURRENT.pos = LastPos /\ nr_sectors < 2)
        /\ IF reset THEN recalibrate' = TRUE /\ Go(c, "reset", NoCommand)
           ELSE IF recalibrate THEN recalibrate' = FALSE /\ Go(c, "out", Other("restore"))
           ELSE /\ Go(c, "out", [op |-> IF CURRENT.cmd = READ THEN "read" ELSE "write",
                                 sec |-> Sector, left |-> nr_sectors, real |-> TRUE])
                /\ UNCHANGED recalibrate
        /\ UNCHANGED <<vars, current, handler, ctl>>
  /\ UNCHANGED <<reset, drive, irq>>

\* reset_hd(), without its check of the last result: the controller is reset,
\* then every drive is specified.
reset_hd(c) ==
  /\ PcAt(c, "reset")
  /\ reset' = FALSE
  /\ IF reset THEN ctl' = [cmd |-> NoCommand, st |-> "ready"] /\ irq' = FALSE
     ELSE UNCHANGED <<ctl, irq>>
  /\ LET i == IF reset THEN 0 ELSE drive + 1
     IN  /\ drive' = i
         /\ IF i < NR_HD THEN Go(c, "out", Other("specify")) ELSE Go(c, "request", NoCommand)
  /\ UNCHANGED <<vars, current, recalibrate, handler>>

\* Mutant: the handler is set without the timer.
HdOutUntimed(c) ==
  /\ PcAt(c, "out")
  /\ ~Busy
  /\ irq' = FALSE
  /\ do_hd' = pc[c].cmd.op
  /\ Go(c, "cmd", pc[c].cmd)
  /\ UNCHANGED <<vars, current, flags, ctl, hd_timeout>>

\* hd_out(): controller_ready(), SET_INTR, ...
HdOut(c) ==
  /\ PcAt(c, "out")
  /\ ~Busy
  /\ irq' = FALSE
  /\ do_hd' = pc[c].cmd.op /\ hd_timeout' = TRUE
  /\ Go(c, "cmd", pc[c].cmd)
  /\ UNCHANGED <<vars, current, flags, ctl>>

\* ... and the command.
HdCmd(c) ==
  /\ PcAt(c, "cmd")
  /\ ctl' = Started(pc[c].cmd)
  /\ pc' = [pc EXCEPT ![c] = IF pc[c].cmd.op = "write" THEN [@ EXCEPT !.at = "data"] ELSE Nowhere]
  /\ UNCHANGED <<vars, current, flags, handler, irq>>

\* port_write(): the wrong data, if the command is at another sector.
PortWrite ==
  ctl' = [cmd |-> [ctl.cmd EXCEPT !.real = @ /\ ctl.cmd.sec = Sector], st |-> "busy"]

\* The wait for DRQ in do_hd_request().
HdData(c) ==
  /\ PcAt(c, "data")
  /\ irq' = FALSE
  /\ \/ ctl.st = "drq" /\ list = <<>> /\ Crash(c)
     \/ /\ ctl.st = "drq" /\ list # <<>>
        /\ PortWrite
        /\ pc' = [pc EXCEPT ![c] = Nowhere]
        /\ UNCHANGED <<vars, current, reset>>
     \/ /\ ctl.st \in {"ready", "error"} \/ (Busy /\ "drq" \in Faults)
        /\ bad_rw_intr(c, "request")
  /\ UNCHANGED <<recalibrate, drive, handler>>
-----------------------------------------------------------------------------
\* read_intr(): a status that is good without DRQ is taken for a sector too.
read_intr ==
  \/ list = <<>> /\ Crash("intr") /\ do_hd' = NULL /\ hd_timeout' = FALSE
  \/ /\ list # <<>>
     /\ errors' = 0
     /\ nr_sectors' = nr_sectors - 1
     /\ moved' = IF ctl.st = "drq" /\ ctl.cmd.op = "read" /\ ctl.cmd.real /\ ctl.cmd.sec = Sector
                 THEN moved \cup {Sector} ELSE moved
     /\ ctl' = IF ctl.st = "drq"
               THEN [cmd |-> NextSector, st |-> IF ctl.cmd.left > 1 THEN "busy" ELSE "ready"]
               ELSE ctl
     /\ \/ nr_sectors > 1 /\ do_hd' = "read" /\ hd_timeout' = TRUE /\ UNCHANGED pc
        \/ nr_sectors = 1 /\ do_hd' = NULL /\ hd_timeout' = FALSE /\ Go("intr", "end", NoCommand)
     /\ UNCHANGED <<vars, reset>>

\* write_intr(): the errors of the sector before count for the next one.
write_intr ==
  \/ list = <<>> /\ Crash("intr") /\ do_hd' = NULL /\ hd_timeout' = FALSE
  \/ /\ list # <<>>
     /\ nr_sectors' = nr_sectors - 1
     /\ \/ /\ nr_sectors > 1
           /\ do_hd' = "write" /\ hd_timeout' = TRUE
           /\ IF ctl.st = "drq"
              THEN ctl' = [cmd |-> [ctl.cmd EXCEPT !.real = @ /\ ctl.cmd.sec = Sector + 1], st |-> "busy"]
              ELSE UNCHANGED ctl
           /\ UNCHANGED pc
        \/ /\ nr_sectors = 1
           /\ do_hd' = NULL /\ hd_timeout' = FALSE
           /\ Go("intr", "end", NoCommand)
           /\ UNCHANGED ctl
     /\ UNCHANGED <<vars, errors, moved, reset>>

\* hd_interrupt takes the handler and stops the timer.  Without a handler it
\* was not expected, and the controller is reset.
HdInterrupt ==
  /\ irq /\ pc["intr"].at = "none"
  /\ irq' = FALSE
  /\ \/ /\ do_hd = NULL
        /\ reset' = TRUE
        /\ Go("intr", "request", NoCommand)
        /\ UNCHANGED <<vars, current, ctl>>
     \/ /\ do_hd \in {"read", "write", "restore"} /\ ~win_result_ok
        /\ bad_rw_intr("intr", "request")
     \/ /\ do_hd = "restore" /\ win_result_ok
        /\ Go("intr", "request", NoCommand)
        /\ UNCHANGED <<vars, current, reset, ctl>>
     \/ /\ do_hd = "specify" /\ (reset \/ win_result_ok)
        /\ Go("intr", "reset", NoCommand)
        /\ UNCHANGED <<vars, current, reset, ctl>>
     \/ /\ do_hd = "specify" /\ ~(reset \/ win_result_ok)
        /\ bad_rw_intr("intr", "reset")
     \/ do_hd = "read" /\ win_result_ok /\ read_intr
     \/ do_hd = "write" /\ win_result_ok /\ write_intr
  /\ IF do_hd \in {"read", "write"} /\ win_result_ok THEN TRUE
     ELSE do_hd' = NULL /\ hd_timeout' = FALSE
  /\ UNCHANGED <<recalibrate, drive>>

\* The end of a request that was transferred.
HdEnd(c) ==
  /\ PcAt(c, "end")
  /\ EndRequest(c, TRUE, "request")
  /\ UNCHANGED <<flags, handler, irq>>

\* do_timer() counts hd_timeout down: the answer was lost, or is late.
hd_times_out ==
  /\ hd_timeout /\ \A c \in Contexts : pc[c].at = "none"
  /\ (~Busy /\ ~irq) \/ "late" \in Faults
  /\ \/ /\ list = <<>>
        /\ hd_timeout' = FALSE
        /\ UNCHANGED <<vars, current, reset, ctl, pc, do_hd>>
     \/ /\ list # <<>>
        /\ do_hd' = NULL
        /\ hd_timeout' = TRUE
        /\ reset' = TRUE
        /\ CountError("intr", "request")
  /\ UNCHANGED <<recalibrate, drive, irq>>
-----------------------------------------------------------------------------
Driver(c) == do_hd_request(c) \/ reset_hd(c) \/ HdOut(c) \/ HdCmd(c) \/ HdData(c) \/ HdEnd(c)

\* The tasks of RequestQueue run when no driver code does; a request that is
\* put into an empty list makes its task call do_hd_request().
TaskStep(A) ==
  /\ A
  /\ \A c \in Contexts : pc[c].at = "none"
  /\ IF list = <<>> /\ list' # <<>>
     THEN NewHead /\ Go("task", "request", NoCommand)
     ELSE UNCHANGED <<current, pc>>
  /\ UNCHANGED <<flags, handler, ctl, irq>>

HdNext ==
  \/ \E t \in Tasks :
       \/ \E b \in Blocks, rw \in {READ, WRITE}, ahead \in BOOLEAN :
            TaskStep(ll_rw_block(t, rw, ahead, b))
       \/ \E page \in Pages, rw \in {READ, WRITE} : TaskStep(ll_rw_page(t, rw, page))
       \/ TaskStep(Kernel(t))
  \/ \E b \in Blocks : TaskStep(Modify(b)) \/ TaskStep(Invalidate(b))
  \/ \E c \in Contexts : Driver(c)
  \/ HdInterrupt \/ hd_times_out \/ Controller

HdSpec == HdInit /\ [][HdNext]_hdVars

\* The CPU goes on, interrupts are taken, the timer ticks, the controller
\* comes to an end with every command.
HdFairSpec ==
  /\ HdSpec
  /\ \A c \in Contexts : WF_hdVars(Driver(c))
  /\ WF_hdVars(HdInterrupt) /\ WF_hdVars(hd_times_out) /\ WF_hdVars(Controller)
-----------------------------------------------------------------------------
\* Every sector the driver counts off was transferred, in spite of retries,
\* resets and lost interrupts, so that a buffer that becomes valid holds its
\* block; and no handler runs when there is no request (CURRENT is NULL).
TransfersAreReal ==
  /\ list # <<>> => 0 .. Sector - 1 \subseteq moved
  /\ \A c \in Contexts : pc[c].at # "crash"

\* Every request that is being served comes to an end, transferred or given
\* up: the errors are counted, and the timer is there for what is lost.
EveryRequestEnds ==
  \A s \in Slots : LET busy == list # <<>> /\ Head(list) = s IN []<>~busy
=============================================================================
