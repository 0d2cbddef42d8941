------------------------------ MODULE MCTables ------------------------------
(* Six tables of the kernel - inodes, tasks, timers, pages, wait tables, the *)
(* queues of a terminal - and that of the chat server, each on its own: a    *)
(* behaviour is one of the table that its first state chooses, and the       *)
(* others stay as they are.                                                  *)
(*                                                                           *)
(* Two tasks share two inodes for three files; five slots are enough for     *)
(* init to adopt two siblings; two places for four connections; three        *)
(* timers; two address spaces of a page of the file and one of data, in      *)
(* two pages of memory and two of the swap device; two tasks that select a   *)
(* pipe and a terminal; queues of two characters, a writer and a reader.     *)
EXTENDS Inode

CONSTANTS
  NR_TASKS, MaxPid, PageSleeps,
  MAX_LINK_NUM, Clients,
  TIME_REQUESTS, MaxTime, MaxLate,
  Spaces, FilePages, DataPages, NrPages, NrSwap,
  Selectors, pipe, tty,
  reader, writer, TTY_BUF_SIZE, ROOM, ReadCounts, WriteCounts

ASSUME ServerAssumption == MAX_LINK_NUM \in Nat \ {0} /\ Clients \subseteq Nat
ASSUME PageAssumption ==
  /\ IsFiniteSet(Spaces) /\ Spaces # {} /\ NULL \notin Spaces
  /\ IsFiniteSet(FilePages) /\ IsFiniteSet(DataPages) /\ NULL \notin FilePages \cup DataPages
  /\ {NrPages, NrSwap} \subseteq Nat
ASSUME TimerAssumption == {TIME_REQUESTS, MaxTime, MaxLate} \subseteq Nat

VARIABLES
  task, last_pid,
  client_sockfd, listening, mutex, main, thread, conn,
  timers, calling, enabled,
  entry, mem_map, swap_bitmap, used, cpu, io, fault, page, swap, mine,
  ready, queue, select,
  write_q, stopped, read_q, secondary, data, lflag, VMIN, user,
  table

P == INSTANCE Process
S == INSTANCE SocketServer
T == INSTANCE Timers
M == INSTANCE Memory WITH Tasks <- Spaces, call <- fault
L == INSTANCE Select WITH
       Tasks <- Selectors, Pipes <- {pipe}, Ttys <- {tty},
       Descriptors <- {<<pipe, "in">>, <<pipe, "ex">>, <<tty, "in">>}
Y == INSTANCE Terminal WITH
       Readers <- {reader}, Writers <- {writer},
       Chars <- [cooked |-> {"x", "nl", "kill"}, raw |-> {"nl"}],
       Interrupted <- [cooked |-> {writer}, raw |-> {reader, writer}]

\* There is room for init, and a pid for every task and for one more.
ASSUME TaskAssumption ==
  /\ NR_TASKS \in Nat /\ MaxPid \in Nat /\ NR_TASKS > 1 /\ MaxPid >= NR_TASKS
  /\ NULL \notin P!Slots /\ NULL \notin P!Task /\ PageSleeps \in BOOLEAN

pvars == <<task, last_pid>>
svars == <<client_sockfd, listening, mutex, main, thread, conn>>
tvars == <<timers, calling, enabled>>
mvars == <<entry, mem_map, swap_bitmap, used, cpu, io, fault, page, swap, mine>>
lvars == <<ready, queue, select>>
yvars == <<write_q, stopped, read_q, secondary, data, lflag, VMIN, user>>

TablesInit ==
  /\ Init /\ P!Init /\ S!Init /\ T!Init /\ M!Init /\ L!Init /\ Y!Init
  /\ table \in {"inodes", "tasks", "connections", "timers", "pages", "waits", "lines"}
  /\ lflag = "raw" => table = "lines"

\* Only the table t is used.
Only(t) ==
  /\ table = t /\ UNCHANGED table
  /\ t # "inodes" => UNCHANGED vars
  /\ t # "tasks" => UNCHANGED pvars
  /\ t # "connections" => UNCHANGED svars
  /\ t # "timers" => UNCHANGED tvars
  /\ t # "pages" => UNCHANGED mvars
  /\ t # "waits" => UNCHANGED lvars
  /\ t # "lines" => UNCHANGED yvars

TablesNext ==
  \/ Only("inodes") /\ Next
  \/ Only("tasks") /\ P!Next
  \/ Only("connections") /\ S!Next
  \/ Only("timers") /\ T!Next
  \/ Only("pages") /\ M!Next
  \/ Only("waits") /\ L!Next
  \/ Only("lines") /\ Y!Next

TablesSpec == TablesInit /\ [][TablesNext]_<<vars, pvars, svars, tvars, mvars, lvars, yvars, table>>
-----------------------------------------------------------------------------
\* The types of all the tables.
TablesTypeOK ==
  /\ table = "inodes" => TypeOK
  /\ table = "tasks" => P!TypeOK
  /\ table = "connections" => S!TypeOK
  /\ table = "timers" => T!TypeOK
  /\ table = "pages" => M!TypeOK
  /\ table = "waits" => L!TypeOK
  /\ table = "lines" => Y!TypeOK

\* fork(), do_exit() and release() keep the family tree and the pids (Process).
TreeIntact == table = "tasks" => P!TreeIntact

\* Nobody sleeps in waitpid beside a zombie without SIGCHLD (Process).
ZombiesAreAnnounced == table = "tasks" => P!ZombiesAreAnnounced

\* A connection is served and closed by its own thread alone (SocketServer).
ServedByOne == table = "connections" => S!ServedByOne

\* No timer fires before its time (Timers).
NeverEarly == table = "timers" => T!NeverEarly

\* No page is freed twice or lost, in memory or swap (Memory).
PagesCounted == table = "pages" => M!PagesCounted

\* A task finds in its pages what it has written (Memory).
ContentsSurvive == table = "pages" => M!ContentsSurvive

\* No waiter of select() is cut off from a queue or left behind (Select).
SelectorsReached == table = "waits" => L!SelectorsReached

\* Lines are counted and kept whole, and nobody sleeps beside one (Terminal).
LinesGetThrough == table = "lines" => Y!LinesGetThrough
=============================================================================
