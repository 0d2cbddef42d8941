------------------------------ MODULE Process -------------------------------
(***************************************************************************)
(* fork.c, and do_exit(), release() and sys_waitpid() of exit.c: the table  *)
(* of tasks and the family tree.                                            *)
(*                                                                          *)
(* A task is named by its index in task[], for the pointer to its           *)
(* task_struct.  All tasks are of one session and one process group, and    *)
(* none is stopped, so that do_exit() has no job to hang up.  Kernel code   *)
(* runs to the next sleep without another task in between; it may sleep in  *)
(* get_free_page(), in copy_mem(), which needs pages too, in the            *)
(* sys_close() and iput() of do_exit(), and in sys_waitpid().               *)
(***************************************************************************)
EXTENDS Integers, FiniteSetsExt

CONSTANTS
  NR_TASKS,   \* slots of task[] (64)
  MaxPid,     \* last_pid wraps behind it (2^31 - 1)
  PageSleeps, \* may a fork begin while another one sleeps for its first page?
  NULL

VARIABLES task, last_pid

vars == <<task, last_pid>>

Slots == 0 .. NR_TASKS - 1
Ptr == Slots \cup {NULL}

\* Where a task is: in user mode, in fork before and after get_free_page(),
\* being made, closing its files, a zombie, or asleep in waitpid.  nr is the
\* slot its fork has found, want the argument of waitpid, and sigchld tells
\* whether SIGCHLD is pending.
Task == [pid : 0 .. MaxPid, at : {"user", "page", "mem", "new", "files", "zombie", "wait"},
         nr : Ptr, want : -1 .. MaxPid, sigchld : BOOLEAN,
         p_pptr : Ptr, p_cptr : Ptr, p_ysptr : Ptr, p_osptr : Ptr]

TypeOK == task \in [Slots -> Task \cup {NULL}] /\ last_pid \in 0 .. MaxPid

New(pid, parent) ==
  [pid |-> pid, at |-> "user", nr |-> NULL, want |-> -1, sigchld |-> FALSE,
   p_pptr |-> parent, p_cptr |-> NULL, p_ysptr |-> NULL, p_osptr |-> NULL]

\* task[0], which does nothing else after it, has made init, task[1].
Init ==
  /\ task = [i \in Slots |-> IF i = 0 THEN [New(0, NULL) EXCEPT !.p_cptr = 1]
                             ELSE IF i = 1 THEN New(1, 0) ELSE NULL]
  /\ last_pid = 1

InTable == {i \in Slots : task[i] # NULL}
At(p, l) == p # 0 /\ task[p] # NULL /\ task[p].at = l

\* The way back to user mode takes a SIGCHLD that nobody catches.
ToUser(t) == [t EXCEPT !.at = "user", !.sigchld = FALSE, !.nr = NULL, !.want = -1]
-----------------------------------------------------------------------------
\* The tasks from x on along the links next.
Along(next, x) ==
  LET walk[n \in 0 .. NR_TASKS] ==
        IF n = 0 THEN [q \in Ptr |-> {}]
        ELSE [q \in Ptr |-> IF q = NULL \/ task[q] = NULL THEN {} ELSE {q} \cup walk[n - 1][next[q]]]
  IN  walk[NR_TASKS][x]

\* The children of p as its links show them.
Children(p) == Along([q \in InTable |-> task[q].p_osptr], task[p].p_cptr)

\* The next pid that no task in the table has.
NextPid ==
  LET used == {task[p].pid : p \in InTable}
      Behind(n) == 1 + ((last_pid + n - 1) % MaxPid)
      n == Min({k \in 1 .. MaxPid : Behind(k) \notin used})
  IN  Behind(n)

\* find_empty_process(): a pid, and a slot unless there is none.
fork(p) ==
  LET free == Slots \ InTable
  IN  /\ At(p, "user")
      /\ PageSleeps \/ \A q \in InTable : task[q].at # "page"
      /\ last_pid' = NextPid
      /\ task' = IF free = {} THEN task
                 ELSE [task EXCEPT ![p].at = "page", ![p].nr = Min(free)]

\* copy_process(): the new task is in the table before it is complete, with
\* the links of its parent; or there is no page.
GetPage(p) ==
  LET t == task[p]
  IN  /\ At(p, "page")
      /\ \/ task' = [task EXCEPT ![t.nr] = [t EXCEPT !.pid = last_pid, !.at = "new", !.nr = NULL, !.sigchld = FALSE],
                                 ![p].at = "mem"]
         \/ task' = [task EXCEPT ![p] = ToUser(t)]
      /\ UNCHANGED last_pid

\* Its memory is copied, and it becomes the youngest child; or there is not
\* enough memory.
CopyMem(p) ==
  LET c == task[p].nr
      os == task[p].p_cptr
  IN  /\ At(p, "mem")
      /\ task' \in {[q \in Slots |->
                       IF q = c THEN [New(task[c].pid, p) EXCEPT !.p_osptr = os]
                       ELSE IF q = os THEN [task[q] EXCEPT !.p_ysptr = c]
                       ELSE IF q = p THEN [ToUser(task[p]) EXCEPT !.p_cptr = c]
                       ELSE task[q]],
                    [task EXCEPT ![c] = NULL, ![p] = ToUser(@)]}
      /\ UNCHANGED last_pid
-----------------------------------------------------------------------------
\* do_exit() begins; init never does it.
do_exit(p) ==
  /\ At(p, "user") /\ p # 1
  /\ task' = [task EXCEPT ![p].at = "files"]
  /\ UNCHANGED last_pid

\* p is a zombie, its parent is told, and init gets its children.
Orphaned(p, tell) ==
  LET kids == Children(p)
      eldest == CHOOSE k \in kids : task[k].p_osptr = NULL
  IN  [q \in Slots |->
        IF task[q] = NULL THEN NULL ELSE
        [task[q] EXCEPT
           !.at = IF q = p THEN "zombie" ELSE @,
           !.sigchld = @ \/ q = task[p].p_pptr
                         \/ (q = 1 /\ tell /\ \E k \in kids : task[k].at = "zombie"),
           !.p_pptr = IF q \in kids THEN 1 ELSE @,
           !.p_osptr = IF kids # {} /\ q = eldest THEN task[1].p_cptr ELSE @,
           !.p_ysptr = IF kids # {} /\ q = task[1].p_cptr THEN eldest ELSE @,
           !.p_cptr = IF q = p THEN NULL
                      ELSE IF q = 1 /\ kids # {} THEN task[p].p_cptr ELSE @]]

\* Mutant: init is not told of the zombies it gets.
ZombieUntold(p) ==
  /\ At(p, "files")
  /\ task' = Orphaned(p, FALSE)
  /\ UNCHANGED last_pid

\* do_exit() has closed the files and put back the directories.
Zombie(p) ==
  /\ At(p, "files")
  /\ task' = Orphaned(p, TRUE)
  /\ UNCHANGED last_pid

\* Mutant: the link of the older sibling is not changed.
ReleasedUnlinked(c, p) ==
  LET ys == task[c].p_ysptr
      os == task[c].p_osptr
  IN  [q \in Slots |->
         IF q = c THEN NULL
         ELSE IF q = ys THEN [task[q] EXCEPT !.p_osptr = os]
         ELSE IF q = p THEN [ToUser(task[p]) EXCEPT !.p_cptr = IF ys = NULL THEN os ELSE @]
         ELSE task[q]]

\* release() of the child c by its parent p, which returns from waitpid.
Released(c, p) ==
  LET ys == task[c].p_ysptr
      os == task[c].p_osptr
  IN  [q \in Slots |->
         IF q = c THEN NULL
         ELSE IF q = os THEN [task[q] EXCEPT !.p_ysptr = ys]
         ELSE IF q = ys THEN [task[q] EXCEPT !.p_osptr = os]
         ELSE IF q = p THEN [ToUser(task[p]) EXCEPT !.p_cptr = IF ys = NULL THEN os ELSE @]
         ELSE task[q]]

\* The children sys_waitpid() of p looks at.
Matching(p, want) == {c \in Children(p) : want \in {-1, task[c].pid}}

\* The loop of sys_waitpid(): the youngest zombie, or a sleep if there is a
\* child at all, or ECHILD.
Scan(p, want) ==
  LET zombies == {c \in Matching(p, want) : task[c].at = "zombie"}
      \* c comes before d in the list
      Younger(c, d) == c \in Along([q \in InTable |-> task[q].p_ysptr], d)
      c == CHOOSE z \in zombies : \A y \in zombies : Younger(z, y)
  IN  /\ task' = IF zombies # {} THEN Released(c, p)
                 ELSE [task EXCEPT ![p] = IF Matching(p, want) = {} THEN ToUser(@)
                                          ELSE [@ EXCEPT !.at = "wait", !.want = want]]
      /\ UNCHANGED last_pid

\* sys_waitpid() for a child, or for any.
waitpid(p) == At(p, "user") /\ \E want \in {-1} \cup {task[c].pid : c \in Children(p)} : Scan(p, want)

\* SIGCHLD ends the sleep, but is still pending behind it.
Wake(p) == At(p, "wait") /\ task[p].sigchld /\ Scan(p, task[p].want)

\* Another signal makes waitpid return.
Interrupt(p) ==
  /\ At(p, "wait")
  /\ task' = [task EXCEPT ![p] = ToUser(@)]
  /\ UNCHANGED last_pid

\* An interrupt returns to user mode.
Deliver(p) ==
  /\ At(p, "user") /\ task[p].sigchld
  /\ task' = [task EXCEPT ![p] = ToUser(@)]
  /\ UNCHANGED last_pid
-----------------------------------------------------------------------------
Step(p) == \/ fork(p) \/ GetPage(p) \/ CopyMem(p) \/ do_exit(p) \/ Zombie(p)
           \/ waitpid(p) \/ Wake(p) \/ Interrupt(p) \/ Deliver(p)

Next == \E p \in Slots : Step(p)

Spec == Init /\ [][Next]_vars
-----------------------------------------------------------------------------
\* The tasks that are more than a copy of their parent.
Whole == {p \in InTable : task[p].at # "new"}

\* What audit_ptree() looks for, and that each child is in its parent's list:
\* forks, exits in any order, adoption by init and release() leave every task
\* where waitpid finds it.  init has a child whenever do_exit() links others
\* behind it without a look.  And no two tasks have the same pid, although
\* fork sleeps between choosing it and using it.
TreeIntact ==
  /\ \A p, q \in InTable : p # q => task[p].pid # task[q].pid
  /\ \A p \in Whole :
       LET t == task[p]
       IN  /\ {t.p_pptr, t.p_cptr, t.p_ysptr, t.p_osptr} \subseteq (Whole \ {p}) \cup {NULL}
           /\ t.p_osptr # NULL => task[t.p_osptr].p_pptr = t.p_pptr /\ task[t.p_osptr].p_ysptr = p
           /\ t.p_ysptr # NULL => task[t.p_ysptr].p_pptr = t.p_pptr /\ task[t.p_ysptr].p_osptr = p
           /\ t.p_cptr # NULL => task[t.p_cptr].p_pptr = p /\ task[t.p_cptr].p_ysptr = NULL
           /\ Children(p) = {c \in Whole : task[c].p_pptr = p}
           /\ p \notin {0, 1} /\ t.p_cptr # NULL => task[1].p_cptr # NULL

\* Who sleeps in waitpid for a child that is a zombie is going to run: SIGCHLD
\* reaches the parent a child has when it dies, and init when it adopts one.
ZombiesAreAnnounced ==
  \A p \in InTable :
    /\ task[p].at = "wait"
    /\ \E c \in Matching(p, task[p].want) : task[c].at = "zombie"
    => task[p].sigchld
=============================================================================
