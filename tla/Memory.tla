------------------------------- MODULE Memory -------------------------------
(***************************************************************************)
(* memory.c and swap.c: the pages of the tasks, which are loaded, shared,   *)
(* copied when they are written, swapped out and in.                        *)
(*                                                                          *)
(* Kernel code runs to the next sleep without another task in between: cpu  *)
(* is the task that is in the middle of it.  It sleeps for the reads and    *)
(* writes of pages in the swap device, which are served in order, as        *)
(* add_request() promises, and for the blocks of a file.                    *)
(*                                                                          *)
(* All tasks execute the same file.  The tables of page entries exist, and  *)
(* the pages they lie in are not counted.                                   *)
(***************************************************************************)
EXTENDS Naturals, Sequences, FiniteSetsExt

CONSTANTS
  Tasks,      \* address spaces
  FilePages,  \* virtual pages of the executable file ...
  DataPages,  \* ... and others
  NrPages,    \* physical pages
  NrSwap,     \* pages of the swap device
  Overlaps,   \* what may overlap although the code does nothing about it:
              \* the entry that un_wp_page() is going to change is swapped out
              \* ("unshare"), or the copy that it has made ("copy")
  NULL

VARIABLES
  entry,      \* the page tables
  mem_map,    \* references of each page
  swap_bitmap,\* the free pages of the swap device
  used,       \* the tasks there are
  cpu, io,    \* the task in the kernel; the tasks that wait for the swap device
  call,       \* where each task is
  page, swap, \* is the content what was loaded, or has it been modified?
  mine        \* history: the pages each task, or its parent before, has modified

vars == <<entry, mem_map, swap_bitmap, used, cpu, io, call, page, swap, mine>>
contents == <<page, swap, mine>>

Virtual == FilePages \cup DataPages
Entries == Tasks \X Virtual
Frames == 1 .. NrPages

\* Not present, in memory, or in the swap device.
Entry == [frame : Frames \cup {0}, nr : 0 .. NrSwap, rw : BOOLEAN, dirty : BOOLEAN]
Zero == [frame |-> 0, nr |-> 0, rw |-> FALSE, dirty |-> FALSE]
Present(f, dirty) == [frame |-> f, nr |-> 0, rw |-> TRUE, dirty |-> dirty]
Swapped(n) == [Zero EXCEPT !.nr = n]

\* What a task does: nothing, do_no_page() with swap_in(), with a file and
\* without, un_wp_page(), or copy_page_tables() for a child; and where: before
\* get_free_page(), in and behind write_swap_page() of frame and nr, with its
\* page new, in and behind read_swap_page(), in bread_page(), in the loop of
\* copy_page_tables() before the pages todo.
Call == [op : {"none", "in", "load", "empty", "unshare", "fork"},
         at : {"user", "get", "write", "written", "got", "read", "done", "load", "copy"},
         v : Virtual \cup {NULL}, new : Frames \cup {0}, frame : Frames \cup {0}, nr : 0 .. NrSwap,
         child : Tasks \cup {NULL}, todo : SUBSET Virtual]
User == [op |-> "none", at |-> "user", v |-> NULL, new |-> 0, frame |-> 0, nr |-> 0,
         child |-> NULL, todo |-> {}]

TypeOK ==
  /\ entry \in [Tasks -> [Virtual -> Entry]]
  /\ mem_map \in [Frames -> Nat] /\ swap_bitmap \subseteq 1 .. NrSwap
  /\ used \subseteq Tasks /\ cpu \in Tasks \cup {NULL}
  /\ \A i \in DOMAIN io : io[i] \in Tasks
  /\ call \in [Tasks -> Call]
  /\ page \in [Frames -> BOOLEAN] /\ swap \in [1 .. NrSwap -> BOOLEAN]
  /\ mine \in [Tasks -> SUBSET Virtual]

\* One task, with nothing loaded.
Init ==
  /\ entry = [t \in Tasks |-> [v \in Virtual |-> Zero]]
  /\ mem_map = [f \in Frames |-> 0] /\ swap_bitmap = 1 .. NrSwap
  /\ used = {CHOOSE t \in Tasks : TRUE}
  /\ cpu = NULL /\ io = << >>
  /\ call = [t \in Tasks |-> User]
  /\ page = [f \in Frames |-> FALSE] /\ swap = [n \in 1 .. NrSwap |-> FALSE]
  /\ mine = [t \in Tasks |-> {}]

At(t, l) == call[t].at = l /\ cpu \in {NULL, t}
InUser(t) == t \in used /\ At(t, "user") /\ cpu = NULL
Mine(t) == entry[t][call[t].v]

\* t sleeps or returns to user mode, or goes on; c is what it does then.
Leave(t, c) == call' = [call EXCEPT ![t] = c] /\ cpu' = NULL
Goto(t, c) == call' = [call EXCEPT ![t] = c] /\ cpu' = t

Start(t, v, op) == Goto(t, [User EXCEPT !.op = op, !.at = "get", !.v = v])
-----------------------------------------------------------------------------
\* An access of a page that is not present, which do_no_page() swaps in, takes
\* from the file, or makes.  A page that another task has and has not written
\* is shared.
NoPage(t, v) ==
  LET sharers == {u \in used \ {t} : /\ entry[u][v].frame # 0 /\ ~entry[u][v].dirty
                                     /\ "copy" \in Overlaps \/ ~page[entry[u][v].frame]}
  IN  /\ InUser(t) /\ entry[t][v].frame = 0
      /\ \/ /\ entry[t][v].nr = 0 /\ v \in FilePages /\ sharers # {}
            /\ \E u \in sharers :
                 LET shared == [entry[u][v] EXCEPT !.rw = FALSE]
                 IN  /\ entry' = [entry EXCEPT ![u][v] = shared, ![t][v] = shared]
                     /\ mem_map' = [mem_map EXCEPT ![shared.frame] = @ + 1]
            /\ UNCHANGED <<cpu, call>>
         \/ /\ ~(entry[t][v].nr = 0 /\ v \in FilePages /\ sharers # {})
            /\ Start(t, v, IF entry[t][v].nr # 0 THEN "in" ELSE IF v \in FilePages THEN "load" ELSE "empty")
            /\ UNCHANGED <<entry, mem_map>>
      /\ UNCHANGED <<swap_bitmap, used, io, contents>>

\* A task writes a page that is present and writeable.
Write(t, v) ==
  LET f == entry[t][v].frame
  IN  /\ InUser(t) /\ f # 0 /\ entry[t][v].rw
      /\ entry' = [entry EXCEPT ![t][v].dirty = TRUE]
      /\ page' = [page EXCEPT ![f] = TRUE]
      /\ mine' = [mine EXCEPT ![t] = @ \cup {v}]
      /\ UNCHANGED <<mem_map, swap_bitmap, used, cpu, io, call, swap>>

\* Mutant: the other references are not looked for.
un_wp_pageAlone(t, v) ==
  /\ InUser(t) /\ entry[t][v].frame # 0 /\ ~entry[t][v].rw
  /\ entry' = [entry EXCEPT ![t][v].rw = TRUE]
  /\ UNCHANGED <<mem_map, swap_bitmap, used, cpu, io, call, contents>>

\* un_wp_page(), for a page that is not writeable, from a fault or from
\* write_verify(): nobody else has it, or it will be copied.
un_wp_page(t, v) ==
  LET f == entry[t][v].frame
  IN  /\ InUser(t) /\ f # 0 /\ ~entry[t][v].rw
      /\ \/ /\ mem_map[f] = 1
            /\ entry' = [entry EXCEPT ![t][v].rw = TRUE]
            /\ UNCHANGED <<cpu, call>>
         \/ /\ mem_map[f] # 1
            /\ Goto(t, [User EXCEPT !.op = "unshare", !.at = "get", !.v = v, !.frame = f])
            /\ UNCHANGED entry
      /\ UNCHANGED <<mem_map, swap_bitmap, used, io, contents>>
-----------------------------------------------------------------------------
\* The entries as they are when those of t are freed, and what becomes free.
Freed(t) == [entry EXCEPT ![t] = [v \in Virtual |-> Zero]]
Frees(t, f) == Cardinality({v \in Virtual : entry[t][v].frame = f})

free_page_tables(t) ==
  /\ entry' = Freed(t)
  /\ mem_map' = [f \in Frames |-> mem_map[f] - Frees(t, f)]
  /\ swap_bitmap' = swap_bitmap \cup ({entry[t][v].nr : v \in Virtual} \ {0})

exit(t) ==
  /\ InUser(t) /\ used # {t}
  /\ free_page_tables(t)
  /\ used' = used \ {t}
  /\ mine' = [mine EXCEPT ![t] = {}]
  /\ UNCHANGED <<cpu, io, call, page, swap>>

\* copy_page_tables() begins, for a new address space.
fork(t) ==
  /\ InUser(t)
  /\ \E c \in Tasks \ used :
       /\ \A u \in Tasks : call[u].child # c
       /\ Goto(t, [User EXCEPT !.op = "fork", !.at = "copy", !.child = c, !.todo = Virtual])
  /\ UNCHANGED <<entry, mem_map, swap_bitmap, used, io, contents>>

\* Its loop: a page in memory is shared, one in the swap device gets a page,
\* and at the end the child runs.
CopyEntry(t) ==
  LET k == call[t]
      v == CHOOSE w \in k.todo : TRUE
      shared == [entry[t][v] EXCEPT !.rw = FALSE]
  IN  /\ At(t, "copy")
      /\ \/ /\ k.todo = {}
            /\ used' = used \cup {k.child}
            /\ mine' = [mine EXCEPT ![k.child] = mine[t]]
            /\ Leave(t, User)
            /\ UNCHANGED <<entry, mem_map>>
         \/ /\ k.todo # {} /\ entry[t][v].nr = 0
            /\ entry' = [entry EXCEPT ![t][v] = shared, ![k.child][v] = shared]
            /\ mem_map' = [f \in Frames |-> IF f = shared.frame THEN mem_map[f] + 1 ELSE mem_map[f]]
            /\ Goto(t, [k EXCEPT !.todo = @ \ {v}])
            /\ UNCHANGED <<used, mine>>
         \/ /\ k.todo # {} /\ entry[t][v].nr # 0
            /\ Goto(t, [k EXCEPT !.at = "get", !.v = v])
            /\ UNCHANGED <<entry, mem_map, used, mine>>
      /\ UNCHANGED <<swap_bitmap, io, page, swap>>
-----------------------------------------------------------------------------
\* get_free_page(): the last free page, cleared ...
FreePages == {f \in Frames : mem_map[f] = 0}

GetPage(t) ==
  LET f == Max(FreePages)
  IN  /\ At(t, "get") /\ FreePages # {}
      /\ mem_map' = [mem_map EXCEPT ![f] = 1]
      /\ page' = [page EXCEPT ![f] = FALSE]
      /\ Goto(t, [call[t] EXCEPT !.at = "got", !.new = f])
      /\ UNCHANGED <<entry, swap_bitmap, used, io, swap, mine>>

\* ... or swap_out(): a page, from wherever dir_entry and page_entry are, ...
Swappable ==
  {x \in Entries : LET e == entry[x[1]][x[2]]
                   IN  e.frame # 0 /\ (e.dirty => mem_map[e.frame] = 1 /\ swap_bitmap # {})}
Victims ==
  {x \in Swappable :
     LET e == entry[x[1]][x[2]]
     IN  /\ "unshare" \in Overlaps \/ ~(call[x[1]].op = "unshare" /\ call[x[1]].v = x[2])
         /\ "copy" \in Overlaps \/ e.dirty \/ ~page[e.frame]}

\* ... not modified, ...
DropPage(t) ==
  /\ At(t, "get") /\ FreePages = {}
  /\ \E x \in Victims :
       LET e == entry[x[1]][x[2]]
       IN  /\ ~e.dirty
           /\ entry' = [entry EXCEPT ![x[1]][x[2]] = Zero]
           /\ mem_map' = [mem_map EXCEPT ![e.frame] = @ - 1]
  /\ cpu' = t
  /\ UNCHANGED <<swap_bitmap, used, io, call, contents>>

\* ... or written to the swap device.
SwapOut(t) ==
  LET n == Min(swap_bitmap)
  IN  /\ At(t, "get") /\ FreePages = {}
      /\ \E x \in Victims :
           LET e == entry[x[1]][x[2]]
           IN  /\ e.dirty
               /\ entry' = [entry EXCEPT ![x[1]][x[2]] = Swapped(n)]
               /\ Leave(t, [call[t] EXCEPT !.at = "write", !.new = e.frame, !.nr = n])
      /\ swap_bitmap' = swap_bitmap \ {n}
      /\ io' = Append(io, t)
      /\ UNCHANGED <<mem_map, used, contents>>

\* Mutant: the page is not freed.
WrittenKept(t) ==
  /\ At(t, "written")
  /\ Goto(t, [call[t] EXCEPT !.at = "get", !.new = 0, !.nr = 0])
  /\ UNCHANGED <<entry, mem_map, swap_bitmap, used, io, contents>>

\* It has been written, and is free.
Written(t) ==
  /\ At(t, "written")
  /\ mem_map' = [mem_map EXCEPT ![call[t].new] = @ - 1]
  /\ Goto(t, [call[t] EXCEPT !.at = "get", !.new = 0, !.nr = 0])
  /\ UNCHANGED <<entry, swap_bitmap, used, io, contents>>

\* There is no page: oom() ends the task, and a fork fails.
OutOfMemory(t) ==
  LET gone == IF call[t].op = "fork" THEN call[t].child ELSE t
  IN  /\ At(t, "get") /\ FreePages = {} /\ Swappable = {}
      /\ free_page_tables(gone)
      /\ used' = used \ {gone}
      /\ mine' = [mine EXCEPT ![gone] = {}]
      /\ Leave(t, User)
      /\ UNCHANGED <<io, page, swap>>

\* The swap device has written or read a page.
IoDone ==
  LET t == Head(io)
      k == call[t]
  IN  /\ io # << >>
      /\ io' = Tail(io)
      /\ IF k.at = "write"
         THEN swap' = [swap EXCEPT ![k.nr] = page[k.new]] /\ UNCHANGED page
         ELSE page' = [page EXCEPT ![k.new] = swap[k.nr]] /\ UNCHANGED swap
      /\ call' = [call EXCEPT ![t].at = IF k.at = "write" THEN "written" ELSE "done"]
      /\ UNCHANGED <<entry, mem_map, swap_bitmap, used, cpu, mine>>
-----------------------------------------------------------------------------
\* With a new page: get_empty_page(), ...
EmptyPage(t) ==
  /\ At(t, "got") /\ call[t].op = "empty"
  /\ entry' = [entry EXCEPT ![t][call[t].v] = Present(call[t].new, FALSE)]
  /\ Leave(t, User)
  /\ UNCHANGED <<mem_map, swap_bitmap, used, io, contents>>

\* ... bread_page(), ...
LoadPage(t) ==
  /\ At(t, "got") /\ call[t].op = "load"
  /\ Leave(t, [call[t] EXCEPT !.at = "load"])
  /\ UNCHANGED <<entry, mem_map, swap_bitmap, used, io, contents>>

Loaded(t) ==
  /\ At(t, "load")
  /\ entry' = [entry EXCEPT ![t][call[t].v] = Present(call[t].new, FALSE)]
  /\ Leave(t, User)
  /\ UNCHANGED <<mem_map, swap_bitmap, used, io, contents>>

\* ... the copy of un_wp_page(), which counts as not modified, ...
CopyPage(t) ==
  LET k == call[t]
  IN  /\ At(t, "got") /\ k.op = "unshare"
      /\ mem_map' = [mem_map EXCEPT ![k.frame] = @ - 1]
      /\ page' = [page EXCEPT ![k.new] = page[k.frame]]
      /\ entry' = [entry EXCEPT ![t][k.v] = Present(k.new, FALSE)]
      /\ Leave(t, User)
      /\ UNCHANGED <<swap_bitmap, used, io, swap, mine>>

\* ... read_swap_page() of swap_in() and copy_page_tables().
ReadPage(t) ==
  /\ At(t, "got") /\ call[t].op \in {"in", "fork"}
  /\ Leave(t, [call[t] EXCEPT !.at = "read", !.nr = Mine(t).nr])
  /\ io' = Append(io, t)
  /\ UNCHANGED <<entry, mem_map, swap_bitmap, used, contents>>

\* The page is back: swap_in() frees its copy in the swap device, which
\* copy_page_tables() leaves to the child.
SwappedIn(t) ==
  LET k == call[t]
      in == [entry EXCEPT ![t][k.v] = Present(k.new, TRUE)]
  IN  /\ At(t, "done")
      /\ \/ /\ k.op = "in"
            /\ entry' = in
            /\ swap_bitmap' = swap_bitmap \cup {k.nr}
            /\ Leave(t, User)
         \/ /\ k.op = "fork"
            /\ entry' = [in EXCEPT ![k.child][k.v] = entry[t][k.v]]
            /\ Goto(t, [k EXCEPT !.at = "copy", !.v = NULL, !.new = 0, !.nr = 0, !.todo = @ \ {k.v}])
            /\ UNCHANGED swap_bitmap
      /\ UNCHANGED <<mem_map, used, io, contents>>
-----------------------------------------------------------------------------
Next ==
  \/ IoDone
  \/ \E t \in Tasks :
       \/ \E v \in Virtual : NoPage(t, v) \/ Write(t, v) \/ un_wp_page(t, v)
       \/ exit(t) \/ fork(t) \/ CopyEntry(t)
       \/ GetPage(t) \/ DropPage(t) \/ SwapOut(t) \/ Written(t) \/ OutOfMemory(t)
       \/ EmptyPage(t) \/ LoadPage(t) \/ Loaded(t) \/ CopyPage(t) \/ ReadPage(t) \/ SwappedIn(t)

Spec == Init /\ [][Next]_vars
-----------------------------------------------------------------------------
\* mem_map[] counts the entries that have a page, and the tasks that are about
\* to enter or to free it: none is freed twice or lost, in every interleaving
\* of faults, swapping, fork and exit.  And a page of the swap device is taken
\* if and only if it is in one entry.
PagesCounted ==
  /\ \A f \in Frames :
       mem_map[f] = Cardinality({x \in Entries : entry[x[1]][x[2]].frame = f})
                    + Cardinality({t \in Tasks : call[t].new = f})
  /\ \A n \in 1 .. NrSwap :
       LET owners == {x \in Entries : entry[x[1]][x[2]].nr = n}
       IN  IF n \in swap_bitmap THEN owners = {} ELSE Cardinality(owners) = 1

\* A task finds in its pages what it, or its parent before the fork, has
\* written, and nothing else: wherever the page is, and whoever has shared it.
ContentsSurvive ==
  \A t \in used, v \in Virtual :
    LET e == entry[t][v]
        Writing == {u \in Tasks : call[u].at = "write" /\ call[u].nr = e.nr}
    IN  IF e.frame # 0 THEN page[e.frame] = (v \in mine[t])
        ELSE IF e.nr = 0 THEN v \notin mine[t]
        ELSE IF Writing = {} THEN swap[e.nr] = (v \in mine[t])
        ELSE \A u \in Writing : page[call[u].new] = (v \in mine[t])
=============================================================================
