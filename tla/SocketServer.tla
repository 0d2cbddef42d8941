---------------------------- MODULE SocketServer ----------------------------
(***************************************************************************)
(* socket_server.c: the main thread that accepts connections, and a thread  *)
(* of rcv_snd() for each.  The semaphore is that of POSIX.                  *)
(*                                                                          *)
(* accept() fails once the listening socket is closed, but one that has     *)
(* begun before goes on.  Left out: the number that is guessed, and         *)
(* cur_link, which is printed and nothing else.                             *)
(***************************************************************************)
EXTENDS Integers, FiniteSetsExt

CONSTANTS
  MAX_LINK_NUM,   \* (5)
  Clients,        \* connections, in the order they are made
  NULL            \* no connection (-1)

VARIABLES
  client_sockfd,  \* the connection in each place
  listening,      \* is server_sockfd open?
  mutex,          \* the semaphore
  main,           \* where the main thread is, and its i
  thread,         \* where the other threads are, and their n
  conn            \* the connections

vars == <<client_sockfd, listening, mutex, main, thread, conn>>

Places == 0 .. MAX_LINK_NUM - 1
Threads == 0 .. MAX_LINK_NUM

TypeOK ==
  /\ client_sockfd \in [Places -> Clients \cup {NULL}]
  /\ listening \in BOOLEAN
  /\ mutex \in 0 .. MAX_LINK_NUM
  /\ main \in [at : {"search", "full", "accept", "wait"}, i : Places]
  /\ thread \in [Threads -> [at : {"none", "talk", "close", "listen", "free", "post"}, n : Places]]
  /\ conn \in [Clients -> {"none", "open", "left", "closed"}]

Init ==
  /\ client_sockfd = [i \in Places |-> NULL]
  /\ listening = TRUE
  /\ mutex = MAX_LINK_NUM
  /\ main = [at |-> "search", i |-> 0]
  /\ thread = [t \in Threads |-> [at |-> "none", n |-> 0]]
  /\ conn = [c \in Clients |-> "none"]

MainAt(l) == main.at = l
ThreadAt(t, l) == thread[t].at = l
Goto(t, l) == thread' = [thread EXCEPT ![t].at = l]
-----------------------------------------------------------------------------
\* The main thread looks for a free place, and enters accept().
Search ==
  LET free == {i \in Places : client_sockfd[i] = NULL}
  IN  /\ MainAt("search")
      /\ main' = IF free = {} THEN [main EXCEPT !.at = "full"]
                 ELSE [at |-> IF listening THEN "accept" ELSE "wait", i |-> Min(free)]
      /\ UNCHANGED <<client_sockfd, listening, mutex, thread, conn>>

\* All places are taken: it waits for one, and searches again.
Full ==
  /\ MainAt("full") /\ mutex > 0
  /\ mutex' = mutex - 1
  /\ main' = [main EXCEPT !.at = "search"]
  /\ UNCHANGED <<client_sockfd, listening, thread, conn>>

\* The next client connects, and accept() returns.
Accept ==
  LET c == Min({k \in Clients : conn[k] = "none"})
  IN  /\ MainAt("accept") /\ \E k \in Clients : conn[k] = "none"
      /\ client_sockfd' = [client_sockfd EXCEPT ![main.i] = c]
      /\ conn' = [conn EXCEPT ![c] = "open"]
      /\ main' = [main EXCEPT !.at = "wait"]
      /\ UNCHANGED <<listening, mutex, thread>>

\* Mutant: the main thread does not wait for the semaphore.
CreateAtOnce ==
  LET t == Min({u \in Threads : ThreadAt(u, "none")})
  IN  /\ MainAt("wait") /\ \E u \in Threads : ThreadAt(u, "none")
      /\ thread' = [thread EXCEPT ![t] = [at |-> "talk", n |-> main.i]]
      /\ main' = [main EXCEPT !.at = "search"]
      /\ UNCHANGED <<client_sockfd, listening, mutex, conn>>

\* sem_wait() and pthread_create(), also for a connection that accept() did
\* not make.
Create ==
  LET t == Min({u \in Threads : ThreadAt(u, "none")})
  IN  /\ MainAt("wait") /\ mutex > 0
      /\ mutex' = mutex - 1
      /\ thread' = [thread EXCEPT ![t] = [at |-> "talk", n |-> main.i]]
      /\ main' = [main EXCEPT !.at = "search"]
      /\ UNCHANGED <<client_sockfd, listening, conn>>
-----------------------------------------------------------------------------
\* The thread reads the right number.  Whatever else it reads, and the end of
\* a connection, it goes on.
Guessed(t) ==
  /\ ThreadAt(t, "talk")
  /\ client_sockfd[thread[t].n] # NULL
  /\ Goto(t, "close")
  /\ UNCHANGED <<client_sockfd, listening, mutex, main, conn>>

\* A client leaves without having guessed it.
Quit(c) ==
  /\ conn[c] = "open"
  /\ conn' = [conn EXCEPT ![c] = "left"]
  /\ UNCHANGED <<client_sockfd, listening, mutex, main, thread>>

\* close(client_sockfd[n])
CloseClient(t) ==
  LET c == client_sockfd[thread[t].n]
  IN  /\ ThreadAt(t, "close")
      /\ conn' = IF c = NULL THEN conn ELSE [conn EXCEPT ![c] = "closed"]
      /\ Goto(t, "listen")
      /\ UNCHANGED <<client_sockfd, listening, mutex, main>>

\* close(server_sockfd)
CloseServer(t) ==
  /\ ThreadAt(t, "listen")
  /\ listening' = FALSE
  /\ Goto(t, "free")
  /\ UNCHANGED <<client_sockfd, mutex, main, conn>>

\* client_sockfd[n] = -1
FreePlace(t) ==
  /\ ThreadAt(t, "free")
  /\ client_sockfd' = [client_sockfd EXCEPT ![thread[t].n] = NULL]
  /\ Goto(t, "post")
  /\ UNCHANGED <<listening, mutex, main, conn>>

\* sem_post(), and the thread ends.
Post(t) ==
  /\ ThreadAt(t, "post")
  /\ mutex' = mutex + 1
  /\ Goto(t, "none")
  /\ UNCHANGED <<client_sockfd, listening, main, conn>>
-----------------------------------------------------------------------------
Next ==
  \/ Search \/ Full \/ Accept \/ Create
  \/ \E t \in Threads : Guessed(t) \/ CloseClient(t) \/ CloseServer(t) \/ FreePlace(t) \/ Post(t)
  \/ \E c \in Clients : Quit(c)

Spec == Init /\ [][Next]_vars
-----------------------------------------------------------------------------
\* Nobody but its own thread serves and closes a connection, although places
\* are used again without a lock; and there are never more than MAX_LINK_NUM
\* threads, also when accept() fails and no place is taken.
ServedByOne ==
  /\ \E t \in Threads : ThreadAt(t, "none")
  /\ \A i \in Places :
       LET c == client_sockfd[i]
           Serving == {t \in Threads : thread[t].n = i /\ thread[t].at \notin {"none", "post"}}
           Accepted == MainAt("wait") /\ main.i = i
       IN  c # NULL =>
             /\ \A j \in Places \ {i} : client_sockfd[j] # c
             /\ Cardinality(Serving) = IF Accepted THEN 0 ELSE 1
             /\ conn[c] = "closed" => \E t \in Serving : thread[t].at \in {"listen", "free"}
=============================================================================
