---------------------------- MODULE TablesProofs ----------------------------
(* Theorems about three tables of MCTables, for any values of their          *)
(* constants: the threads and connections of the chat server (SocketServer), *)
(* the kernel timers (Timers), and the family tree of the tasks (Process).   *)
(* Each invariant below is inductive for its own table, whose variables the  *)
(* steps of the others leave alone (EachTable).                              *)
EXTENDS MemoryProofs

\* What holds of 0 and of n + 1 whenever it holds of n holds of every number:
\* induction for sets.
LEMMA AllNat ==
  ASSUME NEW X \in SUBSET Nat, 0 \in X, \A n \in X : n + 1 \in X
  PROVE  X = Nat
<1> SUFFICES ASSUME Nat \ X # {} PROVE FALSE
  OBVIOUS
<1>1. PICK x \in Nat \ X : \A y \in Nat \ X : x <= y
  BY LeastNat
<1>2. x # 0 /\ x - 1 \in Nat
  BY <1>1
<1>3. x - 1 \in X
  BY <1>1, <1>2
<1> QED
  BY <1>2, <1>3
-----------------------------------------------------------------------------
\* A thread serves a place until it has freed it.
Serves(t) == thread[t].at \in {"talk", "close", "listen", "free"}
Serving(i) == {t \in S!Threads : thread[t].n = i /\ thread[t].at \notin {"none", "post"}}
Active == {t \in S!Threads : thread[t].at # "none"}

\* The semaphore counts the threads there may still be; those that the main
\* thread has taken for a place are not given back.
ThreadsCounted == mutex + Cardinality(Active) <= MAX_LINK_NUM

\* A connection is in one place, and has been made.
ConnectionsApart ==
  /\ \A i \in S!Places : client_sockfd[i] # NULL => conn[client_sockfd[i]] # "none"
  /\ \A i, j \in S!Places : client_sockfd[i] # NULL /\ client_sockfd[i] = client_sockfd[j] => i = j

\* A place with a connection has one thread, or the main thread that has
\* accepted it.
PlacesOwned ==
  /\ \A t, u \in S!Threads : Serves(t) /\ Serves(u) /\ thread[t].n = thread[u].n
                           /\ client_sockfd[thread[t].n] # NULL => t = u
  /\ \A i \in S!Places : client_sockfd[i] # NULL =>
       (\E t \in S!Threads : Serves(t) /\ thread[t].n = i) \/ (main.at = "wait" /\ main.i = i)
  /\ main.at = "wait" /\ client_sockfd[main.i] # NULL =>
       \A t \in S!Threads : Serves(t) => thread[t].n # main.i

\* Threads without a connection there are only when nothing is accepted any
\* more.
EmptyPlaces ==
  /\ main.at = "accept" => client_sockfd[main.i] = NULL
  /\ main.at = "wait" /\ client_sockfd[main.i] = NULL => ~listening
  /\ \A t \in S!Threads :
       Serves(t) /\ (thread[t].at # "talk" \/ listening \/ main.at = "accept")
         => client_sockfd[thread[t].n] # NULL

\* A connection in a place is closed by the thread that frees it next.
ClosedInTime ==
  \A i \in S!Places : client_sockfd[i] # NULL /\ conn[client_sockfd[i]] = "closed" =>
    \E t \in S!Threads : thread[t].n = i /\ thread[t].at \in {"listen", "free"}

ServerInv ==
  /\ S!TypeOK /\ ThreadsCounted /\ ConnectionsApart /\ PlacesOwned /\ EmptyPlaces /\ ClosedInTime

\* The cardinality that the module SocketServer takes from its library.
LEMMA ServerCardinality == ASSUME NEW X PROVE S!Cardinality(X) = Cardinality(X)
  BY DEF S!Cardinality, Cardinality

\* mutex and the places: the least number of a set of numbers is in it.
LEMMA ServerMin ==
  ASSUME NEW X \in SUBSET Nat, X # {}
  PROVE  S!Min(X) \in X
<1>1. \E x \in X : \A y \in X : x =< y
  BY LeastNat
<1> QED
  BY <1>1 DEF S!Min

\* There is one thread more than the semaphore counts.
LEMMA ActiveFinite == IsFiniteSet(S!Threads) /\ Cardinality(S!Threads) = MAX_LINK_NUM + 1 /\ IsFiniteSet(Active)
<1>1. IsFiniteSet(S!Threads) /\ Cardinality(S!Threads) = MAX_LINK_NUM + 1
  BY FS_Interval, ServerAssumption DEF S!Threads
<1> QED
  BY <1>1, FS_Subset DEF Active

\* There is a thread that has not begun as long as the semaphore lets one begin.
LEMMA ThreadIsLeft ==
  ASSUME ServerInv
  PROVE  \E t \in S!Threads : thread[t].at = "none"
<1>1. Cardinality(Active) < Cardinality(S!Threads)
  BY ActiveFinite, ServerAssumption, FS_CardinalityType DEF ServerInv, ThreadsCounted, S!TypeOK
<1>2. Active # S!Threads
  BY <1>1, ActiveFinite, FS_CardinalityType
<1> QED
  BY <1>2 DEF Active

\* Nothing is connected at the start.
LEMMA ServerInit == S!Init => ServerInv
<1> SUFFICES ASSUME S!Init PROVE ServerInv
  OBVIOUS
<1>1. Active = {}
  BY DEF S!Init, Active, S!Threads
<1>2. ThreadsCounted
  BY <1>1, FS_EmptySet, ServerAssumption DEF S!Init, ThreadsCounted
<1>3. S!TypeOK
  BY ServerAssumption DEF S!Init, S!TypeOK, S!Places, S!Threads
<1>4. ConnectionsApart /\ PlacesOwned /\ EmptyPlaces /\ ClosedInTime
  BY ServerAssumption DEF S!Init, ConnectionsApart, PlacesOwned, EmptyPlaces, ClosedInTime, Serves, S!Threads, S!Places
<1> QED
  BY <1>2, <1>3, <1>4 DEF ServerInv

\* The main thread looks at the places, and waits for one.
LEMMA ServerSearch == ServerInv /\ S!Search => ServerInv'
<1> SUFFICES ASSUME ServerInv, S!Search PROVE ServerInv'
  OBVIOUS
<1> DEFINE free == {i \in S!Places : client_sockfd[i] = NULL}
<1>1. CASE free = {}
  <2>1. main' = [main EXCEPT !.at = "full"] /\ UNCHANGED <<client_sockfd, listening, mutex, thread, conn>>
    BY <1>1 DEF S!Search
  <2> QED
    BY <2>1, SMTT(30) DEF ServerInv, S!TypeOK, ThreadsCounted, Active, ConnectionsApart, PlacesOwned, EmptyPlaces,
                ClosedInTime, Serves, S!Search, S!MainAt
<1>2. CASE free # {}
  <2>1. S!Min(free) \in free
    BY <1>2, ServerMin, ServerAssumption DEF S!Places
  <2>2. PICK i \in S!Places : /\ client_sockfd[i] = NULL
                              /\ main' = [at |-> IF listening THEN "accept" ELSE "wait", i |-> i]
                              /\ main.at = "search"
                              /\ UNCHANGED <<client_sockfd, listening, mutex, thread, conn>>
    BY <1>2, <2>1 DEF S!Search, S!MainAt
  <2>3. S!TypeOK' /\ ThreadsCounted'
    BY <2>2 DEF ServerInv, S!TypeOK, ThreadsCounted, Active
  <2>4. ConnectionsApart' /\ ClosedInTime'
    BY <2>2 DEF ServerInv, ConnectionsApart, ClosedInTime
  <2>5. PlacesOwned' /\ EmptyPlaces'
    BY <2>2 DEF ServerInv, PlacesOwned, EmptyPlaces, Serves
  <2> QED
    BY <2>3, <2>4, <2>5 DEF ServerInv
<1> QED
  BY <1>1, <1>2

\* All places are taken: the main thread waits.
LEMMA ServerFull == ServerInv /\ S!Full => ServerInv'
<1> SUFFICES ASSUME ServerInv, S!Full PROVE ServerInv'
  OBVIOUS
<1>1. Active' = Active /\ Cardinality(Active) \in Nat
  BY ActiveFinite, FS_CardinalityType DEF S!Full, Active
<1>2. S!TypeOK' /\ ThreadsCounted'
  BY <1>1, ServerAssumption DEF ServerInv, S!TypeOK, ThreadsCounted, S!Full
<1>3. main.at = "full" /\ main'.at = "search" /\ UNCHANGED <<client_sockfd, listening, thread, conn>>
  BY DEF ServerInv, S!TypeOK, S!Full, S!MainAt
<1>4. ConnectionsApart' /\ ClosedInTime'
  BY <1>3 DEF ServerInv, ConnectionsApart, ClosedInTime
<1>5. \A t : Serves(t)' <=> Serves(t)
  BY <1>3 DEF Serves
<1>6. PlacesOwned'
  BY <1>3, <1>5 DEF ServerInv, PlacesOwned
<1>7. EmptyPlaces'
  BY <1>3, <1>5 DEF ServerInv, EmptyPlaces
<1> QED
  BY <1>2, <1>4, <1>6, <1>7 DEF ServerInv

\* The main thread accepts a connection for its place.
LEMMA ServerAccept == ServerInv /\ S!Accept => ServerInv'
<1> SUFFICES ASSUME ServerInv, S!Accept PROVE ServerInv'
  OBVIOUS
<1>1. PICK c \in Clients : /\ conn[c] = "none"
                           /\ client_sockfd' = [client_sockfd EXCEPT ![main.i] = c]
                           /\ conn' = [conn EXCEPT ![c] = "open"]
  <2>1. S!Min({k \in Clients : conn[k] = "none"}) \in {k \in Clients : conn[k] = "none"}
    BY ServerMin, ServerAssumption DEF S!Accept
  <2> QED
    BY <2>1 DEF S!Accept
<1>2. /\ main.at = "accept" /\ main' = [main EXCEPT !.at = "wait"] /\ main.i \in S!Places
      /\ UNCHANGED <<listening, mutex, thread>> /\ c # NULL
  BY ServerAssumption, NullAssumption DEF S!Accept, S!MainAt, ServerInv, S!TypeOK
<1>3. S!TypeOK' /\ ThreadsCounted'
  BY <1>1, <1>2 DEF ServerInv, S!TypeOK, ThreadsCounted, Active
<1>4. \A i \in S!Places : client_sockfd'[i] = IF i = main.i THEN c ELSE client_sockfd[i]
  BY <1>1, <1>2 DEF ServerInv, S!TypeOK
<1>5. \A k \in Clients : conn'[k] = IF k = c THEN "open" ELSE conn[k]
  BY <1>1, <1>2 DEF ServerInv, S!TypeOK
<1>6. \A i \in S!Places : client_sockfd[i] # NULL => client_sockfd[i] \in Clients /\ client_sockfd[i] # c
  BY <1>1 DEF ServerInv, S!TypeOK, ConnectionsApart
<1>7. ConnectionsApart'
  BY <1>1, <1>2, <1>4, <1>5, <1>6 DEF ServerInv, ConnectionsApart
<1>8. ClosedInTime'
  BY <1>1, <1>2, <1>4, <1>5, <1>6 DEF ServerInv, ClosedInTime
<1>9. \A t \in S!Threads : Serves(t) => thread[t].n # main.i /\ thread[t].n \in S!Places
  BY <1>2 DEF ServerInv, EmptyPlaces, S!TypeOK
<1>10. PlacesOwned' /\ EmptyPlaces'
  BY <1>1, <1>2, <1>4, <1>9 DEF ServerInv, PlacesOwned, EmptyPlaces, Serves, S!TypeOK
<1> QED
  BY <1>3, <1>7, <1>8, <1>10 DEF ServerInv

\* One more thread, for the place that the main thread has.
LEMMA ServerCreate == ServerInv /\ S!Create => ServerInv'
<1> SUFFICES ASSUME ServerInv, S!Create PROVE ServerInv'
  OBVIOUS
<1>1. PICK t \in S!Threads : thread[t].at = "none" /\ thread' = [thread EXCEPT ![t] = [at |-> "talk", n |-> main.i]]
  <2> DEFINE free == {u \in S!Threads : S!ThreadAt(u, "none")}
  <2>1. free # {} /\ free \subseteq Nat
    BY ThreadIsLeft, ServerAssumption DEF S!ThreadAt, S!Threads
  <2>2. S!Min(free) \in free
    BY <2>1, ServerMin
  <2> QED
    BY <2>2 DEF S!Create, S!ThreadAt
<1>2. /\ main.at = "wait" /\ mutex > 0 /\ mutex' = mutex - 1 /\ main' = [main EXCEPT !.at = "search"]
      /\ main.i \in S!Places /\ UNCHANGED <<client_sockfd, listening, conn>>
  BY DEF S!Create, S!MainAt, ServerInv, S!TypeOK
<1>3. \A u \in S!Threads : thread'[u] = IF u = t THEN [at |-> "talk", n |-> main.i] ELSE thread[u]
  BY <1>1 DEF ServerInv, S!TypeOK
<1>4. Active' = Active \cup {t} /\ t \notin Active
  BY <1>1, <1>3 DEF Active
<1>5. ThreadsCounted'
  <2>1. Cardinality(Active') = Cardinality(Active) + 1
    BY <1>4, ActiveFinite, FS_AddElement
  <2>2. Cardinality(Active) \in Nat
    BY ActiveFinite, FS_CardinalityType
  <2> QED
    BY <1>2, <2>1, <2>2, ServerAssumption DEF ServerInv, ThreadsCounted, S!TypeOK
<1>6. S!TypeOK'
  BY <1>1, <1>2, ServerAssumption DEF ServerInv, S!TypeOK
<1>7. ConnectionsApart' /\ ClosedInTime'
  BY <1>1, <1>2, <1>3 DEF ServerInv, ConnectionsApart, ClosedInTime
<1>8. \A u \in S!Threads : Serves(u)' <=> (u = t \/ Serves(u))
  BY <1>3, <1>1 DEF Serves
<1>9. PlacesOwned'
  BY <1>1, <1>2, <1>3, <1>8 DEF ServerInv, PlacesOwned, Serves
<1>10. EmptyPlaces'
  BY <1>1, <1>2, <1>3 DEF ServerInv, EmptyPlaces, Serves
<1> QED
  BY <1>5, <1>6, <1>7, <1>9, <1>10 DEF ServerInv

\* What the steps of a thread t have in common: it goes to l, and the others
\* and the main thread stay where they are.
LEMMA ThreadGoes ==
  ASSUME ServerInv, NEW t \in S!Threads, NEW l \in {"close", "listen", "free", "post", "none"},
         thread[t].at # "none", S!Goto(t, l)
  PROVE  /\ thread' \in [S!Threads -> [at : {"none", "talk", "close", "listen", "free", "post"}, n : S!Places]]
         /\ \A u \in S!Threads : /\ thread'[u].n = thread[u].n
                                 /\ thread'[u].at = IF u = t THEN l ELSE thread[u].at
         /\ Cardinality(Active') = IF l = "none" THEN Cardinality(Active) - 1 ELSE Cardinality(Active)
<1>1. thread' = [thread EXCEPT ![t] = [@ EXCEPT !.at = l]]
  BY DEF S!Goto
<1>2. thread \in [S!Threads -> [at : {"none", "talk", "close", "listen", "free", "post"}, n : S!Places]]
  BY DEF ServerInv, S!TypeOK
<1>3. thread' \in [S!Threads -> [at : {"none", "talk", "close", "listen", "free", "post"}, n : S!Places]]
  BY <1>1, <1>2
<1>4. \A u \in S!Threads : /\ thread'[u].n = thread[u].n
                           /\ thread'[u].at = IF u = t THEN l ELSE thread[u].at
  BY <1>1, <1>2
<1>5. CASE l = "none"
  <2>1. Active' = Active \ {t} /\ t \in Active
    BY <1>4, <1>5 DEF Active
  <2> QED
    BY <1>3, <1>4, <1>5, <2>1, ActiveFinite, FS_RemoveElement
<1>6. CASE l # "none"
  <2>1. Active' = Active
    BY <1>4, <1>6 DEF Active
  <2> QED
    BY <1>3, <1>4, <1>6, <2>1
<1> QED
  BY <1>5, <1>6

\* A client has guessed right: its thread is to close everything.
LEMMA ServerGuessed == ASSUME ServerInv, NEW t \in S!Threads, S!Guessed(t) PROVE ServerInv'
<1>1. /\ thread[t].at = "talk" /\ client_sockfd[thread[t].n] # NULL
      /\ S!Goto(t, "close") /\ UNCHANGED <<client_sockfd, listening, mutex, main, conn>>
  BY DEF S!Guessed, S!ThreadAt
<1>2. /\ thread' \in [S!Threads -> [at : {"none", "talk", "close", "listen", "free", "post"}, n : S!Places]]
      /\ \A u \in S!Threads : /\ thread'[u].n = thread[u].n
                              /\ thread'[u].at = IF u = t THEN "close" ELSE thread[u].at
      /\ Cardinality(Active') = Cardinality(Active)
  BY <1>1, ThreadGoes
<1>3. S!TypeOK' /\ ThreadsCounted'
  BY <1>1, <1>2 DEF ServerInv, S!TypeOK, ThreadsCounted
<1>4. ConnectionsApart' /\ ClosedInTime'
  BY <1>1, <1>2 DEF ServerInv, ConnectionsApart, ClosedInTime
<1>5. \A u \in S!Threads : Serves(u)' <=> Serves(u)
  BY <1>1, <1>2 DEF Serves
<1>6. PlacesOwned'
  BY <1>1, <1>2, <1>5 DEF ServerInv, PlacesOwned
<1>7. EmptyPlaces'
  BY <1>1, <1>2, <1>5 DEF ServerInv, EmptyPlaces
<1> QED
  BY <1>3, <1>4, <1>6, <1>7 DEF ServerInv

\* A thread closes the connection of its place, ...
LEMMA ServerCloseClient == ASSUME ServerInv, NEW t \in S!Threads, S!CloseClient(t) PROVE ServerInv'
<1> DEFINE c == client_sockfd[thread[t].n]
<1>1. /\ thread[t].at = "close" /\ thread[t].n \in S!Places
      /\ conn' = IF c = NULL THEN conn ELSE [conn EXCEPT ![c] = "closed"]
      /\ S!Goto(t, "listen") /\ UNCHANGED <<client_sockfd, listening, mutex, main>>
  BY DEF S!CloseClient, S!ThreadAt, ServerInv, S!TypeOK
<1>2. c # NULL /\ c \in Clients
  BY <1>1 DEF ServerInv, EmptyPlaces, Serves, S!TypeOK
<1>3. /\ thread' \in [S!Threads -> [at : {"none", "talk", "close", "listen", "free", "post"}, n : S!Places]]
      /\ \A u \in S!Threads : /\ thread'[u].n = thread[u].n
                              /\ thread'[u].at = IF u = t THEN "listen" ELSE thread[u].at
      /\ Cardinality(Active') = Cardinality(Active)
  BY <1>1, ThreadGoes
<1>4. \A k \in Clients : conn'[k] = IF k = c THEN "closed" ELSE conn[k]
  BY <1>1, <1>2 DEF ServerInv, S!TypeOK
<1>5. S!TypeOK' /\ ThreadsCounted'
  BY <1>1, <1>2, <1>3 DEF ServerInv, S!TypeOK, ThreadsCounted
<1>6. \A i \in S!Places : client_sockfd[i] \in Clients \cup {NULL}
  BY DEF ServerInv, S!TypeOK
<1>7. ConnectionsApart'
  BY <1>1, <1>4, <1>6 DEF ServerInv, ConnectionsApart
<1>8. ClosedInTime'
  <2> SUFFICES ASSUME NEW i \in S!Places, client_sockfd[i] # NULL, conn'[client_sockfd[i]] = "closed"
               PROVE  \E u \in S!Threads : thread'[u].n = i /\ thread'[u].at \in {"listen", "free"}
    BY <1>1 DEF ClosedInTime
  <2>1. CASE client_sockfd[i] = c
    BY <1>1, <1>3, <2>1 DEF ServerInv, ConnectionsApart
  <2>2. CASE client_sockfd[i] # c
    BY <1>1, <1>3, <1>4, <1>6, <2>2 DEF ServerInv, ClosedInTime
  <2> QED
    BY <2>1, <2>2
<1>9. \A u \in S!Threads : Serves(u)' <=> Serves(u)
  BY <1>1, <1>3 DEF Serves
<1>10. PlacesOwned'
  BY <1>1, <1>3, <1>9 DEF ServerInv, PlacesOwned
<1>11. EmptyPlaces'
  BY <1>1, <1>2, <1>3, <1>9 DEF ServerInv, EmptyPlaces
<1> QED
  BY <1>5, <1>7, <1>8, <1>10, <1>11 DEF ServerInv

\* ... the listening socket, ...
LEMMA ServerCloseServer == ASSUME ServerInv, NEW t \in S!Threads, S!CloseServer(t) PROVE ServerInv'
<1>1. /\ thread[t].at = "listen" /\ listening' = FALSE
      /\ S!Goto(t, "free") /\ UNCHANGED <<client_sockfd, mutex, main, conn>>
  BY DEF S!CloseServer, S!ThreadAt
<1>2. /\ thread' \in [S!Threads -> [at : {"none", "talk", "close", "listen", "free", "post"}, n : S!Places]]
      /\ \A u \in S!Threads : /\ thread'[u].n = thread[u].n
                              /\ thread'[u].at = IF u = t THEN "free" ELSE thread[u].at
      /\ Cardinality(Active') = Cardinality(Active)
  BY <1>1, ThreadGoes
<1>3. S!TypeOK' /\ ThreadsCounted'
  BY <1>1, <1>2 DEF ServerInv, S!TypeOK, ThreadsCounted
<1>4. ConnectionsApart' /\ ClosedInTime'
  BY <1>1, <1>2 DEF ServerInv, ConnectionsApart, ClosedInTime
<1>5. \A u \in S!Threads : Serves(u)' <=> Serves(u)
  BY <1>1, <1>2 DEF Serves
<1>6. PlacesOwned'
  BY <1>1, <1>2, <1>5 DEF ServerInv, PlacesOwned
<1>7. EmptyPlaces'
  BY <1>1, <1>2, <1>5 DEF ServerInv, EmptyPlaces
<1> QED
  BY <1>3, <1>4, <1>6, <1>7 DEF ServerInv

\* ... frees its place, ...
LEMMA ServerFreePlace == ASSUME ServerInv, NEW t \in S!Threads, S!FreePlace(t) PROVE ServerInv'
<1> DEFINE p == thread[t].n
<1>1. /\ thread[t].at = "free" /\ p \in S!Places
      /\ client_sockfd' = [client_sockfd EXCEPT ![p] = NULL]
      /\ S!Goto(t, "post") /\ UNCHANGED <<listening, mutex, main, conn>>
  BY DEF S!FreePlace, S!ThreadAt, ServerInv, S!TypeOK
<1>2. /\ thread' \in [S!Threads -> [at : {"none", "talk", "close", "listen", "free", "post"}, n : S!Places]]
      /\ \A u \in S!Threads : /\ thread'[u].n = thread[u].n
                              /\ thread'[u].at = IF u = t THEN "post" ELSE thread[u].at
      /\ Cardinality(Active') = Cardinality(Active)
  BY <1>1, ThreadGoes
<1>3. S!TypeOK' /\ ThreadsCounted'
  BY <1>1, <1>2 DEF ServerInv, S!TypeOK, ThreadsCounted
<1>4. \A i \in S!Places : client_sockfd'[i] = IF i = p THEN NULL ELSE client_sockfd[i]
  BY <1>1 DEF ServerInv, S!TypeOK
<1>5. client_sockfd[p] # NULL /\ Serves(t)
  BY <1>1 DEF ServerInv, EmptyPlaces, Serves
<1>6. \A u \in S!Threads : Serves(u)' <=> (Serves(u) /\ u # t)
  BY <1>1, <1>2 DEF Serves
<1>7. \A u \in S!Threads : Serves(u) /\ u # t => thread[u].n # p /\ thread[u].n \in S!Places
  BY <1>5 DEF ServerInv, PlacesOwned, S!TypeOK
<1>8. main.at = "wait" => main.i # p
  BY <1>5 DEF ServerInv, PlacesOwned
<1>9. main.i \in S!Places
  BY DEF ServerInv, S!TypeOK
<1>10. ConnectionsApart'
  BY <1>1, <1>4 DEF ServerInv, ConnectionsApart
<1>11. ClosedInTime'
  BY <1>1, <1>2, <1>4 DEF ServerInv, ClosedInTime
<1>12. PlacesOwned'
  BY <1>1, <1>2, <1>4, <1>6, <1>7, <1>8, <1>9 DEF ServerInv, PlacesOwned
<1>13. EmptyPlaces'
  BY <1>1, <1>2, <1>4, <1>6, <1>7, <1>8, <1>9 DEF ServerInv, EmptyPlaces
<1> QED
  BY <1>3, <1>10, <1>11, <1>12, <1>13 DEF ServerInv

\* ... and gives back the semaphore.
LEMMA ServerPost == ASSUME ServerInv, NEW t \in S!Threads, S!Post(t) PROVE ServerInv'
<1>1. /\ thread[t].at = "post" /\ mutex' = mutex + 1
      /\ S!Goto(t, "none") /\ UNCHANGED <<client_sockfd, listening, main, conn>>
  BY DEF S!Post, S!ThreadAt
<1>2. /\ thread' \in [S!Threads -> [at : {"none", "talk", "close", "listen", "free", "post"}, n : S!Places]]
      /\ \A u \in S!Threads : /\ thread'[u].n = thread[u].n
                              /\ thread'[u].at = IF u = t THEN "none" ELSE thread[u].at
      /\ Cardinality(Active') = Cardinality(Active) - 1
  BY <1>1, ThreadGoes
<1>3. ThreadsCounted'
  BY <1>1, <1>2, ActiveFinite, FS_CardinalityType, ServerAssumption DEF ServerInv, S!TypeOK, ThreadsCounted
<1>4. Cardinality(Active) - 1 >= 0
  <2>1. t \in Active
    BY <1>1 DEF Active
  <2> QED
    BY <2>1, ActiveFinite, FS_EmptySet, FS_CardinalityType
<1>5. S!TypeOK'
  BY <1>1, <1>2, <1>4, ActiveFinite, FS_CardinalityType, ServerAssumption DEF ServerInv, S!TypeOK, ThreadsCounted
<1>6. ConnectionsApart' /\ ClosedInTime'
  BY <1>1, <1>2 DEF ServerInv, ConnectionsApart, ClosedInTime
<1>7. \A u \in S!Threads : Serves(u)' <=> Serves(u)
  BY <1>1, <1>2 DEF Serves
<1>8. PlacesOwned'
  BY <1>1, <1>2, <1>7 DEF ServerInv, PlacesOwned
<1>9. EmptyPlaces'
  BY <1>1, <1>2, <1>7 DEF ServerInv, EmptyPlaces
<1> QED
  BY <1>3, <1>5, <1>6, <1>8, <1>9 DEF ServerInv

\* A client goes away.
LEMMA ServerQuit == ASSUME ServerInv, NEW c \in Clients, S!Quit(c) PROVE ServerInv'
<1>1. /\ conn[c] = "open" /\ conn' = [conn EXCEPT ![c] = "left"]
      /\ UNCHANGED <<client_sockfd, listening, mutex, main, thread>>
  BY DEF S!Quit
<1>2. \A k \in Clients : conn'[k] = IF k = c THEN "left" ELSE conn[k]
  BY <1>1 DEF ServerInv, S!TypeOK
<1>3. \A i \in S!Places : client_sockfd[i] \in Clients \cup {NULL}
  BY DEF ServerInv, S!TypeOK
<1>4. S!TypeOK' /\ ThreadsCounted'
  BY <1>1 DEF ServerInv, S!TypeOK, ThreadsCounted, Active
<1>5. ConnectionsApart' /\ ClosedInTime'
  BY <1>1, <1>2, <1>3 DEF ServerInv, ConnectionsApart, ClosedInTime
<1>6. PlacesOwned' /\ EmptyPlaces'
  BY <1>1 DEF ServerInv, PlacesOwned, EmptyPlaces, Serves
<1> QED
  BY <1>4, <1>5, <1>6 DEF ServerInv

\* Every step of the server keeps it, and so does a step of another table.
LEMMA ServerStep == ServerInv /\ [S!Next]_svars => ServerInv'
<1> SUFFICES ASSUME ServerInv, [S!Next]_svars PROVE ServerInv'
  OBVIOUS
<1>1. CASE UNCHANGED svars
  BY <1>1 DEF svars, ServerInv, S!TypeOK, ThreadsCounted, Active, ConnectionsApart, PlacesOwned, EmptyPlaces,
              ClosedInTime, Serves
<1>2. CASE S!Next
  BY <1>2, ServerSearch, ServerFull, ServerAccept, ServerCreate, ServerGuessed, ServerCloseClient,
     ServerCloseServer, ServerFreePlace, ServerPost, ServerQuit DEF S!Next
<1> QED
  BY <1>1, <1>2

\* Two threads of one place would both serve it.
LEMMA ServerInvIsEnough == ServerInv => S!ServedByOne
<1> SUFFICES ASSUME ServerInv PROVE S!ServedByOne
  OBVIOUS
<1>1. \E t \in S!Threads : S!ThreadAt(t, "none")
  BY ThreadIsLeft DEF S!ThreadAt
<1>2. ASSUME NEW i \in S!Places, client_sockfd[i] # NULL
      PROVE  /\ \A j \in S!Places \ {i} : client_sockfd[j] # client_sockfd[i]
             /\ S!Cardinality(Serving(i)) = IF S!MainAt("wait") /\ main.i = i THEN 0 ELSE 1
             /\ conn[client_sockfd[i]] = "closed" =>
                  \E t \in Serving(i) : thread[t].at \in {"listen", "free"}
  <2>1. \A t : t \in Serving(i) <=> (t \in S!Threads /\ Serves(t) /\ thread[t].n = i)
    BY DEF Serving, Serves, ServerInv, S!TypeOK
  <2>2. CASE S!MainAt("wait") /\ main.i = i
    <3>1. Serving(i) = {}
      BY <1>2, <2>1, <2>2 DEF S!MainAt, ServerInv, PlacesOwned
    <3> QED
      BY <1>2, <2>1, <2>2, <3>1, FS_EmptySet, ServerCardinality DEF ServerInv, ConnectionsApart, ClosedInTime, Serves
  <2>3. CASE ~(S!MainAt("wait") /\ main.i = i)
    <3>1. PICK t \in S!Threads : Serves(t) /\ thread[t].n = i
      BY <1>2, <2>3 DEF S!MainAt, ServerInv, PlacesOwned
    <3>2. Serving(i) = {t}
      BY <1>2, <2>1, <3>1 DEF ServerInv, PlacesOwned
    <3>3. S!Cardinality(Serving(i)) = 1
      BY <3>2, FS_Singleton, ServerCardinality
    <3> QED
      BY <1>2, <2>1, <2>3, <3>3 DEF ServerInv, ConnectionsApart, ClosedInTime, Serves
  <2> QED
    BY <2>2, <2>3
<1> QED
  BY <1>1, <1>2 DEF S!ServedByOne, Serving

\* Nobody but its own thread serves a connection, and there are never more
\* threads than MAX_LINK_NUM (SocketServer): for any numbers of places and
\* clients.
THEOREM ConnectionsHaveOneThread == TablesSpec => []ServedByOne
<1>1. TablesInit => ServerInv
  BY ServerInit DEF TablesInit
<1>2. ServerInv /\ [TablesNext]_<<vars, pvars, svars, tvars, mvars, lvars, yvars, table>> => ServerInv'
  BY EachTable, ServerStep
<1>3. ServerInv => ServedByOne
  BY ServerInvIsEnough DEF ServedByOne
<1> QED
  BY <1>1, <1>2, <1>3, PTL DEF TablesSpec
-----------------------------------------------------------------------------
\* sched.c: an entry of the list of timers counts from the one before it, so
\* that a timer ends after the sum of the differences up to its own.  Until()
\* is that sum, whatever the length of the list: by induction for sets, it is
\* what any function that adds up the differences has at that place.
Timer == [jiffies : Int, left : Int]

\* What the list of timers is made of.
LEMMA TimerTypes ==
  ASSUME NEW s \in Seq(Timer)
  PROVE  Len(s) \in Nat /\ \A i \in 1 .. Len(s) : s[i] \in Timer /\ s[i].jiffies \in Int /\ s[i].left \in Int
<1>1. Len(s) \in Nat /\ \A i \in 1 .. Len(s) : s[i] \in Timer
  BY LenProperties, ElementOfSeq
<1> QED
  BY <1>1 DEF Timer

\* f sums up the differences of s up to each of the first k.
Sums(f, s, k) == f = [i \in 0 .. k |-> IF i = 0 THEN 0 ELSE f[i - 1] + s[i].jiffies]

\* There is one such function ...
LEMMA SumsExist ==
  ASSUME NEW s \in Seq(Timer), NEW k \in 0 .. Len(s)
  PROVE  \E f \in [0 .. k -> Int] : Sums(f, s, k)
<1> DEFINE X == {n \in Nat : n <= Len(s) => \E f \in [0 .. n -> Int] : Sums(f, s, n)}
<1>1. 0 \in X
  <2>1. [i \in 0 .. 0 |-> 0] \in [0 .. 0 -> Int] /\ Sums([i \in 0 .. 0 |-> 0], s, 0)
    BY DEF Sums
  <2> QED
    BY <2>1
<1>2. ASSUME NEW n \in X PROVE n + 1 \in X
  <2> SUFFICES ASSUME n + 1 <= Len(s) PROVE \E g \in [0 .. n + 1 -> Int] : Sums(g, s, n + 1)
    OBVIOUS
  <2>1. PICK f \in [0 .. n -> Int] : Sums(f, s, n)
    BY <1>2
  <2> DEFINE g == [i \in 0 .. n + 1 |-> IF i = n + 1 THEN f[n] + s[n + 1].jiffies ELSE f[i]]
  <2>2. s[n + 1].jiffies \in Int
    <3>1. n + 1 \in 1 .. Len(s)
      BY <1>2, TimerTypes
    <3> QED
      BY <3>1, TimerTypes
  <2>3. g \in [0 .. n + 1 -> Int]
    BY <2>2
  <2>4. \A i \in 0 .. n + 1 : g[i] = IF i = 0 THEN 0 ELSE g[i - 1] + s[i].jiffies
    BY <2>1, SMTT(30) DEF Sums
  <2>5. Sums(g, s, n + 1)
    <3> HIDE DEF g
    <3> QED
      BY <2>3, <2>4 DEF Sums
  <2> QED
    BY <2>3, <2>5
<1> HIDE DEF X
<1>3. X = Nat
  <2>1. X \subseteq Nat
    BY DEF X
  <2> QED
    BY <1>1, <1>2, <2>1, AllNat
<1> QED
  BY <1>3 DEF X

\* ... and it does not depend on k.
LEMMA SumsAreUnique ==
  ASSUME NEW s, NEW k \in Nat, NEW m \in Nat, NEW f, NEW g, Sums(f, s, k), Sums(g, s, m)
  PROVE  \A i \in Nat : i <= k /\ i <= m => f[i] = g[i]
<1> DEFINE X == {i \in Nat : i <= k /\ i <= m => f[i] = g[i]}
<1>1. /\ \A i \in 0 .. k : f[i] = IF i = 0 THEN 0 ELSE f[i - 1] + s[i].jiffies
      /\ \A i \in 0 .. m : g[i] = IF i = 0 THEN 0 ELSE g[i - 1] + s[i].jiffies
  <2>1. \A i \in 0 .. k : f[i] = IF i = 0 THEN 0 ELSE f[i - 1] + s[i].jiffies
    <3> DEFINE h == [i \in 0 .. k |-> IF i = 0 THEN 0 ELSE f[i - 1] + s[i].jiffies]
    <3>1. f = h
      BY DEF Sums
    <3>2. \A i \in 0 .. k : h[i] = IF i = 0 THEN 0 ELSE f[i - 1] + s[i].jiffies
      OBVIOUS
    <3> HIDE DEF h
    <3> QED
      BY <3>1, <3>2
  <2>2. \A i \in 0 .. m : g[i] = IF i = 0 THEN 0 ELSE g[i - 1] + s[i].jiffies
    <3> DEFINE h == [i \in 0 .. m |-> IF i = 0 THEN 0 ELSE g[i - 1] + s[i].jiffies]
    <3>1. g = h
      BY DEF Sums
    <3>2. \A i \in 0 .. m : h[i] = IF i = 0 THEN 0 ELSE g[i - 1] + s[i].jiffies
      OBVIOUS
    <3> HIDE DEF h
    <3> QED
      BY <3>1, <3>2
  <2> QED
    BY <2>1, <2>2
<1>2. 0 \in X
  BY <1>1
<1>3. ASSUME NEW i \in X PROVE i + 1 \in X
  BY <1>1
<1>4. X = Nat
  <2>1. X \subseteq Nat
    OBVIOUS
  <2> HIDE DEF X
  <2> QED
    BY <1>2, <1>3, <2>1, AllNat
<1> QED
  BY <1>4

\* Until() is the value of any such function.
LEMMA UntilIsSum ==
  ASSUME NEW s \in Seq(Timer), NEW k \in 0 .. Len(s)
  PROVE  \A f : Sums(f, s, k) => T!Until(s, k) = f[k]
<1> DEFINE F(f) == f = [i \in 0 .. k |-> IF i = 0 THEN 0 ELSE f[i - 1] + s[i].jiffies]
<1>1. T!Until(s, k) = (CHOOSE f : F(f))[k]
  BY DEF T!Until
<1>2. \E f : F(f)
  BY SumsExist DEF Sums
<1>3. F(CHOOSE f : F(f))
  <2> HIDE DEF F
  <2> QED
    BY <1>2
<1>4. Sums(CHOOSE f : F(f), s, k)
  BY <1>3 DEF Sums
<1> HIDE DEF F
<1> QED
  BY <1>1, <1>4, SumsAreUnique

\* Until() adds up the differences.
LEMMA UntilAddsUp ==
  ASSUME NEW s \in Seq(Timer)
  PROVE  /\ T!Until(s, 0) = 0
         /\ \A k \in 0 .. Len(s) : T!Until(s, k) \in Int
         /\ \A k \in 1 .. Len(s) : T!Until(s, k) = T!Until(s, k - 1) + s[k].jiffies
<1>1. ASSUME NEW k \in 0 .. Len(s) PROVE T!Until(s, k) \in Int /\ (k = 0 => T!Until(s, k) = 0)
  <2>1. PICK f \in [0 .. k -> Int] : Sums(f, s, k)
    BY SumsExist
  <2>2. f[0] = 0
    BY <2>1 DEF Sums
  <2> QED
    BY <2>1, <2>2, UntilIsSum
<1>2. ASSUME NEW k \in 1 .. Len(s) PROVE T!Until(s, k) = T!Until(s, k - 1) + s[k].jiffies
  <2>1. PICK f \in [0 .. k -> Int] : Sums(f, s, k)
    BY SumsExist
  <2>0. k - 1 \in 0 .. Len(s) /\ k \in 0 .. Len(s)
    BY TimerTypes
  <2>2. PICK g \in [0 .. k - 1 -> Int] : Sums(g, s, k - 1)
    BY <2>0, SumsExist
  <2>3. T!Until(s, k) = f[k] /\ T!Until(s, k - 1) = g[k - 1]
    BY <2>0, <2>1, <2>2, UntilIsSum
  <2>4. f[k - 1] = g[k - 1]
    BY <2>1, <2>2, SumsAreUnique, SMTT(30)
  <2>5. f[k] = f[k - 1] + s[k].jiffies
    BY <2>1 DEF Sums
  <2> QED
    BY <2>3, <2>4, <2>5
<1> QED
  BY <1>1, <1>2

\* Where two lists have the same differences, their sums differ by what they
\* differ by before.
SameGaps(s, i, x, r, j, y) == y - j = x - i /\ \A n \in 1 .. x - i : r[j + n].jiffies = s[i + n].jiffies
Ahead(s, i, r, j, d) == T!Until(r, j) = T!Until(s, i) + d

\* By induction over their lengths.
LEMMA UntilUpTo ==
  ASSUME NEW s \in Seq(Timer), NEW r \in Seq(Timer), NEW d \in Int,
         NEW i \in 0 .. Len(s), NEW j \in 0 .. Len(r), NEW x \in i .. Len(s), NEW y \in j .. Len(r),
         Ahead(s, i, r, j, d), SameGaps(s, i, x, r, j, y)
  PROVE  Ahead(s, x, r, y, d)
<1> DEFINE m == x - i
           X == {n \in Nat : n <= m => T!Until(r, j + n) = T!Until(s, i + n) + d}
<1>0. m \in Nat /\ i + m = x /\ j + m = y /\ i + m <= Len(s) /\ j + m <= Len(r)
  BY TimerTypes DEF SameGaps
<1>1. 0 \in X
  BY DEF Ahead
<1>2. ASSUME NEW n \in X PROVE n + 1 \in X
  <2> SUFFICES ASSUME n + 1 <= m PROVE T!Until(r, j + (n + 1)) = T!Until(s, i + (n + 1)) + d
    OBVIOUS
  <2>1. T!Until(r, j + n) = T!Until(s, i + n) + d
    BY <1>2
  <2>2. /\ T!Until(r, j + (n + 1)) = T!Until(r, j + n) + r[j + (n + 1)].jiffies
        /\ T!Until(s, i + (n + 1)) = T!Until(s, i + n) + s[i + (n + 1)].jiffies
    <3>1. j + (n + 1) \in 1 .. Len(r) /\ i + (n + 1) \in 1 .. Len(s)
      BY <1>0, LenProperties
    <3>2. (j + (n + 1)) - 1 = j + n /\ (i + (n + 1)) - 1 = i + n
      OBVIOUS
    <3> QED
      BY <3>1, <3>2, UntilAddsUp
  <2>3. T!Until(s, i + n) \in Int /\ s[i + (n + 1)].jiffies \in Int
    <3>1. i + n \in 0 .. Len(s) /\ i + (n + 1) \in 1 .. Len(s)
      BY <1>0, LenProperties
    <3> QED
      BY <3>1, UntilAddsUp, TimerTypes
  <2>4. r[j + (n + 1)].jiffies = s[i + (n + 1)].jiffies
    <3>1. n + 1 \in 1 .. m
      BY <1>2
    <3> QED
      BY <3>1 DEF SameGaps
  <2> QED
    BY <2>1, <2>2, <2>3, <2>4, SMTT(30)
<1>3. X = Nat
  <2>1. X \subseteq Nat
    OBVIOUS
  <2> HIDE DEF X
  <2> QED
    BY <1>1, <1>2, <2>1, AllNat
<1>4. m \in X
  BY <1>0, <1>3
<1> QED
  BY <1>0, <1>4, SMTT(30) DEF Ahead

\* No timer fires before the first one, if no other difference is negative.
LEMMA UntilGrows ==
  ASSUME NEW s \in Seq(Timer), \A i \in 2 .. Len(s) : s[i].jiffies >= 0,
         NEW k \in 1 .. Len(s)
  PROVE  T!Until(s, k) >= s[1].jiffies
<1> DEFINE X == {n \in Nat : n + 1 <= Len(s) => T!Until(s, n + 1) >= s[1].jiffies}
<1>0. \A i \in 1 .. Len(s) : s[i].jiffies \in Int
  BY TimerTypes
<1>1. 0 \in X
  BY <1>0, UntilAddsUp
<1>2. ASSUME NEW n \in X PROVE n + 1 \in X
  <2> SUFFICES ASSUME (n + 1) + 1 <= Len(s) PROVE T!Until(s, (n + 1) + 1) >= s[1].jiffies
    OBVIOUS
  <2>1. T!Until(s, n + 1) >= s[1].jiffies
    BY <1>2, LenProperties
  <2>2. (n + 1) + 1 \in 2 .. Len(s) /\ n + 1 \in 1 .. Len(s) /\ ((n + 1) + 1) - 1 = n + 1
    BY LenProperties
  <2>3. T!Until(s, (n + 1) + 1) = T!Until(s, n + 1) + s[(n + 1) + 1].jiffies
    BY <2>2, UntilAddsUp
  <2>4. T!Until(s, n + 1) \in Int /\ s[(n + 1) + 1].jiffies \in Int /\ s[1].jiffies \in Int
    BY <2>2, <1>0, UntilAddsUp
  <2>5. s[(n + 1) + 1].jiffies >= 0
    BY <2>2
  <2> QED
    BY <2>1, <2>3, <2>4, <2>5
<1>3. X = Nat
  <2>1. X \subseteq Nat
    OBVIOUS
  <2> HIDE DEF X
  <2> QED
    BY <1>1, <1>2, <2>1, AllNat
<1>4. k - 1 \in X /\ (k - 1) + 1 = k
  <2>1. k - 1 \in Nat /\ (k - 1) + 1 = k
    BY TimerTypes
  <2> HIDE DEF X
  <2> QED
    BY <2>1, <1>3
<1> QED
  BY <1>4, TimerTypes

\* A list in which no timer fires early: the first one may be late, as far as
\* the loop was interrupted, and the differences of the others are no less
\* than 0.
InTime(s) ==
  /\ s \in Seq(Timer)
  /\ \A i \in 2 .. Len(s) : s[i].jiffies >= 0
  /\ s # << >> => s[1].jiffies >= -MaxLate
  /\ \A k \in 1 .. Len(s) : T!Until(s, k) >= s[k].left

TimerInv ==
  InTime(timers) /\ Len(timers) <= TIME_REQUESTS /\ calling \in BOOLEAN /\ enabled \in BOOLEAN

\* The constants are numbers.
LEMMA TimerBounds == TIME_REQUESTS \in Nat /\ MaxTime \in Nat /\ MaxLate \in Nat
  BY TimerAssumption

\* The place of a new timer: all before it fire earlier, the next does not.
LEMMA PlaceOfTimer ==
  ASSUME NEW s \in Seq(Timer), NEW j \in Int
  PROVE  \E k \in 0 .. Len(s) :
           /\ k < Len(s) => T!Until(s, k + 1) >= j
           /\ \A l \in 1 .. k : T!Until(s, l) < j
           /\ T!Insert(s, j) = T!InsertAt(s, k + 1, [jiffies |-> j - T!Until(s, k), left |-> j])
<1> DEFINE IsPlace(k) == /\ k < Len(s) => T!Until(s, k + 1) >= j
                         /\ \A l \in 1 .. k : T!Until(s, l) < j
           X == {i \in 0 .. Len(s) : i < Len(s) => T!Until(s, i + 1) >= j}
<1>1. Len(s) \in X /\ X \subseteq Nat
  BY TimerTypes
<1>2. PICK k \in X : \A i \in X : k <= i
  <2> HIDE DEF X
  <2> QED
    BY <1>1, LeastNat
<1>3. \A l \in 1 .. k : T!Until(s, l) < j
  <2> SUFFICES ASSUME NEW l \in 1 .. k PROVE T!Until(s, l) < j
    OBVIOUS
  <2>0. k \in 0 .. Len(s)
    BY <1>2
  <2>1. l - 1 \notin X /\ k \in 0 .. Len(s)
    <3>1. ~ (k <= l - 1)
      BY <2>0, TimerTypes
    <3> HIDE DEF X
    <3> QED
      BY <2>0, <3>1, <1>2
  <2>2. l - 1 \in 0 .. Len(s) /\ l - 1 < Len(s) /\ (l - 1) + 1 = l /\ l \in 0 .. Len(s)
    BY <2>1, TimerTypes
  <2>3. ~ (T!Until(s, l) >= j)
    BY <2>1, <2>2
  <2> QED
    BY <2>2, <2>3, UntilAddsUp
<1>4. k \in 0 .. Len(s) /\ IsPlace(k)
  BY <1>2, <1>3
<1> DEFINE c == CHOOSE i \in 0 .. Len(s) : IsPlace(i)
<1>5. c \in 0 .. Len(s) /\ IsPlace(c)
  <2> HIDE DEF IsPlace
  <2> QED
    BY <1>4
<1>6. T!Insert(s, j) = T!InsertAt(s, c + 1, [jiffies |-> j - T!Until(s, c), left |-> j])
  BY DEF T!Insert
<1> HIDE DEF c
<1> QED
  BY <1>5, <1>6

\* The list with one more timer behind the first k.
LEMMA TimersWithOneMore ==
  ASSUME NEW s \in Seq(Timer), NEW k \in 0 .. Len(s), NEW e \in Timer
  PROVE  LET r == T!InsertAt(s, k + 1, e)
         IN  /\ r \in Seq(Timer) /\ Len(r) = Len(s) + 1
             /\ \A i \in 1 .. Len(s) + 1 :
                  r[i] = IF i <= k THEN s[i] ELSE IF i = k + 1 THEN e ELSE s[i - 1]
<1> DEFINE a == SubSeq(s, 1, k)
           z == SubSeq(s, k + 1, Len(s))
<1>1. Len(s) \in Nat /\ \A i \in 1 .. Len(s) : s[i] \in Timer
  BY TimerTypes
<1>2. a \in Seq(Timer) /\ Len(a) = k /\ \A i \in 1 .. k : a[i] = s[i]
  <2>1. \A i \in 1 .. k : s[i] \in Timer
    BY <1>1
  <2>2. Len(a) = IF 1 <= k THEN k - 1 + 1 ELSE 0
    BY <2>1, SubSeqProperties
  <2>3. \A i \in 1 .. k - 1 + 1 : a[i] = s[1 + i - 1]
    BY <2>1, SubSeqProperties
  <2>4. a \in Seq(Timer)
    BY <2>1, SubSeqProperties
  <2>5. k \in Nat
    BY <1>1
  <2> HIDE DEF a, z
  <2>6. Len(a) = k
    BY ONLY <2>2, <2>5
  <2>7. ASSUME NEW i \in 1 .. k PROVE a[i] = s[i]
    <3>1. i \in 1 .. k - 1 + 1 /\ 1 + i - 1 = i
      BY <2>5
    <3> QED
      BY ONLY <2>3, <3>1
  <2> QED
    BY ONLY <2>4, <2>6, <2>7
<1>3. z \in Seq(Timer) /\ Len(z) = Len(s) - k /\ \A i \in 1 .. Len(s) - k : z[i] = s[k + i]
  <2>1. \A i \in k + 1 .. Len(s) : s[i] \in Timer
    BY <1>1
  <2>2. Len(z) = IF k + 1 <= Len(s) THEN Len(s) - (k + 1) + 1 ELSE 0
    BY <2>1, <1>1, SubSeqProperties
  <2>3. \A i \in 1 .. Len(s) - (k + 1) + 1 : z[i] = s[(k + 1) + i - 1]
    BY <2>1, <1>1, SubSeqProperties
  <2>4. z \in Seq(Timer)
    BY <2>1, <1>1, SubSeqProperties
  <2> HIDE DEF z
  <2> QED
    BY <2>2, <2>3, <2>4, <1>1
<1>4. T!InsertAt(s, k + 1, e) = (a \o <<e>>) \o z
  <2>1. (k + 1) - 1 = k
    BY <1>1
  <2>2. T!InsertAt(s, k + 1, e) = SubSeq(s, 1, (k + 1) - 1) \o <<e>> \o z
    BY DEF T!InsertAt
  <2> QED
    BY <2>1, <2>2
<1> HIDE DEF a, z
<1>5. /\ a \o <<e>> \in Seq(Timer) /\ Len(a \o <<e>>) = k + 1
      /\ \A i \in 1 .. k + 1 : (a \o <<e>>)[i] = IF i <= k THEN s[i] ELSE e
  <2>1. <<e>> \in Seq(Timer) /\ Len(<<e>>) = 1 /\ <<e>>[1] = e
    OBVIOUS
  <2>2. /\ a \o <<e>> \in Seq(Timer) /\ Len(a \o <<e>>) = Len(a) + Len(<<e>>)
        /\ \A i \in 1 .. Len(a) + Len(<<e>>) : (a \o <<e>>)[i] = IF i <= Len(a) THEN a[i] ELSE <<e>>[i - Len(a)]
    BY <1>2, <2>1, ConcatProperties
  <2> QED
    BY <1>2, <2>1, <2>2
<1> DEFINE b == a \o <<e>>
<1> HIDE DEF b
<1>6. /\ b \o z \in Seq(Timer) /\ Len(b \o z) = Len(s) + 1
      /\ \A i \in 1 .. Len(s) + 1 : (b \o z)[i] = IF i <= k + 1 THEN b[i] ELSE z[i - (k + 1)]
  <2>1. /\ b \o z \in Seq(Timer) /\ Len(b \o z) = Len(b) + Len(z)
        /\ \A i \in 1 .. Len(b) + Len(z) : (b \o z)[i] = IF i <= Len(b) THEN b[i] ELSE z[i - Len(b)]
    BY <1>3, <1>5, ConcatProperties DEF b
  <2> QED
    BY <1>1, <1>3, <1>5, <2>1 DEF b
<1>7. \A i \in 1 .. Len(s) + 1 : (b \o z)[i] = IF i <= k THEN s[i] ELSE IF i = k + 1 THEN e ELSE s[i - 1]
  <2> SUFFICES ASSUME NEW i \in 1 .. Len(s) + 1
               PROVE  (b \o z)[i] = IF i <= k THEN s[i] ELSE IF i = k + 1 THEN e ELSE s[i - 1]
    OBVIOUS
  <2>1. CASE i <= k + 1
    BY <2>1, <1>1, <1>5, <1>6 DEF b
  <2>2. CASE i > k + 1
    <3>1. i - (k + 1) \in 1 .. Len(s) - k /\ k + (i - (k + 1)) = i - 1
      BY <2>2, <1>1
    <3>2. z[i - (k + 1)] = s[k + (i - (k + 1))]
      BY <3>1, <1>3
    <3>3. (b \o z)[i] = z[i - (k + 1)]
      BY <2>2, <1>1, <1>6
    <3> QED
      BY <2>2, <3>1, <3>2, <3>3, <1>1
  <2>3. i <= k + 1 \/ i > k + 1
    BY <1>1
  <2> QED
    BY <2>1, <2>2, <2>3
<1> DEFINE r == T!InsertAt(s, k + 1, e)
<1>8. r = b \o z
  BY <1>4 DEF b
<1> HIDE DEF r
<1>9. /\ r \in Seq(Timer) /\ Len(r) = Len(s) + 1
      /\ \A i \in 1 .. Len(s) + 1 : r[i] = IF i <= k THEN s[i] ELSE IF i = k + 1 THEN e ELSE s[i - 1]
  BY <1>6, <1>7, <1>8
<1> QED
  BY <1>9 DEF r

\* add_timer() makes no timer early, neither the new one nor those behind it.
LEMMA InsertInTime ==
  ASSUME NEW s, InTime(s), NEW j \in Nat \ {0}
  PROVE  InTime(T!Insert(s, j)) /\ Len(T!Insert(s, j)) = Len(s) + 1
<1>1. s \in Seq(Timer) /\ Len(s) \in Nat /\ \A i \in 1 .. Len(s) : s[i] \in Timer /\ s[i].jiffies \in Int /\ s[i].left \in Int
  BY TimerTypes DEF InTime
<1>2. PICK k \in 0 .. Len(s) :
        /\ k < Len(s) => T!Until(s, k + 1) >= j
        /\ \A l \in 1 .. k : T!Until(s, l) < j
        /\ T!Insert(s, j) = T!InsertAt(s, k + 1, [jiffies |-> j - T!Until(s, k), left |-> j])
  BY <1>1, PlaceOfTimer
<1> DEFINE e == [jiffies |-> j - T!Until(s, k), left |-> j]
           r == T!Insert(s, j)
<1>3. T!Until(s, k) \in Int /\ T!Until(s, 0) = 0 /\ (k = 0 \/ T!Until(s, k) < j)
  BY <1>1, <1>2, UntilAddsUp
<1>4. e \in Timer /\ e.jiffies = j - T!Until(s, k) /\ e.jiffies >= 0 /\ e.left = j
  BY <1>3 DEF Timer
<1>5. /\ r \in Seq(Timer) /\ Len(r) = Len(s) + 1
      /\ \A i \in 1 .. Len(s) + 1 : r[i] = IF i <= k THEN s[i] ELSE IF i = k + 1 THEN e ELSE s[i - 1]
  <2> HIDE DEF e
  <2> QED
    BY <1>1, <1>2, <1>4, TimersWithOneMore DEF e
<1> HIDE DEF e, r
<1>6. \A i \in 2 .. Len(r) : r[i].jiffies >= 0
  <2> SUFFICES ASSUME NEW i \in 2 .. Len(r) PROVE r[i].jiffies >= 0
    OBVIOUS
  <2>1. i \in 1 .. Len(s) + 1 /\ Len(r) = Len(s) + 1
    BY <1>5, <1>1
  <2>2. CASE i <= k
    BY <2>1, <2>2, <1>1, <1>5 DEF InTime
  <2>3. CASE i = k + 1
    BY <2>1, <2>3, <1>4, <1>5
  <2>4. CASE i > k + 1 /\ i - 1 >= 2
    <3>1. i - 1 \in 2 .. Len(s) /\ r[i] = s[i - 1]
      BY <2>1, <2>4, <1>1, <1>5
    <3> QED
      BY <3>1 DEF InTime
  <2>5. CASE i > k + 1 /\ i - 1 = 1
    <3>1. k = 0 /\ r[i] = s[1] /\ 0 < Len(s)
      BY <2>1, <2>5, <1>1, <1>5
    <3>2. T!Until(s, 1) = s[1].jiffies
      BY <3>1, <1>1, <1>3, UntilAddsUp
    <3> QED
      BY <3>1, <3>2, <1>1, <1>2
  <2> QED
    BY <2>1, <2>2, <2>3, <2>4, <2>5, <1>1
<1>7. r[1].jiffies >= -MaxLate
  <2>1. CASE k = 0
    <3>1. r[1] = e
      BY <2>1, <1>1, <1>5
    <3> QED
      BY <3>1, <1>3, <1>4, TimerBounds
  <2>2. CASE k # 0
    BY <2>2, <1>1, <1>5 DEF InTime
  <2> QED
    BY <2>1, <2>2
<1>8. \A i \in 0 .. k : T!Until(r, i) = T!Until(s, i)
  <2> SUFFICES ASSUME NEW i \in 0 .. k PROVE T!Until(r, i) = T!Until(s, i)
    OBVIOUS
  <2>0. s \in Seq(Timer) /\ r \in Seq(Timer) /\ 0 \in Int
    BY <1>1, <1>5
  <2>1. Ahead(s, 0, r, 0, 0)
    BY <1>1, <1>5, UntilAddsUp DEF Ahead
  <2>2. SameGaps(s, 0, i, r, 0, i)
    BY <1>1, <1>5 DEF SameGaps
  <2>3. i \in 0 .. Len(s) /\ i \in 0 .. Len(r) /\ 0 \in 0 .. Len(s) /\ 0 \in 0 .. Len(r)
    BY <1>1, <1>5
  <2>4. Ahead(s, i, r, i, 0)
    BY ONLY <2>0, <2>1, <2>2, <2>3, UntilUpTo
  <2>5. T!Until(s, i) \in Int
    BY <1>1, UntilAddsUp
  <2> QED
    BY <2>4, <2>5 DEF Ahead
<1>9. T!Until(r, k + 1) = j
  <2>1. k + 1 \in 1 .. Len(r) /\ (k + 1) - 1 = k /\ r[k + 1] = e /\ k \in 0 .. k
    BY <1>1, <1>5, SMTT(30)
  <2>2. T!Until(r, k + 1) = T!Until(r, k) + e.jiffies
    BY <2>1, <1>5, UntilAddsUp
  <2> QED
    BY <2>1, <2>2, <1>3, <1>4, <1>8
<1>10. \A i \in k .. Len(s) : T!Until(r, i + 1) = T!Until(s, i) + e.jiffies
  <2> SUFFICES ASSUME NEW i \in k .. Len(s) PROVE T!Until(r, i + 1) = T!Until(s, i) + e.jiffies
    OBVIOUS
  <2>1. Ahead(s, k, r, k + 1, e.jiffies)
    BY <1>3, <1>4, <1>9 DEF Ahead
  <2>2. SameGaps(s, k, i, r, k + 1, i + 1)
    <3>1. \A n \in 1 .. i - k : (k + 1) + n \in 1 .. Len(s) + 1 /\ (k + 1) + n > k + 1 /\ ((k + 1) + n) - 1 = k + n
      BY <1>1
    <3>2. \A n \in 1 .. i - k : r[(k + 1) + n] = s[k + n]
      BY <3>1, <1>5
    <3>3. (i + 1) - (k + 1) = i - k
      BY <1>1
    <3> QED
      BY <3>2, <3>3 DEF SameGaps
  <2>3. /\ s \in Seq(Timer) /\ r \in Seq(Timer) /\ k \in 0 .. Len(s) /\ i \in k .. Len(s)
        /\ k + 1 \in 0 .. Len(r) /\ i + 1 \in k + 1 .. Len(r) /\ e.jiffies \in Int
    <3>1. Len(s) \in Nat /\ Len(r) = Len(s) + 1 /\ k \in 0 .. Len(s) /\ i \in k .. Len(s)
      BY <1>1, <1>5
    <3>2. k + 1 \in 0 .. Len(r) /\ i + 1 \in k + 1 .. Len(r)
      BY <3>1
    <3>3. e.jiffies \in Int
      BY <1>3, <1>4
    <3> QED
      BY <1>1, <1>5, <3>1, <3>2, <3>3
  <2>4. Ahead(s, i, r, i + 1, e.jiffies)
    BY ONLY <2>1, <2>2, <2>3, UntilUpTo
  <2> QED
    BY <2>4 DEF Ahead
<1>11. \A i \in 1 .. Len(r) : T!Until(r, i) >= r[i].left
  <2> SUFFICES ASSUME NEW i \in 1 .. Len(r) PROVE T!Until(r, i) >= r[i].left
    OBVIOUS
  <2>1. CASE i <= k
    BY <2>1, <1>1, <1>5, <1>8 DEF InTime
  <2>2. CASE i = k + 1
    BY <2>2, <1>4, <1>5, <1>9
  <2>3. CASE i > k + 1
    <3>1. i - 1 \in k .. Len(s) /\ i - 1 \in 1 .. Len(s) /\ (i - 1) + 1 = i /\ r[i] = s[i - 1]
      BY <2>3, <1>1, <1>5
    <3>2. T!Until(r, i) = T!Until(s, i - 1) + e.jiffies
      BY <3>1, <1>10
    <3>3. T!Until(s, i - 1) >= s[i - 1].left /\ T!Until(s, i - 1) \in Int /\ s[i - 1].left \in Int /\ e.jiffies \in Int
      BY <3>1, <1>1, <1>3, <1>4, UntilAddsUp DEF InTime
    <3> QED
      BY <3>1, <3>2, <3>3, <1>4
  <2> QED
    BY <2>1, <2>2, <2>3, <1>1, <1>5
<1> QED
  BY <1>5, <1>6, <1>7, <1>11 DEF InTime, r

\* The greater one of two numbers.
LEMMA TimerMax == ASSUME NEW x \in Int, NEW y \in Int PROVE T!Max({x, y}) = IF x >= y THEN x ELSE y
<1> DEFINE IsMax(z) == \A w \in {x, y} : z >= w
<1>1. \E z \in {x, y} : IsMax(z)
  OBVIOUS
<1>2. (CHOOSE z \in {x, y} : IsMax(z)) \in {x, y} /\ IsMax(CHOOSE z \in {x, y} : IsMax(z))
  <2> HIDE DEF IsMax
  <2> QED
    BY <1>1
<1>3. T!Max({x, y}) = CHOOSE z \in {x, y} : IsMax(z)
  BY DEF T!Max
<1> QED
  BY <1>2, <1>3

\* A tick: all sums are one less, and the first timer is the least.
LEMMA TimerTick == TimerInv /\ T!Tick => TimerInv'
<1> SUFFICES ASSUME TimerInv, T!Tick PROVE TimerInv'
  OBVIOUS
<1> DEFINE s == timers
           r == timers'
<1>1. s \in Seq(Timer) /\ Len(s) \in Nat /\ \A i \in 1 .. Len(s) : s[i] \in Timer /\ s[i].jiffies \in Int /\ s[i].left \in Int
  BY TimerTypes DEF TimerInv, InTime
<1>2. DOMAIN s = 1 .. Len(s) /\ (s # << >> => Len(s) >= 1 /\ Head(s) = s[1])
  BY <1>1, LenProperties, EmptySeq
<1>3. r = [i \in 1 .. Len(s) |-> [jiffies |-> s[i].jiffies - (IF i = 1 THEN 1 ELSE 0),
                                  left |-> T!Max({s[i].left - 1, -MaxLate})]]
  BY <1>2 DEF T!Tick
<1>4. \A i \in 1 .. Len(s) :
        /\ r[i].jiffies = s[i].jiffies - (IF i = 1 THEN 1 ELSE 0)
        /\ r[i].left = IF s[i].left - 1 >= -MaxLate THEN s[i].left - 1 ELSE -MaxLate
        /\ r[i] \in Timer
  <2> SUFFICES ASSUME NEW i \in 1 .. Len(s)
               PROVE  /\ r[i].jiffies = s[i].jiffies - (IF i = 1 THEN 1 ELSE 0)
                      /\ r[i].left = IF s[i].left - 1 >= -MaxLate THEN s[i].left - 1 ELSE -MaxLate
                      /\ r[i] \in Timer
    OBVIOUS
  <2>1. T!Max({s[i].left - 1, -MaxLate}) = IF s[i].left - 1 >= -MaxLate THEN s[i].left - 1 ELSE -MaxLate
    <3>1. s[i].left - 1 \in Int /\ -MaxLate \in Int
      BY <1>1, TimerBounds
    <3> QED
      BY ONLY <3>1, TimerMax
  <2>2. r[i] = [jiffies |-> s[i].jiffies - (IF i = 1 THEN 1 ELSE 0), left |-> T!Max({s[i].left - 1, -MaxLate})]
    BY <1>3
  <2>3. T!Max({s[i].left - 1, -MaxLate}) \in Int
    BY <2>1, <1>1, TimerBounds
  <2> QED
    BY <2>1, <2>2, <2>3, <1>1, TimerBounds DEF Timer
<1>5. r \in Seq(Timer) /\ Len(r) = Len(s)
  BY <1>1, <1>3, <1>4
<1> HIDE DEF r
<1>6. s # << >> => s[1].jiffies > -MaxLate
  BY <1>2 DEF T!Tick
<1>7. \A k \in 1 .. Len(s) : T!Until(r, k) = T!Until(s, k) - 1
  <2> SUFFICES ASSUME NEW k \in 1 .. Len(s) PROVE T!Until(r, k) = T!Until(s, k) - 1
    OBVIOUS
  <2>1. Ahead(s, 1, r, 1, -1)
    <3>1. 1 \in 1 .. Len(s)
      BY <1>1
    <3>2. T!Until(s, 1) = 0 + s[1].jiffies /\ T!Until(r, 1) = 0 + r[1].jiffies
      BY <3>1, <1>1, <1>5, UntilAddsUp
    <3> QED
      BY <3>1, <3>2, <1>1, <1>4 DEF Ahead
  <2>2. SameGaps(s, 1, k, r, 1, k)
    <3>1. \A n \in 1 .. k - 1 : 1 + n \in 1 .. Len(s) /\ 1 + n # 1
      BY <1>1
    <3>2. \A n \in 1 .. k - 1 : r[1 + n].jiffies = s[1 + n].jiffies - 0 /\ s[1 + n].jiffies \in Int
      BY <3>1, <1>1, <1>4
    <3> QED
      BY <3>2 DEF SameGaps
  <2>3. 1 \in 0 .. Len(s) /\ 1 \in 0 .. Len(r) /\ k \in 1 .. Len(s) /\ k \in 1 .. Len(r) /\ -1 \in Int
    BY <1>1, <1>5
  <2>4. Ahead(s, k, r, k, -1)
    BY <2>1, <2>2, <2>3, <1>1, <1>5, UntilUpTo
  <2>5. T!Until(s, k) \in Int
    BY <1>1, UntilAddsUp
  <2> QED
    BY <2>4, <2>5 DEF Ahead
<1>8. \A i \in 2 .. Len(r) : r[i].jiffies >= 0
  <2> SUFFICES ASSUME NEW i \in 2 .. Len(s) PROVE r[i].jiffies >= 0
    BY <1>5
  <2>1. i \in 1 .. Len(s) /\ s[i].jiffies >= 0
    BY <1>1 DEF TimerInv, InTime
  <2> QED
    BY <2>1, <1>1, <1>4
<1>9. r # << >> => r[1].jiffies >= -MaxLate
  <2> SUFFICES ASSUME r # << >> PROVE r[1].jiffies >= -MaxLate
    OBVIOUS
  <2>1. 1 \in 1 .. Len(s) /\ s # << >>
    BY <1>1, <1>5, EmptySeq
  <2> QED
    BY <2>1, <1>1, <1>4, <1>6, TimerBounds
<1>10. \A k \in 1 .. Len(r) : T!Until(r, k) >= r[k].left
  <2> SUFFICES ASSUME NEW k \in 1 .. Len(s) PROVE T!Until(r, k) >= r[k].left
    BY <1>5
  <2>1. T!Until(s, k) >= s[k].left /\ T!Until(s, k) >= s[1].jiffies
    BY <1>1, UntilGrows DEF TimerInv, InTime
  <2>2. 1 \in 1 .. Len(s) /\ s # << >>
    BY <1>1, EmptySeq
  <2>3. T!Until(s, k) \in Int
    BY <1>1, UntilAddsUp
  <2> QED
    BY <2>1, <2>2, <2>3, <1>1, <1>4, <1>6, <1>7, TimerBounds, SMTT(30)
<1>11. Len(r) <= TIME_REQUESTS
  BY <1>5 DEF TimerInv
<1>12. InTime(r)
  BY <1>5, <1>8, <1>9, <1>10 DEF InTime
<1>13. calling' = TRUE /\ enabled' = FALSE
  BY DEF T!Tick
<1> QED
  BY <1>11, <1>12, <1>13 DEF TimerInv, r

\* The rest of the list, when its first timer is due: no sum is less.
LEMMA TailInTime ==
  ASSUME NEW s, InTime(s), T!Due(s)
  PROVE  InTime(Tail(s)) /\ Len(Tail(s)) = Len(s) - 1 /\ Len(s) >= 1
<1> DEFINE r == Tail(s)
<1>1. s \in Seq(Timer) /\ Len(s) \in Nat /\ \A i \in 1 .. Len(s) : s[i] \in Timer /\ s[i].jiffies \in Int /\ s[i].left \in Int
  BY TimerTypes DEF InTime
<1>2. s # << >> /\ Len(s) >= 1 /\ s[1].jiffies <= 0
  BY <1>1, EmptySeq DEF T!Due
<1>3. r \in Seq(Timer) /\ Len(r) = Len(s) - 1 /\ \A i \in 1 .. Len(s) - 1 : r[i] = s[i + 1]
  BY <1>1, <1>2
<1> HIDE DEF r
<1>4. \A k \in 1 .. Len(r) : T!Until(r, k) = T!Until(s, k + 1) - s[1].jiffies
  <2> SUFFICES ASSUME NEW k \in 1 .. Len(r) PROVE T!Until(r, k) = T!Until(s, k + 1) - s[1].jiffies
    OBVIOUS
  <2>1. Ahead(s, 1, r, 0, -s[1].jiffies)
    <3>1. 1 \in 1 .. Len(s)
      BY <1>1, <1>2
    <3>2. T!Until(s, 1) = 0 + s[1].jiffies /\ T!Until(r, 0) = 0
      BY <3>1, <1>1, <1>3, UntilAddsUp
    <3> QED
      BY <3>1, <3>2, <1>1 DEF Ahead
  <2>2. SameGaps(s, 1, k + 1, r, 0, k)
    BY <1>1, <1>3 DEF SameGaps
  <2>3. /\ 1 \in 0 .. Len(s) /\ 0 \in 0 .. Len(r) /\ k + 1 \in 1 .. Len(s) /\ k \in 0 .. Len(r)
        /\ -s[1].jiffies \in Int
    BY <1>1, <1>2, <1>3
  <2>4. Ahead(s, k + 1, r, k, -s[1].jiffies)
    BY <2>1, <2>2, <2>3, <1>1, <1>3, UntilUpTo
  <2>5. T!Until(s, k + 1) \in Int /\ s[1].jiffies \in Int
    <3>1. k + 1 \in 0 .. Len(s) /\ 1 \in 1 .. Len(s)
      BY <1>1, <1>2, <1>3
    <3> QED
      BY <3>1, <1>1, UntilAddsUp
  <2> QED
    BY <2>4, <2>5 DEF Ahead
<1>5. \A i \in 1 .. Len(r) : r[i].jiffies >= 0
  <2> SUFFICES ASSUME NEW i \in 1 .. Len(r) PROVE r[i].jiffies >= 0
    OBVIOUS
  <2>1. i + 1 \in 2 .. Len(s) /\ r[i] = s[i + 1]
    BY <1>1, <1>3
  <2> QED
    BY <2>1 DEF InTime
<1>6. \A k \in 1 .. Len(r) : T!Until(r, k) >= r[k].left
  <2> SUFFICES ASSUME NEW k \in 1 .. Len(r) PROVE T!Until(r, k) >= r[k].left
    OBVIOUS
  <2>1. k + 1 \in 1 .. Len(s) /\ 1 \in 1 .. Len(s) /\ r[k] = s[k + 1]
    BY <1>1, <1>2, <1>3
  <2>2. T!Until(s, k + 1) >= s[k + 1].left
    BY <2>1 DEF InTime
  <2>3. T!Until(s, k + 1) \in Int
    BY <2>1, <1>1, UntilAddsUp
  <2> QED
    BY <2>1, <2>2, <2>3, <1>1, <1>2, <1>4
<1>7. r # << >> => r[1].jiffies >= -MaxLate
  <2> SUFFICES ASSUME r # << >> PROVE r[1].jiffies >= -MaxLate
    OBVIOUS
  <2>1. 1 \in 1 .. Len(r) /\ 2 \in 1 .. Len(s) /\ r[1] = s[2]
    BY <1>1, <1>3, EmptySeq
  <2> QED
    BY <2>1, <1>1, <1>5, TimerBounds
<1>8. \A i \in 2 .. Len(r) : r[i].jiffies >= 0
  BY <1>1, <1>3, <1>5
<1> QED
  BY <1>2, <1>3, <1>6, <1>7, <1>8 DEF InTime, r

\* add_timer(), from an interrupt or a function that do_timer() calls.
LEMMA TimerAdd == ASSUME TimerInv, NEW j \in 1 .. MaxTime, T!add_timer(j) PROVE TimerInv'
<1>1. j \in Nat \ {0} /\ Len(timers) \in Nat
  BY TimerBounds, TimerTypes DEF TimerInv, InTime
<1>2. InTime(timers') /\ Len(timers') = Len(timers) + 1
  BY <1>1, InsertInTime DEF TimerInv, T!add_timer
<1> QED
  BY <1>1, <1>2, TimerBounds DEF TimerInv, T!add_timer

\* do_timer() takes the first timer out of the list and calls its function.
LEMMA TimerCall == TimerInv /\ T!Call => TimerInv'
<1> SUFFICES ASSUME TimerInv, T!Call PROVE TimerInv'
  OBVIOUS
<1>1. T!Due(timers)
  BY DEF T!Call
<1>2. InTime(Tail(timers)) /\ Len(Tail(timers)) = Len(timers) - 1 /\ Len(timers) \in Nat /\ Len(timers) >= 1
  BY <1>1, TailInTime, TimerTypes DEF TimerInv, InTime
<1>3. PICK j \in 0 .. MaxTime :
        /\ timers' = IF j = 0 THEN Tail(timers) ELSE T!Insert(Tail(timers), j)
        /\ enabled' = (enabled \/ j > 0)
  BY DEF T!Call
<1>4. InTime(timers') /\ Len(timers') <= TIME_REQUESTS
  <2>1. CASE j = 0
    BY <2>1, <1>2, <1>3, TimerBounds DEF TimerInv
  <2>2. CASE j # 0
    <3>1. j \in Nat \ {0}
      BY <2>2, TimerBounds
    <3>2. InTime(T!Insert(Tail(timers), j)) /\ Len(T!Insert(Tail(timers), j)) = Len(Tail(timers)) + 1
      BY <3>1, <1>2, InsertInTime
    <3> QED
      BY <2>2, <3>2, <1>2, <1>3, TimerBounds DEF TimerInv
  <2> QED
    BY <2>1, <2>2
<1>5. calling' \in BOOLEAN /\ enabled' \in BOOLEAN
  BY <1>3 DEF TimerInv, T!Call
<1> QED
  BY <1>4, <1>5 DEF TimerInv

\* Every step of the table of timers.
LEMMA TimerStep == TimerInv /\ [T!Next]_tvars => TimerInv'
<1> SUFFICES ASSUME TimerInv, [T!Next]_tvars PROVE TimerInv'
  OBVIOUS
<1>1. CASE UNCHANGED tvars
  BY <1>1 DEF tvars, TimerInv
<1>2. CASE T!Return
  BY <1>2 DEF T!Return, TimerInv
<1> QED
  BY <1>1, <1>2, TimerTick, TimerCall, TimerAdd DEF T!Next

\* At the start there are no timers.
LEMMA TimerStart == T!Init => TimerInv
<1> SUFFICES ASSUME T!Init PROVE TimerInv
  OBVIOUS
<1>1. timers = << >> /\ timers \in Seq(Timer) /\ Len(timers) = 0
  BY EmptySeq DEF T!Init
<1>2. InTime(timers)
  BY <1>1 DEF InTime
<1>3. Len(timers) <= TIME_REQUESTS
  BY <1>1, TimerBounds
<1> QED
  BY <1>2, <1>3 DEF T!Init, TimerInv

\* The first timer, when it is due, has no time left.
LEMMA TimerInvIsEnough == TimerInv => T!NeverEarly
<1> SUFFICES ASSUME TimerInv PROVE T!NeverEarly
  OBVIOUS
<1>1. timers \in Seq(Timer) /\ Len(timers) \in Nat /\ \A i \in 1 .. Len(timers) : timers[i].jiffies \in Int /\ timers[i].left \in Int
  BY TimerTypes DEF TimerInv, InTime
<1>2. DOMAIN timers = 1 .. Len(timers)
  BY <1>1, LenProperties
<1>3. ASSUME T!Due(timers) PROVE Head(timers).left <= 0
  <2>1. 1 \in 1 .. Len(timers) /\ timers # << >> /\ Head(timers) = timers[1] /\ timers[1].jiffies <= 0
    BY <1>1, <1>3, EmptySeq DEF T!Due
  <2>2. T!Until(timers, 1) = 0 + timers[1].jiffies /\ T!Until(timers, 1) >= timers[1].left
    BY <2>1, <1>1, UntilAddsUp DEF TimerInv, InTime
  <2> QED
    BY <2>1, <2>2, <1>1
<1> QED
  BY <1>2, <1>3 DEF T!NeverEarly, TimerInv, InTime

\* No timer of add_timer() fires before the ticks it was set for have passed
\* (Timers): for any number of timers, of times, and of ticks that come late.
THEOREM TimersAreNeverEarly == TablesSpec => []NeverEarly
<1>1. TablesInit => TimerInv
  BY TimerStart DEF TablesInit
<1>2. TimerInv /\ [TablesNext]_<<vars, pvars, svars, tvars, mvars, lvars, yvars, table>> => TimerInv'
  BY EachTable, TimerStep
<1>3. TimerInv => NeverEarly
  BY TimerInvIsEnough DEF NeverEarly
<1> QED
  BY <1>1, <1>2, <1>3, PTL DEF TablesSpec
-----------------------------------------------------------------------------
\* fork.c and exit.c: the links of the family tree.  k is the table of tasks;
\* a task of it that is more than a copy of its parent is grown.
Tab(k) == {i \in P!Slots : k[i] # NULL}
Grown(k) == {i \in Tab(k) : k[i].at # "new"}
Kids(k, p) == {c \in Grown(k) : k[c].p_pptr = p}

\* r orders the children of one parent: the links of siblings lead to the next
\* one on either side, and a parent's to the youngest.
Differ(k, r) == \A a, b \in Grown(k) : a # b /\ k[a].p_pptr = k[b].p_pptr => r[a] # r[b]
Older(k, r) ==
  \A a \in Grown(k) :
    IF k[a].p_osptr = NULL THEN \A b \in Kids(k, k[a].p_pptr) : r[a] <= r[b]
    ELSE /\ k[a].p_osptr \in Kids(k, k[a].p_pptr) /\ r[k[a].p_osptr] < r[a]
         /\ \A b \in Kids(k, k[a].p_pptr) : r[b] <= r[k[a].p_osptr] \/ r[a] <= r[b]
Younger(k, r) ==
  \A a \in Grown(k) :
    IF k[a].p_ysptr = NULL THEN \A b \in Kids(k, k[a].p_pptr) : r[b] <= r[a]
    ELSE /\ k[a].p_ysptr \in Kids(k, k[a].p_pptr) /\ r[a] < r[k[a].p_ysptr]
         /\ \A b \in Kids(k, k[a].p_pptr) : r[b] <= r[a] \/ r[k[a].p_ysptr] <= r[b]
Youngest(k, r) ==
  \A p \in Grown(k) :
    IF k[p].p_cptr = NULL THEN Kids(k, p) = {}
    ELSE k[p].p_cptr \in Kids(k, p) /\ \A b \in Kids(k, p) : r[b] <= r[k[p].p_cptr]
Siblings(k, r) ==
  r \in [P!Slots -> Nat] /\ Differ(k, r) /\ Older(k, r) /\ Younger(k, r) /\ Youngest(k, r)

\* d falls from each task to its parent, until init is reached.
Descends(k, d) ==
  /\ d \in [P!Slots -> Nat]
  /\ \A a \in Grown(k) \ {0, 1} :
       /\ k[a].p_pptr \in Grown(k) \ {0, a}
       /\ k[a].p_pptr = 1 \/ d[k[a].p_pptr] < d[a]

Linked(k) == \E r : Siblings(k, r)
Rooted(k) == \E d : Descends(k, d)

\* Task 0 and init are there for ever.
Roots(k) ==
  /\ {0, 1} \subseteq Grown(k)
  /\ k[0].p_pptr = NULL /\ k[0].pid = 0 /\ k[1].p_pptr = 0
  /\ k[1].at \notin {"files", "zombie"} /\ k[0].at = "user"

\* No two tasks have the same pid.  Between find_empty_process() and
\* copy_process() the slot is free and nobody has the pid; and a task that is
\* being made is made by one other.
Forks(k, last) ==
  /\ \A p, q \in Tab(k) : p # q => k[p].pid # k[q].pid
  /\ \A p \in Tab(k) : k[p].at = "page" =>
       /\ k[p].nr \in P!Slots /\ k[k[p].nr] = NULL
       /\ \A q \in Tab(k) : k[q].pid # last /\ (k[q].at = "page" => q = p)
  /\ \A p \in Tab(k) : k[p].at = "mem" =>
       /\ k[p].nr \in Tab(k) \ Grown(k)
       /\ \A q \in Tab(k) : k[q].at = "mem" /\ k[q].nr = k[p].nr => q = p

\* A zombie has left its children to init, ...
Childless(k) == \A p \in Grown(k) : k[p].at = "zombie" => k[p].p_cptr = NULL

\* ... and has told its parent.
Told(k) ==
  \A p, c \in Grown(k) :
    k[p].at = "wait" /\ k[c].p_pptr = p /\ k[c].at = "zombie" /\ k[p].want \in {-1, k[c].pid} => k[p].sigchld

TreeInv ==
  /\ P!TypeOK /\ Roots(task) /\ Forks(task, last_pid) /\ Childless(task) /\ Told(task)
  /\ Linked(task) /\ Rooted(task)

\* The task pointers are no NULL.
LEMMA TaskTypes ==
  ASSUME P!TypeOK
  PROVE  /\ task \in [P!Slots -> P!Task \cup {NULL}]
         /\ \A q \in Tab(task) : /\ q \in P!Slots /\ q # NULL /\ q \in P!Ptr /\ task[q] \in P!Task
                                 /\ task[q].at \in {"user", "page", "mem", "new", "files", "zombie", "wait"}
                                 /\ task[q].pid \in 0 .. MaxPid /\ task[q].sigchld \in BOOLEAN
                                 /\ task[q].want \in -1 .. MaxPid
                                 /\ {task[q].nr, task[q].p_pptr, task[q].p_cptr, task[q].p_ysptr, task[q].p_osptr} \subseteq P!Ptr
         /\ P!InTable = Tab(task) /\ P!Whole = Grown(task)
         /\ {0, 1} \subseteq P!Slots /\ P!Slots \subseteq Nat
BY TaskAssumption DEF P!TypeOK, P!Task, P!Ptr, P!Slots, Tab, Grown, P!InTable, P!Whole

\* The walk of Along() of at most n steps: one round more, and the function of
\* all of them.
Nobody == [q \in P!Ptr |-> {}]
Round(next, w) == [q \in P!Ptr |-> IF q = NULL \/ task[q] = NULL THEN {} ELSE {q} \cup w[next[q]]]
Walks(f, n, next) == f = [i \in 0 .. n |-> IF i = 0 THEN Nobody ELSE Round(next, f[i - 1])]

\* There is such a function.
LEMMA WalksExist ==
  ASSUME NEW next
  PROVE  \E f : Walks(f, NR_TASKS, next)
<1> DEFINE X == {n \in Nat : \E f : Walks(f, n, next)}
<1>1. 0 \in X
  <2>1. Walks([i \in 0 .. 0 |-> Nobody], 0, next)
    BY DEF Walks
  <2> QED
    BY <2>1
<1>2. ASSUME NEW n \in X PROVE n + 1 \in X
  <2>1. PICK f : Walks(f, n, next)
    OBVIOUS
  <2> DEFINE h == [i \in 0 .. n |-> IF i = 0 THEN Nobody ELSE Round(next, f[i - 1])]
             g == [i \in 0 .. n + 1 |-> IF i = n + 1 THEN Round(next, f[n]) ELSE f[i]]
  <2>2. f = h
    BY <2>1 DEF Walks
  <2>3. \A i \in 0 .. n : h[i] = IF i = 0 THEN Nobody ELSE Round(next, f[i - 1])
    OBVIOUS
  <2>4. \A i \in 0 .. n + 1 : g[i] = IF i = n + 1 THEN Round(next, f[n]) ELSE f[i]
    OBVIOUS
  <2>5. DOMAIN g = 0 .. n + 1 /\ g = [i \in 0 .. n + 1 |-> g[i]]
    OBVIOUS
  <2> HIDE DEF h, g
  <2>6. \A i \in 0 .. n + 1 : g[i] = IF i = 0 THEN Nobody ELSE Round(next, g[i - 1])
    <3> TAKE i \in 0 .. n + 1
    <3>1. CASE i = n + 1
      BY <2>4, <3>1
    <3>2. CASE i # n + 1
      <4>1. i \in 0 .. n /\ (i # 0 => i - 1 \in 0 .. n + 1 /\ i - 1 # n + 1)
        BY <3>2
      <4> QED
        BY <2>2, <2>3, <2>4, <4>1
    <3> QED
      BY <3>1, <3>2
  <2>7. g = [i \in 0 .. n + 1 |-> IF i = 0 THEN Nobody ELSE Round(next, g[i - 1])]
    BY <2>5, <2>6
  <2>8. Walks(g, n + 1, next)
    BY <2>7 DEF Walks
  <2> QED
    BY <2>8
<1> HIDE DEF X
<1>3. X = Nat
  <2>1. X \subseteq Nat
    BY DEF X
  <2> QED
    BY <1>1, <1>2, <2>1, AllNat
<1> QED
  BY <1>3, TaskAssumption DEF X

\* Along() is its last value.
LEMMA AlongIsWalk ==
  ASSUME NEW next, NEW x
  PROVE  \E f : Walks(f, NR_TASKS, next) /\ P!Along(next, x) = f[NR_TASKS][x]
<1> DEFINE W == CHOOSE f : Walks(f, NR_TASKS, next)
<1>1. Walks(W, NR_TASKS, next)
  BY WalksExist
<1>2. P!Along(next, x) = W[NR_TASKS][x]
  BY DEF P!Along, Walks, Nobody, Round
<1> QED
  BY <1>1, <1>2

\* The walk meets every task that lies ahead: D of each task of A is itself
\* and what D the next one has.
LEMMA WalkReaches ==
  ASSUME NEW next, NEW A \in SUBSET Tab(task), NEW D, D[NULL] = {}, NULL \notin A,
         \A q \in A : /\ next[q] \in A \cup {NULL} /\ D[q] = {q} \cup D[next[q]] /\ q \notin D[next[q]]
                      /\ D[q] \subseteq P!Slots,
         NEW x \in A \cup {NULL}
  PROVE  P!Along(next, x) = D[x]
<1>1. PICK f : Walks(f, NR_TASKS, next) /\ P!Along(next, x) = f[NR_TASKS][x]
  BY AlongIsWalk
<1> DEFINE h == [i \in 0 .. NR_TASKS |-> IF i = 0 THEN Nobody ELSE Round(next, f[i - 1])]
<1>2. f = h
  BY <1>1 DEF Walks
<1>3. \A i \in 0 .. NR_TASKS : h[i] = IF i = 0 THEN Nobody ELSE Round(next, f[i - 1])
  OBVIOUS
<1> HIDE DEF h
<1>4. IsFiniteSet(P!Slots) /\ Cardinality(P!Slots) = NR_TASKS
  BY FS_Interval, TaskAssumption DEF P!Slots
<1>5. \A q \in A \cup {NULL} : IsFiniteSet(D[q]) /\ Cardinality(D[q]) \in Nat /\ Cardinality(D[q]) <= NR_TASKS
  <2>1. \A q \in A \cup {NULL} : D[q] \subseteq P!Slots
    OBVIOUS
  <2> QED
    BY <1>4, <2>1, FS_Subset, FS_CardinalityType
<1> DEFINE X == {n \in Nat : n <= NR_TASKS =>
                   \A q \in A \cup {NULL} : Cardinality(D[q]) <= n => f[n][q] = D[q]}
<1>6. 0 \in X
  <2>1. f[0] = Nobody
    BY <1>2, <1>3, TaskAssumption
  <2> SUFFICES ASSUME NEW q \in A \cup {NULL}, Cardinality(D[q]) <= 0 PROVE f[0][q] = D[q]
    OBVIOUS
  <2>2. D[q] = {}
    BY <1>5, FS_EmptySet
  <2>3. q \in P!Ptr
    BY DEF P!Ptr, Tab
  <2> QED
    BY <2>1, <2>2, <2>3 DEF Nobody
<1>7. ASSUME NEW n \in X PROVE n + 1 \in X
  <2> SUFFICES ASSUME n + 1 <= NR_TASKS, NEW q \in A \cup {NULL}, Cardinality(D[q]) <= n + 1
               PROVE  f[n + 1][q] = D[q]
    OBVIOUS
  <2>1. n <= NR_TASKS /\ n + 1 \in 0 .. NR_TASKS /\ n + 1 - 1 = n /\ n + 1 # 0
    BY TaskAssumption
  <2>2. f[n + 1] = Round(next, f[n])
    BY <1>2, <1>3, <2>1
  <2>3. q \in P!Ptr
    BY DEF P!Ptr, Tab
  <2>4. f[n + 1][q] = IF q = NULL \/ task[q] = NULL THEN {} ELSE {q} \cup f[n][next[q]]
    BY <2>2, <2>3 DEF Round
  <2>5. CASE q = NULL
    BY <2>4, <2>5
  <2>6. CASE q # NULL
    <3>1. q \in A /\ task[q] # NULL /\ next[q] \in A \cup {NULL}
      BY <2>6 DEF Tab
    <3>2. Cardinality(D[q]) = Cardinality(D[next[q]]) + 1
      BY <1>5, <3>1, FS_AddElement
    <3>3. Cardinality(D[next[q]]) <= n
      BY <1>5, <3>1, <3>2
    <3>4. f[n][next[q]] = D[next[q]]
      BY <2>1, <3>1, <3>3
    <3> QED
      BY <2>4, <3>1, <3>4
  <2> QED
    BY <2>5, <2>6
<1>8. X = Nat
  <2>1. X \subseteq Nat
    OBVIOUS
  <2> HIDE DEF X
  <2> QED
    BY <1>6, <1>7, <2>1, AllNat
<1>9. Cardinality(D[x]) <= NR_TASKS => f[NR_TASKS][x] = D[x]
  BY <1>8, TaskAssumption
<1> QED
  BY <1>1, <1>5, <1>9

\* The ranks have a bound; a nonempty set of tasks has one of the lowest and
\* one of the highest rank.
LEMMA RanksBounded ==
  ASSUME NEW r \in [P!Slots -> Nat]
  PROVE  \E n \in Nat : \A q \in P!Slots : r[q] < n
<1> DEFINE X == {m \in Nat : m <= NR_TASKS => \E n \in Nat : \A q \in 0 .. m - 1 : r[q] < n}
<1>1. 0 \in X
  OBVIOUS
<1>2. ASSUME NEW m \in X PROVE m + 1 \in X
  <2> SUFFICES ASSUME m + 1 <= NR_TASKS PROVE \E n \in Nat : \A q \in 0 .. (m + 1) - 1 : r[q] < n
    OBVIOUS
  <2>1. PICK n \in Nat : \A q \in 0 .. m - 1 : r[q] < n
    BY TaskAssumption
  <2>2. m \in P!Slots /\ r[m] \in Nat
    BY TaskAssumption DEF P!Slots
  <2>3. CASE r[m] < n
    BY <2>1, <2>3, SMTT(30)
  <2>4. CASE ~(r[m] < n)
    <3> DEFINE l == r[m] + 1
    <3>1. \A q \in 0 .. (m + 1) - 1 : r[q] < l
      <4> TAKE q \in 0 .. (m + 1) - 1
      <4>1. q \in P!Slots /\ r[q] \in Nat
        BY TaskAssumption DEF P!Slots
      <4>2. CASE q = m
        BY <2>2, <4>2
      <4>3. CASE q # m
        <5>1. r[q] < n
          BY <2>1, <4>3
        <5> QED
          BY <2>2, <2>4, <4>1, <5>1
      <4> QED
        BY <4>2, <4>3
    <3>2. l \in Nat
      BY <2>2
    <3> HIDE DEF l
    <3> QED
      BY <3>1, <3>2
  <2> QED
    BY <2>3, <2>4
<1>3. X = Nat
  <2>1. X \subseteq Nat
    OBVIOUS
  <2> HIDE DEF X
  <2> QED
    BY <1>1, <1>2, <2>1, AllNat
<1>4. NR_TASKS <= NR_TASKS => \E n \in Nat : \A q \in 0 .. NR_TASKS - 1 : r[q] < n
  <2> HIDE DEF X
  <2>1. NR_TASKS \in X
    BY <1>3, TaskAssumption
  <2> QED
    BY <2>1 DEF X
<1> QED
  BY <1>4, TaskAssumption DEF P!Slots

\* A set of tasks has one of the lowest rank.
LEMMA LowestRank ==
  ASSUME NEW r \in [P!Slots -> Nat], NEW Z \in SUBSET P!Slots, Z # {}
  PROVE  \E z \in Z : \A y \in Z : r[z] <= r[y]
<1> DEFINE X == {r[z] : z \in Z}
<1>1. X \in SUBSET Nat /\ X # {}
  OBVIOUS
<1>2. PICK x \in X : \A y \in X : x <= y
  BY <1>1, LeastNat
<1> QED
  BY <1>2

\* Likewise the highest.
LEMMA HighestRank ==
  ASSUME NEW r \in [P!Slots -> Nat], NEW Z \in SUBSET P!Slots, Z # {}
  PROVE  \E z \in Z : \A y \in Z : r[y] <= r[z]
<1>1. PICK n \in Nat : \A q \in P!Slots : r[q] < n
  BY RanksBounded
<1> DEFINE g == [q \in P!Slots |-> n - r[q]]
<1>2. g \in [P!Slots -> Nat]
  BY <1>1
<1>3. PICK z \in Z : \A y \in Z : g[z] <= g[y]
  BY <1>2, LowestRank
<1>4. \A y \in Z : n - r[z] <= n - r[y]
  BY <1>3
<1>5. \A y \in Z : r[y] <= r[z]
  BY <1>1, <1>4
<1> QED
  BY <1>5

\* From each child its older siblings are reached, and its younger ones.
LEMMA OldersAre ==
  ASSUME P!TypeOK, NEW r, Siblings(task, r), NEW a \in Grown(task)
  PROVE  P!Along([q \in P!InTable |-> task[q].p_osptr], a) = {b \in Kids(task, task[a].p_pptr) : r[b] <= r[a]}
<1> DEFINE next == [q \in P!InTable |-> task[q].p_osptr]
           D == [q \in P!Ptr |-> IF q = NULL THEN {} ELSE {b \in Kids(task, task[q].p_pptr) : r[b] <= r[q]}]
<1>1. D[NULL] = {} /\ NULL \notin Grown(task) /\ Grown(task) \subseteq Tab(task)
  BY TaskAssumption DEF P!Ptr, Grown, Tab
<1>2. ASSUME NEW q \in Grown(task)
      PROVE  /\ next[q] \in Grown(task) \cup {NULL}
             /\ D[q] = {q} \cup D[next[q]] /\ q \notin D[next[q]] /\ D[q] \subseteq P!Slots
  <2>1. q \in P!Ptr /\ q # NULL /\ q \in P!InTable /\ next[q] = task[q].p_osptr /\ next[q] \in P!Ptr
    BY TaskTypes DEF Grown
  <2>2. D[q] = {b \in Kids(task, task[q].p_pptr) : r[b] <= r[q]}
    BY <2>1
  <2>3. q \in Kids(task, task[q].p_pptr)
    BY DEF Kids
  <2>4. \A b \in Grown(task) : r[b] \in Nat
    BY DEF Siblings, Grown, Tab
  <2>5. CASE task[q].p_osptr = NULL
    <3>1. D[next[q]] = {}
      BY <1>1, <2>1, <2>5
    <3>2. \A b \in Kids(task, task[q].p_pptr) : r[b] <= r[q] => b = q
      BY <2>4, <2>5 DEF Siblings, Older, Differ, Kids
    <3>3. D[q] = {q}
      BY <2>2, <2>3, <2>4, <3>2
    <3> QED
      BY <2>1, <2>2, <2>5, <3>1, <3>3 DEF Kids, Grown, Tab
  <2>6. CASE task[q].p_osptr # NULL
    <3> DEFINE o == task[q].p_osptr
    <3>1. o \in Kids(task, task[q].p_pptr) /\ r[o] < r[q] /\ o \in Grown(task)
          /\ \A b \in Kids(task, task[q].p_pptr) : r[b] <= r[o] \/ r[q] <= r[b]
      BY <2>6 DEF Siblings, Older, Kids
    <3>2. D[o] = {b \in Kids(task, task[q].p_pptr) : r[b] <= r[o]}
      BY <2>1, <2>6, <3>1 DEF Kids
    <3>3. \A b \in Kids(task, task[q].p_pptr) : r[b] <= r[q] <=> (b = q \/ r[b] <= r[o])
      BY <2>3, <2>4, <3>1 DEF Siblings, Differ, Kids
    <3>4. ~(r[q] <= r[o])
      BY <2>4, <3>1
    <3>5. D[q] = {q} \cup D[o] /\ q \notin D[o]
      BY <2>2, <2>3, <3>2, <3>3, <3>4
    <3>6. D[q] \subseteq P!Slots
      BY <2>2 DEF Kids, Grown, Tab
    <3> QED
      BY <2>1, <3>1, <3>5, <3>6
  <2> QED
    BY <2>5, <2>6
<1>3. D[a] = {b \in Kids(task, task[a].p_pptr) : r[b] <= r[a]}
  BY TaskTypes DEF Grown
<1> HIDE DEF next, D
<1>4. P!Along(next, a) = D[a]
  BY <1>1, <1>2, WalkReaches
<1> QED
  BY <1>3, <1>4 DEF next

\* Likewise along the younger siblings.
LEMMA YoungersAre ==
  ASSUME P!TypeOK, NEW r, Siblings(task, r), NEW a \in Grown(task)
  PROVE  P!Along([q \in P!InTable |-> task[q].p_ysptr], a) = {b \in Kids(task, task[a].p_pptr) : r[a] <= r[b]}
<1> DEFINE next == [q \in P!InTable |-> task[q].p_ysptr]
           D == [q \in P!Ptr |-> IF q = NULL THEN {} ELSE {b \in Kids(task, task[q].p_pptr) : r[q] <= r[b]}]
<1>1. D[NULL] = {} /\ NULL \notin Grown(task) /\ Grown(task) \subseteq Tab(task)
  BY TaskAssumption DEF P!Ptr, Grown, Tab
<1>2. ASSUME NEW q \in Grown(task)
      PROVE  /\ next[q] \in Grown(task) \cup {NULL}
             /\ D[q] = {q} \cup D[next[q]] /\ q \notin D[next[q]] /\ D[q] \subseteq P!Slots
  <2>1. q \in P!Ptr /\ q # NULL /\ q \in P!InTable /\ next[q] = task[q].p_ysptr /\ next[q] \in P!Ptr
    BY TaskTypes DEF Grown
  <2>2. D[q] = {b \in Kids(task, task[q].p_pptr) : r[q] <= r[b]}
    BY <2>1
  <2>3. q \in Kids(task, task[q].p_pptr)
    BY DEF Kids
  <2>4. \A b \in Grown(task) : r[b] \in Nat
    BY DEF Siblings, Grown, Tab
  <2>5. CASE task[q].p_ysptr = NULL
    <3>1. D[next[q]] = {}
      BY <1>1, <2>1, <2>5
    <3>2. \A b \in Kids(task, task[q].p_pptr) : r[q] <= r[b] => b = q
      BY <2>4, <2>5 DEF Siblings, Younger, Differ, Kids
    <3>3. D[q] = {q}
      BY <2>2, <2>3, <2>4, <3>2
    <3> QED
      BY <2>1, <2>2, <2>5, <3>1, <3>3 DEF Kids, Grown, Tab
  <2>6. CASE task[q].p_ysptr # NULL
    <3> DEFINE o == task[q].p_ysptr
    <3>1. o \in Kids(task, task[q].p_pptr) /\ r[q] < r[o] /\ o \in Grown(task)
          /\ \A b \in Kids(task, task[q].p_pptr) : r[b] <= r[q] \/ r[o] <= r[b]
      BY <2>6 DEF Siblings, Younger, Kids
    <3>2. D[o] = {b \in Kids(task, task[q].p_pptr) : r[o] <= r[b]}
      BY <2>1, <2>6, <3>1 DEF Kids
    <3>3. \A b \in Kids(task, task[q].p_pptr) : r[q] <= r[b] <=> (b = q \/ r[o] <= r[b])
      BY <2>3, <2>4, <3>1 DEF Siblings, Differ, Kids
    <3>4. ~(r[o] <= r[q])
      BY <2>4, <3>1
    <3>5. D[q] = {q} \cup D[o] /\ q \notin D[o]
      BY <2>2, <2>3, <3>2, <3>3, <3>4
    <3>6. D[q] \subseteq P!Slots
      BY <2>2 DEF Kids, Grown, Tab
    <3> QED
      BY <2>1, <3>1, <3>5, <3>6
  <2> QED
    BY <2>5, <2>6
<1>3. D[a] = {b \in Kids(task, task[a].p_pptr) : r[a] <= r[b]}
  BY TaskTypes DEF Grown
<1> HIDE DEF next, D
<1>4. P!Along(next, a) = D[a]
  BY <1>1, <1>2, WalkReaches
<1> QED
  BY <1>3, <1>4 DEF next

\* From the youngest child all children are reached.
LEMMA ChildrenAre ==
  ASSUME P!TypeOK, Linked(task), NEW p \in Grown(task)
  PROVE  P!Children(p) = Kids(task, p)
<1>1. PICK r : Siblings(task, r)
  BY DEF Linked
<1>2. P!Children(p) = P!Along([q \in P!InTable |-> task[q].p_osptr], task[p].p_cptr)
  BY DEF P!Children
<1>3. CASE task[p].p_cptr = NULL
  <2>1. Kids(task, p) = {}
    BY <1>1, <1>3 DEF Siblings, Youngest
  <2>2. PICK f : Walks(f, NR_TASKS, [q \in P!InTable |-> task[q].p_osptr])
                 /\ P!Children(p) = f[NR_TASKS][NULL]
    BY <1>2, <1>3, AlongIsWalk
  <2> DEFINE next == [q \in P!InTable |-> task[q].p_osptr]
             D == [q \in {NULL} |-> {}]
  <2>3. P!Along(next, NULL) = D[NULL]
    <3>1. D[NULL] = {}
      OBVIOUS
    <3> HIDE DEF next, D
    <3>2. \A q \in {} : /\ next[q] \in {} \cup {NULL} /\ D[q] = {q} \cup D[next[q]] /\ q \notin D[next[q]]
                        /\ D[q] \subseteq P!Slots
      OBVIOUS
    <3>3. {} \in SUBSET Tab(task) /\ NULL \notin {} /\ NULL \in {} \cup {NULL}
      OBVIOUS
    <3> QED
      BY <3>1, <3>2, <3>3, WalkReaches
  <2> QED
    BY <1>2, <1>3, <2>1, <2>3
<1>4. CASE task[p].p_cptr # NULL
  <2> DEFINE c == task[p].p_cptr
  <2>1. c \in Kids(task, p) /\ c \in Grown(task) /\ task[c].p_pptr = p /\ \A b \in Kids(task, p) : r[b] <= r[c]
    BY <1>1, <1>4 DEF Siblings, Youngest, Kids
  <2>2. P!Children(p) = {b \in Kids(task, task[c].p_pptr) : r[b] <= r[c]}
    BY <1>1, <1>2, <2>1, OldersAre
  <2> QED
    BY <2>1, <2>2
<1> QED
  BY <1>3, <1>4

-----------------------------------------------------------------------------
\* Steps that leave the links alone.
Keeps(k, m) ==
  /\ Grown(m) = Grown(k)
  /\ \A q \in Grown(k) : /\ m[q].p_pptr = k[q].p_pptr /\ m[q].p_cptr = k[q].p_cptr
                         /\ m[q].p_ysptr = k[q].p_ysptr /\ m[q].p_osptr = k[q].p_osptr

\* The tree is as before, with the same ranks and depths.
LEMMA TreeKept ==
  ASSUME NEW k, NEW m, Keeps(k, m)
  PROVE  (Linked(k) => Linked(m)) /\ (Rooted(k) => Rooted(m))
<1>1. \A p : Kids(m, p) = Kids(k, p)
  BY DEF Keeps, Kids
<1>2. ASSUME NEW r, Siblings(k, r) PROVE Siblings(m, r)
  <2>1. Differ(m, r)
    BY <1>2 DEF Siblings, Differ, Keeps
  <2>2. Older(m, r)
    BY <1>1, <1>2 DEF Siblings, Older, Keeps
  <2>3. Younger(m, r)
    BY <1>1, <1>2 DEF Siblings, Younger, Keeps
  <2>4. Youngest(m, r)
    BY <1>1, <1>2 DEF Siblings, Youngest, Keeps
  <2> QED
    BY <1>2, <2>1, <2>2, <2>3, <2>4 DEF Siblings
<1>3. ASSUME NEW d, Descends(k, d) PROVE Descends(m, d)
  BY <1>3 DEF Descends, Keeps
<1> QED
  BY <1>2, <1>3 DEF Linked, Rooted

\* A new task c becomes the youngest child of p.
Born(k, m, c, p) ==
  /\ Grown(m) = Grown(k) \cup {c}
  /\ m[c].p_pptr = p /\ m[c].p_cptr = NULL /\ m[c].p_ysptr = NULL /\ m[c].p_osptr = k[p].p_cptr
  /\ \A q \in Grown(k) : /\ m[q].p_pptr = k[q].p_pptr /\ m[q].p_osptr = k[q].p_osptr
                         /\ m[q].p_cptr = IF q = p THEN c ELSE k[q].p_cptr
                         /\ m[q].p_ysptr = IF q = k[p].p_cptr THEN c ELSE k[q].p_ysptr

\* It has the highest rank of all.
LEMMA BirthLinks ==
  ASSUME NEW k, NEW m, NEW p \in Grown(k), NEW c \in P!Slots, c \notin Grown(k), Born(k, m, c, p),
         Linked(k), \A q \in Grown(k) : k[q].p_pptr # c
  PROVE  Linked(m)
<1>1. PICK r : Siblings(k, r)
  BY DEF Linked
<1>2. PICK n \in Nat : \A q \in P!Slots : r[q] < n
  BY <1>1, RanksBounded DEF Siblings
<1> DEFINE l == [r EXCEPT ![c] = n]
<1>3. l \in [P!Slots -> Nat] /\ l[c] = n /\ c # NULL /\ p # c /\ c \notin {NULL}
  BY <1>1, <1>2, TaskAssumption DEF Siblings
<1>4. \A q \in Grown(k) : q \in P!Slots /\ q # c /\ q # NULL /\ l[q] = r[q] /\ r[q] \in Nat /\ r[q] < n
  BY <1>1, <1>2, TaskAssumption DEF Siblings, Grown, Tab
<1> HIDE DEF l
<1>5. \A x : Kids(m, x) = IF x = p THEN Kids(k, p) \cup {c} ELSE Kids(k, x)
  BY DEF Kids, Born
<1>6. \A x : Kids(k, x) \subseteq Grown(k)
  BY DEF Kids
<1>7. Kids(m, c) = {}
  BY <1>3, <1>5 DEF Kids
<1>8. Differ(m, l)
  <2> SUFFICES ASSUME NEW a \in Grown(m), NEW b \in Grown(m), a # b, m[a].p_pptr = m[b].p_pptr PROVE l[a] # l[b]
    BY DEF Differ
  <2>1. CASE a \in Grown(k) /\ b \in Grown(k)
    BY <1>1, <1>4, <2>1 DEF Siblings, Differ, Born
  <2>2. CASE a = c \/ b = c
    <3>1. (a = c /\ b \in Grown(k)) \/ (b = c /\ a \in Grown(k))
      BY <2>2 DEF Born
    <3> QED
      BY <1>3, <1>4, <3>1
  <2> QED
    BY <2>1, <2>2 DEF Born
<1>9. k[p].p_cptr # NULL => k[p].p_cptr \in Kids(k, p) /\ \A b \in Kids(k, p) : r[b] <= r[k[p].p_cptr]
  BY <1>1 DEF Siblings, Youngest
<1>10. k[p].p_cptr = NULL => Kids(k, p) = {}
  BY <1>1 DEF Siblings, Youngest
<1>11. Older(m, l)
  <2> SUFFICES ASSUME NEW a \in Grown(m)
               PROVE  IF m[a].p_osptr = NULL THEN \A b \in Kids(m, m[a].p_pptr) : l[a] <= l[b]
                      ELSE /\ m[a].p_osptr \in Kids(m, m[a].p_pptr) /\ l[m[a].p_osptr] < l[a]
                           /\ \A b \in Kids(m, m[a].p_pptr) : l[b] <= l[m[a].p_osptr] \/ l[a] <= l[b]
    BY DEF Older
  <2>1. CASE a = c
    <3>1. m[a].p_osptr = k[p].p_cptr /\ Kids(m, m[a].p_pptr) = Kids(k, p) \cup {c}
      BY <1>5, <2>1 DEF Born
    <3>2. CASE k[p].p_cptr = NULL
      BY <1>3, <1>10, <2>1, <3>1, <3>2
    <3>3. CASE k[p].p_cptr # NULL
      BY <1>3, <1>4, <1>6, <1>9, <2>1, <3>1, <3>3
    <3> QED
      BY <3>2, <3>3
  <2>2. CASE a \in Grown(k)
    <3>1. m[a].p_osptr = k[a].p_osptr /\ m[a].p_pptr = k[a].p_pptr
      BY <2>2 DEF Born
    <3>2. \A b \in Kids(m, m[a].p_pptr) : b = c \/ b \in Kids(k, k[a].p_pptr)
      BY <1>5, <3>1
    <3>3. Kids(k, k[a].p_pptr) \subseteq Kids(m, m[a].p_pptr)
      BY <1>5, <3>1
    <3>4. CASE k[a].p_osptr = NULL
      <4>1. \A b \in Kids(k, k[a].p_pptr) : r[a] <= r[b]
        BY <1>1, <2>2, <3>4 DEF Siblings, Older
      <4> QED
        BY <1>3, <1>4, <1>6, <2>2, <3>1, <3>2, <3>4, <4>1
    <3>5. CASE k[a].p_osptr # NULL
      <4>1. /\ k[a].p_osptr \in Kids(k, k[a].p_pptr) /\ r[k[a].p_osptr] < r[a]
            /\ \A b \in Kids(k, k[a].p_pptr) : r[b] <= r[k[a].p_osptr] \/ r[a] <= r[b]
        BY <1>1, <2>2, <3>5 DEF Siblings, Older
      <4> QED
        BY <1>3, <1>4, <1>6, <2>2, <3>1, <3>2, <3>3, <3>5, <4>1
    <3> QED
      BY <3>4, <3>5
  <2> QED
    BY <2>1, <2>2 DEF Born
<1>12. Younger(m, l)
  <2> SUFFICES ASSUME NEW a \in Grown(m)
               PROVE  IF m[a].p_ysptr = NULL THEN \A b \in Kids(m, m[a].p_pptr) : l[b] <= l[a]
                      ELSE /\ m[a].p_ysptr \in Kids(m, m[a].p_pptr) /\ l[a] < l[m[a].p_ysptr]
                           /\ \A b \in Kids(m, m[a].p_pptr) : l[b] <= l[a] \/ l[m[a].p_ysptr] <= l[b]
    BY DEF Younger
  <2>1. CASE a = c
    <3>1. m[a].p_ysptr = NULL /\ Kids(m, m[a].p_pptr) = Kids(k, p) \cup {c}
      BY <1>5, <2>1 DEF Born
    <3> QED
      BY <1>3, <1>4, <1>6, <2>1, <3>1
  <2>2. CASE a \in Grown(k) /\ a = k[p].p_cptr
    <3>1. a \in Kids(k, p) /\ \A b \in Kids(k, p) : r[b] <= r[a]
      BY <1>4, <1>9, <2>2
    <3>2. m[a].p_ysptr = c /\ m[a].p_pptr = p /\ Kids(m, p) = Kids(k, p) \cup {c}
      BY <1>5, <2>2, <3>1 DEF Born, Kids
    <3> QED
      BY <1>3, <1>4, <1>6, <2>2, <3>1, <3>2
  <2>3. CASE a \in Grown(k) /\ a # k[p].p_cptr
    <3>1. m[a].p_ysptr = k[a].p_ysptr /\ m[a].p_pptr = k[a].p_pptr
      BY <2>3 DEF Born
    <3>2. \A b \in Kids(m, m[a].p_pptr) : (b = c /\ k[a].p_pptr = p) \/ b \in Kids(k, k[a].p_pptr)
      BY <1>5, <3>1
    <3>3. Kids(k, k[a].p_pptr) \subseteq Kids(m, m[a].p_pptr)
      BY <1>5, <3>1
    <3>4. CASE k[a].p_ysptr = NULL
      <4>1. \A b \in Kids(k, k[a].p_pptr) : r[b] <= r[a]
        BY <1>1, <2>3, <3>4 DEF Siblings, Younger
      <4>2. k[a].p_pptr # p
        <5> SUFFICES ASSUME k[a].p_pptr = p PROVE FALSE
          OBVIOUS
        <5>1. a \in Kids(k, p)
          BY <2>3 DEF Kids
        <5>2. k[p].p_cptr \in Kids(k, p) /\ r[a] <= r[k[p].p_cptr]
          BY <1>9, <1>10, <5>1
        <5>3. r[k[p].p_cptr] <= r[a] /\ k[p].p_cptr \in Grown(k) /\ k[k[p].p_cptr].p_pptr = k[a].p_pptr
          BY <4>1, <5>2 DEF Kids
        <5>4. r[k[p].p_cptr] # r[a]
          BY <1>1, <2>3, <5>3 DEF Siblings, Differ
        <5> QED
          BY <1>4, <2>3, <5>2, <5>3, <5>4
      <4> QED
        BY <1>3, <1>4, <1>6, <2>3, <3>1, <3>2, <3>4, <4>1, <4>2
    <3>5. CASE k[a].p_ysptr # NULL
      <4>1. /\ k[a].p_ysptr \in Kids(k, k[a].p_pptr) /\ r[a] < r[k[a].p_ysptr]
            /\ \A b \in Kids(k, k[a].p_pptr) : r[b] <= r[a] \/ r[k[a].p_ysptr] <= r[b]
        BY <1>1, <2>3, <3>5 DEF Siblings, Younger
      <4> QED
        BY <1>3, <1>4, <1>6, <2>3, <3>1, <3>2, <3>3, <3>5, <4>1
    <3> QED
      BY <3>4, <3>5
  <2> QED
    BY <2>1, <2>2, <2>3 DEF Born
<1>13. Youngest(m, l)
  <2> SUFFICES ASSUME NEW q \in Grown(m)
               PROVE  IF m[q].p_cptr = NULL THEN Kids(m, q) = {}
                      ELSE m[q].p_cptr \in Kids(m, q) /\ \A b \in Kids(m, q) : l[b] <= l[m[q].p_cptr]
    BY DEF Youngest
  <2>1. CASE q = c
    BY <1>7, <2>1 DEF Born
  <2>2. CASE q = p
    <3>1. m[q].p_cptr = c /\ Kids(m, q) = Kids(k, p) \cup {c}
      BY <1>5, <2>2 DEF Born
    <3> QED
      BY <1>3, <1>4, <1>6, <3>1
  <2>3. CASE q \in Grown(k) /\ q # p
    <3>1. m[q].p_cptr = k[q].p_cptr /\ Kids(m, q) = Kids(k, q)
      BY <1>5, <2>3 DEF Born
    <3>2. IF k[q].p_cptr = NULL THEN Kids(k, q) = {}
          ELSE k[q].p_cptr \in Kids(k, q) /\ \A b \in Kids(k, q) : r[b] <= r[k[q].p_cptr]
      BY <1>1, <2>3 DEF Siblings, Youngest
    <3> QED
      BY <1>4, <1>6, <3>1, <3>2
  <2> QED
    BY <2>1, <2>2, <2>3 DEF Born
<1> QED
  BY <1>3, <1>8, <1>11, <1>12, <1>13 DEF Siblings, Linked

\* It is further down than p.
LEMMA BirthDescends ==
  ASSUME NEW k, NEW m, NEW p \in Grown(k), p # 0, NEW c \in P!Slots, c \notin Grown(k), Born(k, m, c, p),
         Rooted(k), \A q \in Grown(k) : k[q].p_pptr # c
  PROVE  Rooted(m)
<1>1. PICK d : Descends(k, d)
  BY DEF Rooted
<1> DEFINE l == [d EXCEPT ![c] = d[p] + 1]
<1>2. p \in P!Slots /\ d[p] \in Nat /\ d \in [P!Slots -> Nat]
  BY <1>1 DEF Descends, Grown, Tab
<1>3. l \in [P!Slots -> Nat] /\ l[c] = d[p] + 1 /\ \A q \in Grown(k) : l[q] = d[q]
  BY <1>2 DEF Grown, Tab
<1> HIDE DEF l
<1>4. ASSUME NEW a \in Grown(m) \ {0, 1}
      PROVE  /\ m[a].p_pptr \in Grown(m) \ {0, a}
             /\ m[a].p_pptr = 1 \/ l[m[a].p_pptr] < l[a]
  <2>1. CASE a = c
    <3>1. m[a].p_pptr = p /\ p # c /\ l[p] = d[p]
      BY <1>3, <2>1 DEF Born
    <3> QED
      BY <1>2, <1>3, <2>1, <3>1 DEF Born
  <2>2. CASE a \in Grown(k)
    <3>1. m[a].p_pptr = k[a].p_pptr /\ k[a].p_pptr \in Grown(k) \ {0, a}
          /\ (k[a].p_pptr = 1 \/ d[k[a].p_pptr] < d[a])
      BY <1>1, <1>4, <2>2 DEF Descends, Born
    <3> QED
      BY <1>3, <2>2, <3>1 DEF Born
  <2> QED
    BY <2>1, <2>2 DEF Born
<1> QED
  BY <1>3, <1>4 DEF Descends, Rooted

-----------------------------------------------------------------------------
\* The children of p become those of init, all of them younger than its own.
Adopted(k, m, p, e) ==
  LET j == k[1].p_cptr
      kids == Kids(k, p)
  IN  /\ Grown(m) = Grown(k)
      /\ \A q \in Grown(k) :
           /\ m[q].p_pptr = IF q \in kids THEN 1 ELSE k[q].p_pptr
           /\ m[q].p_osptr = IF kids # {} /\ q = e THEN j ELSE k[q].p_osptr
           /\ m[q].p_ysptr = IF kids # {} /\ q = j THEN e ELSE k[q].p_ysptr
           /\ m[q].p_cptr = IF q = p THEN NULL ELSE IF q = 1 /\ kids # {} THEN k[p].p_cptr ELSE k[q].p_cptr

\* Their ranks are raised above those of the children of init.
LEMMA AdoptionLinks ==
  ASSUME NEW k, NEW m, NEW p \in Grown(k) \ {0, 1}, NEW e, Adopted(k, m, p, e),
         Kids(k, p) # {} => e \in Kids(k, p) /\ k[e].p_osptr = NULL,
         Linked(k), Rooted(k), Roots(k)
  PROVE  Linked(m)
<1>1. PICK r : Siblings(k, r)
  BY DEF Linked
<1>2. PICK n \in Nat : \A q \in P!Slots : r[q] < n
  BY <1>1, RanksBounded DEF Siblings
<1> DEFINE G == Grown(k)
           K == Kids(k, p)
           l == [q \in P!Slots |-> IF q \in K THEN r[q] + n ELSE r[q]]
           j == k[1].p_cptr
<1>3. /\ l \in [P!Slots -> Nat] /\ 1 \in G /\ 1 # NULL /\ p # NULL
      /\ \A q \in G : /\ q \in P!Slots /\ q # NULL /\ r[q] \in Nat /\ l[q] \in Nat /\ r[q] < n
                      /\ l[q] = IF q \in K THEN r[q] + n ELSE r[q]
  BY <1>1, <1>2, TaskAssumption DEF Siblings, Grown, Tab, Roots
<1>4. p \notin K /\ 1 \notin K /\ p # 1
  <2>1. PICK d : Descends(k, d)
    BY DEF Rooted
  <2>2. k[p].p_pptr # p
    BY <2>1 DEF Descends
  <2> QED
    BY <2>2 DEF Kids, Roots
<1>5. Grown(m) = G
  BY DEF Adopted
<1>6. \A x : Kids(m, x) = IF x = 1 THEN Kids(k, 1) \cup K ELSE IF x = p THEN {} ELSE Kids(k, x)
  <2> TAKE x
  <2>1. \A q \in G : m[q].p_pptr = IF q \in K THEN 1 ELSE k[q].p_pptr
    BY DEF Adopted
  <2>2. \A q \in G : q \in K <=> k[q].p_pptr = p
    BY DEF Kids
  <2> QED
    BY <1>4, <1>5, <2>1, <2>2 DEF Kids
<1>7. \A x : Kids(k, x) \subseteq G /\ (x # p => \A q \in Kids(k, x) : q \notin K)
  BY DEF Kids
<1> HIDE DEF l
<1>8. /\ k[p].p_cptr = NULL => K = {}
      /\ k[p].p_cptr # NULL => k[p].p_cptr \in K /\ \A b \in K : r[b] <= r[k[p].p_cptr]
      /\ j = NULL => Kids(k, 1) = {}
      /\ j # NULL => j \in Kids(k, 1) /\ \A b \in Kids(k, 1) : r[b] <= r[j]
  BY <1>1, <1>3 DEF Siblings, Youngest
<1>9. K # {} => e \in K /\ \A b \in K : r[e] <= r[b]
  <2>1. K # {} => e \in G /\ k[e].p_pptr = p
    BY DEF Kids
  <2> QED
    BY <1>1, <2>1 DEF Siblings, Older
<1>10. ASSUME NEW a \in G, NEW b \in Kids(m, m[a].p_pptr)
       PROVE  \/ a \in K /\ b \in K
              \/ a \in K /\ b \in Kids(k, 1)
              \/ a \in Kids(k, 1) /\ b \in K
              \/ a \notin K /\ b \notin K /\ b \in Kids(k, k[a].p_pptr)
  <2>1. m[a].p_pptr = IF a \in K THEN 1 ELSE k[a].p_pptr
    BY DEF Adopted
  <2>2. a \in K <=> k[a].p_pptr = p
    BY DEF Kids
  <2> QED
    BY <1>4, <1>6, <1>7, <2>1, <2>2, SMTT(30) DEF Kids
<1>11. Differ(m, l)
  <2> SUFFICES ASSUME NEW a \in G, NEW b \in G, a # b, m[a].p_pptr = m[b].p_pptr PROVE l[a] # l[b]
    BY <1>5 DEF Differ
  <2>1. b \in Kids(m, m[a].p_pptr)
    BY <1>5 DEF Kids
  <2>2. k[a].p_pptr = k[b].p_pptr => r[a] # r[b]
    BY <1>1 DEF Siblings, Differ
  <2>3. \A x, y : x \in Kids(k, y) => k[x].p_pptr = y
    BY DEF Kids
  <2> QED
    BY <1>3, <1>4, <1>7, <1>10, <2>1, <2>2, <2>3
<1>12. Older(m, l)
  <2> SUFFICES ASSUME NEW a \in G
               PROVE  IF m[a].p_osptr = NULL THEN \A b \in Kids(m, m[a].p_pptr) : l[a] <= l[b]
                      ELSE /\ m[a].p_osptr \in Kids(m, m[a].p_pptr) /\ l[m[a].p_osptr] < l[a]
                           /\ \A b \in Kids(m, m[a].p_pptr) : l[b] <= l[m[a].p_osptr] \/ l[a] <= l[b]
    BY <1>5 DEF Older
  <2>1. m[a].p_osptr = IF K # {} /\ a = e THEN j ELSE k[a].p_osptr
    BY DEF Adopted
  <2>2. m[a].p_pptr = IF a \in K THEN 1 ELSE k[a].p_pptr
    BY DEF Adopted
  <2>3. IF k[a].p_osptr = NULL THEN \A b \in Kids(k, k[a].p_pptr) : r[a] <= r[b]
        ELSE /\ k[a].p_osptr \in Kids(k, k[a].p_pptr) /\ r[k[a].p_osptr] < r[a]
             /\ \A b \in Kids(k, k[a].p_pptr) : r[b] <= r[k[a].p_osptr] \/ r[a] <= r[b]
    BY <1>1 DEF Siblings, Older
  <2>4. CASE K # {} /\ a = e
    <3>1. a \in K /\ Kids(m, m[a].p_pptr) = Kids(k, 1) \cup K /\ m[a].p_osptr = j
      BY <1>6, <1>9, <2>1, <2>2, <2>4
    <3>2. CASE j = NULL
      <4>1. \A b \in K : l[a] <= l[b]
        BY <1>3, <1>7, <1>9, <2>4
      <4> QED
        BY <1>8, <3>1, <3>2, <4>1
    <3>3. CASE j # NULL
      <4>1. j \in Kids(k, 1) /\ l[j] = r[j] /\ l[a] = r[a] + n
        BY <1>3, <1>4, <1>7, <1>8, <3>1, <3>3
      <4>2. \A b \in Kids(k, 1) : l[b] <= l[j]
        BY <1>3, <1>4, <1>7, <1>8, <3>3, <4>1
      <4>3. \A b \in K : l[a] <= l[b]
        BY <1>3, <1>7, <1>9, <2>4
      <4>4. l[j] < l[a]
        BY <1>3, <1>7, <4>1
      <4> QED
        BY <3>1, <3>3, <4>1, <4>2, <4>3, <4>4
    <3> QED
      BY <3>2, <3>3
  <2>5. CASE ~(K # {} /\ a = e)
    <3>1. m[a].p_osptr = k[a].p_osptr
      BY <2>1, <2>5
    <3>2. CASE a \in K
      <4>1. Kids(m, m[a].p_pptr) = Kids(k, 1) \cup K /\ k[a].p_pptr = p
        BY <1>6, <2>2, <3>2 DEF Kids
      <4>2. k[a].p_osptr # NULL
        <5> SUFFICES ASSUME k[a].p_osptr = NULL PROVE FALSE
          OBVIOUS
        <5>1. \A b \in K : r[a] <= r[b]
          BY <2>3, <4>1
        <5>2. e \in K /\ r[a] <= r[e] /\ r[e] <= r[a] /\ a # e /\ e \in G /\ k[e].p_pptr = p
          BY <1>9, <2>5, <3>2, <5>1 DEF Kids
        <5>3. r[a] # r[e]
          BY <1>1, <4>1, <5>2 DEF Siblings, Differ
        <5> QED
          BY <1>3, <5>2, <5>3
      <4>3. k[a].p_osptr \in K /\ r[k[a].p_osptr] < r[a] /\ \A b \in K : r[b] <= r[k[a].p_osptr] \/ r[a] <= r[b]
        BY <2>3, <4>1, <4>2
      <4>4. \A b \in Kids(k, 1) : l[b] <= l[k[a].p_osptr]
        BY <1>3, <1>4, <1>7, <4>3
      <4> QED
        BY <1>3, <1>7, <3>1, <3>2, <4>1, <4>2, <4>3, <4>4
    <3>3. CASE a \notin K
      <4>1. m[a].p_pptr = k[a].p_pptr /\ k[a].p_pptr # p
        BY <2>2, <3>3 DEF Kids
      <4>2. Kids(k, k[a].p_pptr) \subseteq Kids(m, m[a].p_pptr)
        BY <1>6, <4>1
      <4>3. \A b \in Kids(m, m[a].p_pptr) : b \in K \/ (b \notin K /\ b \in Kids(k, k[a].p_pptr))
        BY <1>10, <3>3, <4>1
      <4>4. \A b \in K : l[a] <= l[b]
        BY <1>3, <1>7, <3>3
      <4>5. CASE k[a].p_osptr = NULL
        BY <1>3, <1>7, <2>3, <3>1, <3>3, <4>3, <4>4, <4>5
      <4>6. CASE k[a].p_osptr # NULL
        <5>1. k[a].p_osptr \notin K /\ k[a].p_osptr \in G
          BY <1>7, <2>3, <4>1, <4>6
        <5> QED
          BY <1>3, <1>7, <2>3, <3>1, <3>3, <4>2, <4>3, <4>4, <4>6, <5>1
      <4> QED
        BY <4>5, <4>6
    <3> QED
      BY <3>2, <3>3
  <2> QED
    BY <2>4, <2>5
<1>13. Younger(m, l)
  <2> SUFFICES ASSUME NEW a \in G
               PROVE  IF m[a].p_ysptr = NULL THEN \A b \in Kids(m, m[a].p_pptr) : l[b] <= l[a]
                      ELSE /\ m[a].p_ysptr \in Kids(m, m[a].p_pptr) /\ l[a] < l[m[a].p_ysptr]
                           /\ \A b \in Kids(m, m[a].p_pptr) : l[b] <= l[a] \/ l[m[a].p_ysptr] <= l[b]
    BY <1>5 DEF Younger
  <2>1. m[a].p_ysptr = IF K # {} /\ a = j THEN e ELSE k[a].p_ysptr
    BY DEF Adopted
  <2>2. m[a].p_pptr = IF a \in K THEN 1 ELSE k[a].p_pptr
    BY DEF Adopted
  <2>3. IF k[a].p_ysptr = NULL THEN \A b \in Kids(k, k[a].p_pptr) : r[b] <= r[a]
        ELSE /\ k[a].p_ysptr \in Kids(k, k[a].p_pptr) /\ r[a] < r[k[a].p_ysptr]
             /\ \A b \in Kids(k, k[a].p_pptr) : r[b] <= r[a] \/ r[k[a].p_ysptr] <= r[b]
    BY <1>1 DEF Siblings, Younger
  <2>4. CASE K # {} /\ a = j
    <3>1. a \in Kids(k, 1) /\ a \notin K /\ e \in K /\ e # NULL /\ e \in G
      BY <1>3, <1>4, <1>7, <1>8, <1>9, <2>4
    <3>2. m[a].p_ysptr = e /\ Kids(m, m[a].p_pptr) = Kids(k, 1) \cup K
      BY <1>6, <2>1, <2>2, <2>4, <3>1 DEF Kids
    <3>3. \A b \in Kids(k, 1) : l[b] <= l[a]
      BY <1>3, <1>4, <1>7, <1>8, <2>4
    <3>4. \A b \in K : l[e] <= l[b]
      BY <1>3, <1>7, <1>9, <3>1
    <3>5. l[a] < l[e]
      BY <1>3, <3>1
    <3> QED
      BY <3>1, <3>2, <3>3, <3>4, <3>5
  <2>5. CASE ~(K # {} /\ a = j)
    <3>1. m[a].p_ysptr = k[a].p_ysptr
      BY <2>1, <2>5
    <3>2. CASE a \in K
      <4>1. Kids(m, m[a].p_pptr) = Kids(k, 1) \cup K /\ k[a].p_pptr = p
        BY <1>6, <2>2, <3>2 DEF Kids
      <4>2. \A b \in Kids(k, 1) : l[b] <= l[a]
        BY <1>3, <1>4, <1>7, <3>2
      <4>3. CASE k[a].p_ysptr = NULL
        BY <1>3, <1>7, <2>3, <3>1, <3>2, <4>1, <4>2, <4>3
      <4>4. CASE k[a].p_ysptr # NULL
        BY <1>3, <1>7, <2>3, <3>1, <3>2, <4>1, <4>2, <4>4
      <4> QED
        BY <4>3, <4>4
    <3>3. CASE a \notin K
      <4>1. m[a].p_pptr = k[a].p_pptr /\ k[a].p_pptr # p
        BY <2>2, <3>3 DEF Kids
      <4>2. Kids(k, k[a].p_pptr) \subseteq Kids(m, m[a].p_pptr)
        BY <1>6, <4>1
      <4>3. \A b \in Kids(m, m[a].p_pptr) :
              (b \in K /\ a \in Kids(k, 1)) \/ (b \notin K /\ b \in Kids(k, k[a].p_pptr))
        BY <1>10, <3>3, <4>1
      <4>4. CASE k[a].p_ysptr = NULL
        <5>1. ~(K # {} /\ a \in Kids(k, 1))
          <6> SUFFICES ASSUME K # {}, a \in Kids(k, 1) PROVE FALSE
            OBVIOUS
          <6>1. j \in Kids(k, 1) /\ r[a] <= r[j] /\ a # j
            BY <1>8, <2>5
          <6>2. k[a].p_pptr = 1 /\ k[j].p_pptr = 1 /\ j \in G
            BY <6>1 DEF Kids
          <6>3. r[j] <= r[a] /\ r[j] # r[a]
            BY <1>1, <2>3, <4>4, <6>1, <6>2 DEF Siblings, Differ
          <6> QED
            BY <1>3, <6>1, <6>2, <6>3
        <5>2. \A b \in Kids(m, m[a].p_pptr) : b \notin K /\ b \in Kids(k, k[a].p_pptr)
          BY <4>3, <5>1
        <5> QED
          BY <1>3, <1>7, <2>3, <3>1, <3>3, <4>4, <5>2
      <4>5. CASE k[a].p_ysptr # NULL
        <5>1. k[a].p_ysptr \notin K /\ k[a].p_ysptr \in G
          BY <1>7, <2>3, <4>1, <4>5
        <5>2. \A b \in K : l[k[a].p_ysptr] <= l[b]
          BY <1>3, <1>7, <5>1
        <5> QED
          BY <1>3, <1>7, <2>3, <3>1, <3>3, <4>2, <4>3, <4>5, <5>1, <5>2
      <4> QED
        BY <4>4, <4>5
    <3> QED
      BY <3>2, <3>3
  <2> QED
    BY <2>4, <2>5
<1>14. Youngest(m, l)
  <2> SUFFICES ASSUME NEW q \in G
               PROVE  IF m[q].p_cptr = NULL THEN Kids(m, q) = {}
                      ELSE m[q].p_cptr \in Kids(m, q) /\ \A b \in Kids(m, q) : l[b] <= l[m[q].p_cptr]
    BY <1>5 DEF Youngest
  <2>1. m[q].p_cptr = IF q = p THEN NULL ELSE IF q = 1 /\ K # {} THEN k[p].p_cptr ELSE k[q].p_cptr
    BY DEF Adopted
  <2>2. IF k[q].p_cptr = NULL THEN Kids(k, q) = {}
        ELSE k[q].p_cptr \in Kids(k, q) /\ \A b \in Kids(k, q) : r[b] <= r[k[q].p_cptr]
    BY <1>1 DEF Siblings, Youngest
  <2>3. CASE q = p
    BY <1>4, <1>6, <2>1, <2>3
  <2>4. CASE q = 1 /\ K # {}
    <3>1. m[q].p_cptr = k[p].p_cptr /\ Kids(m, q) = Kids(k, 1) \cup K
      BY <1>4, <1>6, <2>1, <2>4
    <3>2. k[p].p_cptr # NULL /\ k[p].p_cptr \in K /\ \A b \in K : r[b] <= r[k[p].p_cptr]
      BY <1>8, <2>4
    <3>3. \A b \in K : l[b] <= l[k[p].p_cptr]
      BY <1>3, <1>7, <3>2
    <3>4. \A b \in Kids(k, 1) : l[b] <= l[k[p].p_cptr]
      BY <1>3, <1>4, <1>7, <3>2
    <3> QED
      BY <3>1, <3>2, <3>3, <3>4
  <2>5. CASE q # p /\ ~(q = 1 /\ K # {})
    <3>1. m[q].p_cptr = k[q].p_cptr /\ Kids(m, q) = Kids(k, q)
      BY <1>6, <2>1, <2>5
    <3> QED
      BY <1>3, <1>7, <2>2, <2>5, <3>1
  <2> QED
    BY <2>3, <2>4, <2>5
<1> QED
  BY <1>3, <1>11, <1>12, <1>13, <1>14 DEF Siblings, Linked

\* The depths are as before: init has none.
LEMMA AdoptionDescends ==
  ASSUME NEW k, NEW m, NEW p \in Grown(k) \ {0, 1}, NEW e, Adopted(k, m, p, e), Rooted(k), Roots(k)
  PROVE  Rooted(m)
<1>1. PICK d : Descends(k, d)
  BY DEF Rooted
<1>2. ASSUME NEW a \in Grown(m) \ {0, 1}
      PROVE  /\ m[a].p_pptr \in Grown(m) \ {0, a}
             /\ m[a].p_pptr = 1 \/ d[m[a].p_pptr] < d[a]
  <2>1. Grown(m) = Grown(k) /\ m[a].p_pptr = IF a \in Kids(k, p) THEN 1 ELSE k[a].p_pptr
    BY <1>2 DEF Adopted
  <2> QED
    BY <1>1, <1>2, <2>1 DEF Descends, Roots
<1> QED
  BY <1>1, <1>2 DEF Descends, Rooted

-----------------------------------------------------------------------------
\* c, which has no children, leaves the table and the links of its siblings.
Gone(k, m, c, p) ==
  LET ys == k[c].p_ysptr
      os == k[c].p_osptr
  IN  /\ Grown(m) = Grown(k) \ {c}
      /\ \A q \in Grown(m) :
           /\ m[q].p_pptr = k[q].p_pptr
           /\ m[q].p_ysptr = IF q = os THEN ys ELSE k[q].p_ysptr
           /\ m[q].p_osptr = IF q = ys THEN os ELSE k[q].p_osptr
           /\ m[q].p_cptr = IF q = p /\ ys = NULL THEN os ELSE k[q].p_cptr

\* The ranks of the others are as before.
LEMMA DeathLinks ==
  ASSUME NEW k, NEW m, NEW p \in Grown(k), NEW c \in Kids(k, p), k[c].p_cptr = NULL, Gone(k, m, c, p), Linked(k)
  PROVE  Linked(m)
<1>1. PICK r : Siblings(k, r)
  BY DEF Linked
<1> DEFINE G == Grown(k)
           ys == k[c].p_ysptr
           os == k[c].p_osptr
<1>2. /\ c \in G /\ k[c].p_pptr = p
      /\ \A q \in G : q # NULL /\ r[q] \in Nat
  BY <1>1, TaskAssumption DEF Siblings, Grown, Tab, Kids
<1>3. /\ Kids(k, c) = {}
      /\ \A x : Kids(k, x) \subseteq G /\ (x # p => c \notin Kids(k, x))
      /\ \A x : \A q \in Kids(k, x) : k[q].p_pptr = x
      /\ \A a \in G : a \in Kids(k, k[a].p_pptr)
  BY <1>1, <1>2 DEF Kids, Siblings, Youngest
<1>4. \A x : Kids(m, x) = Kids(k, x) \ {c}
  BY DEF Kids, Gone
<1>5. /\ ys = NULL => \A b \in Kids(k, p) : r[b] <= r[c]
      /\ ys # NULL => /\ ys \in Kids(k, p) /\ r[c] < r[ys]
                      /\ \A b \in Kids(k, p) : r[b] <= r[c] \/ r[ys] <= r[b]
      /\ os = NULL => \A b \in Kids(k, p) : r[c] <= r[b]
      /\ os # NULL => /\ os \in Kids(k, p) /\ r[os] < r[c]
                      /\ \A b \in Kids(k, p) : r[b] <= r[os] \/ r[c] <= r[b]
  BY <1>1, <1>2 DEF Siblings, Older, Younger
<1>6. \A b \in Kids(k, p) : b # c => r[b] # r[c]
  BY <1>1, <1>2, <1>3 DEF Siblings, Differ
<1>7. Differ(m, r)
  BY <1>1 DEF Siblings, Differ, Gone
<1>8. Older(m, r)
  <2> SUFFICES ASSUME NEW a \in G, a # c
               PROVE  IF m[a].p_osptr = NULL THEN \A b \in Kids(m, m[a].p_pptr) : r[a] <= r[b]
                      ELSE /\ m[a].p_osptr \in Kids(m, m[a].p_pptr) /\ r[m[a].p_osptr] < r[a]
                           /\ \A b \in Kids(m, m[a].p_pptr) : r[b] <= r[m[a].p_osptr] \/ r[a] <= r[b]
    BY DEF Older, Gone
  <2>1. m[a].p_osptr = (IF a = ys THEN os ELSE k[a].p_osptr) /\ m[a].p_pptr = k[a].p_pptr
    BY DEF Gone
  <2>2. IF k[a].p_osptr = NULL THEN \A b \in Kids(k, k[a].p_pptr) : r[a] <= r[b]
        ELSE /\ k[a].p_osptr \in Kids(k, k[a].p_pptr) /\ r[k[a].p_osptr] < r[a]
             /\ \A b \in Kids(k, k[a].p_pptr) : r[b] <= r[k[a].p_osptr] \/ r[a] <= r[b]
    BY <1>1 DEF Siblings, Older
  <2>3. CASE a = ys
    <3>1. a \in Kids(k, p) /\ k[a].p_pptr = p /\ r[c] < r[a] /\ \A b \in Kids(k, p) : r[b] <= r[c] \/ r[a] <= r[b]
      BY <1>2, <1>3, <1>5, <2>3
    <3>2. CASE os = NULL
      <4>1. \A b \in Kids(k, p) : b # c => r[a] <= r[b]
        BY <1>2, <1>3, <1>5, <1>6, <3>1, <3>2
      <4> QED
        BY <1>4, <2>1, <2>3, <3>1, <3>2, <4>1
    <3>3. CASE os # NULL
      <4>1. \A b \in Kids(k, p) : b # c => r[b] <= r[os] \/ r[a] <= r[b]
        BY <1>2, <1>3, <1>5, <1>6, <3>1, <3>3
      <4>2. os \in Kids(k, p) /\ os # c /\ r[os] < r[a]
        BY <1>2, <1>3, <1>5, <3>1, <3>3
      <4> QED
        BY <1>4, <2>1, <2>3, <3>1, <3>3, <4>1, <4>2
    <3> QED
      BY <3>2, <3>3
  <2>4. CASE a # ys
    <3>1. k[a].p_osptr # c
      <4> SUFFICES ASSUME k[a].p_osptr = c PROVE FALSE
        OBVIOUS
      <4>1. c \in Kids(k, k[a].p_pptr) /\ r[c] < r[a] /\ \A b \in Kids(k, k[a].p_pptr) : r[b] <= r[c] \/ r[a] <= r[b]
        BY <1>2, <2>2
      <4>2. k[a].p_pptr = p /\ a \in Kids(k, p)
        BY <1>3, <4>1
      <4>3. ys # NULL /\ ys \in Kids(k, p) /\ r[ys] <= r[a] /\ r[a] <= r[ys] /\ ys \in G
        BY <1>2, <1>3, <1>5, <4>1, <4>2
      <4>4. r[ys] # r[a]
        BY <1>1, <1>3, <2>4, <4>2, <4>3 DEF Siblings, Differ
      <4> QED
        BY <1>2, <4>3, <4>4
    <3> QED
      BY <1>4, <2>1, <2>2, <2>4, <3>1
  <2> QED
    BY <2>3, <2>4
<1>9. Younger(m, r)
  <2> SUFFICES ASSUME NEW a \in G, a # c
               PROVE  IF m[a].p_ysptr = NULL THEN \A b \in Kids(m, m[a].p_pptr) : r[b] <= r[a]
                      ELSE /\ m[a].p_ysptr \in Kids(m, m[a].p_pptr) /\ r[a] < r[m[a].p_ysptr]
                           /\ \A b \in Kids(m, m[a].p_pptr) : r[b] <= r[a] \/ r[m[a].p_ysptr] <= r[b]
    BY DEF Younger, Gone
  <2>1. m[a].p_ysptr = (IF a = os THEN ys ELSE k[a].p_ysptr) /\ m[a].p_pptr = k[a].p_pptr
    BY DEF Gone
  <2>2. IF k[a].p_ysptr = NULL THEN \A b \in Kids(k, k[a].p_pptr) : r[b] <= r[a]
        ELSE /\ k[a].p_ysptr \in Kids(k, k[a].p_pptr) /\ r[a] < r[k[a].p_ysptr]
             /\ \A b \in Kids(k, k[a].p_pptr) : r[b] <= r[a] \/ r[k[a].p_ysptr] <= r[b]
    BY <1>1 DEF Siblings, Younger
  <2>3. CASE a = os
    <3>1. a \in Kids(k, p) /\ k[a].p_pptr = p /\ r[a] < r[c] /\ \A b \in Kids(k, p) : r[b] <= r[a] \/ r[c] <= r[b]
      BY <1>2, <1>3, <1>5, <2>3
    <3>2. CASE ys = NULL
      <4>1. \A b \in Kids(k, p) : b # c => r[b] <= r[a]
        BY <1>2, <1>3, <1>5, <1>6, <3>1, <3>2
      <4> QED
        BY <1>4, <2>1, <2>3, <3>1, <3>2, <4>1
    <3>3. CASE ys # NULL
      <4>1. \A b \in Kids(k, p) : b # c => r[b] <= r[a] \/ r[ys] <= r[b]
        BY <1>2, <1>3, <1>5, <1>6, <3>1, <3>3
      <4>2. ys \in Kids(k, p) /\ ys # c /\ r[a] < r[ys]
        BY <1>2, <1>3, <1>5, <3>1, <3>3
      <4> QED
        BY <1>4, <2>1, <2>3, <3>1, <3>3, <4>1, <4>2
    <3> QED
      BY <3>2, <3>3
  <2>4. CASE a # os
    <3>1. k[a].p_ysptr # c
      <4> SUFFICES ASSUME k[a].p_ysptr = c PROVE FALSE
        OBVIOUS
      <4>1. c \in Kids(k, k[a].p_pptr) /\ r[a] < r[c] /\ \A b \in Kids(k, k[a].p_pptr) : r[b] <= r[a] \/ r[c] <= r[b]
        BY <1>2, <2>2
      <4>2. k[a].p_pptr = p /\ a \in Kids(k, p)
        BY <1>3, <4>1
      <4>3. os # NULL /\ os \in Kids(k, p) /\ r[os] <= r[a] /\ r[a] <= r[os] /\ os \in G
        BY <1>2, <1>3, <1>5, <4>1, <4>2
      <4>4. r[os] # r[a]
        BY <1>1, <1>3, <2>4, <4>2, <4>3 DEF Siblings, Differ
      <4> QED
        BY <1>2, <4>3, <4>4
    <3> QED
      BY <1>4, <2>1, <2>2, <2>4, <3>1
  <2> QED
    BY <2>3, <2>4
<1>10. Youngest(m, r)
  <2> SUFFICES ASSUME NEW q \in G, q # c
               PROVE  IF m[q].p_cptr = NULL THEN Kids(m, q) = {}
                      ELSE m[q].p_cptr \in Kids(m, q) /\ \A b \in Kids(m, q) : r[b] <= r[m[q].p_cptr]
    BY DEF Youngest, Gone
  <2>1. m[q].p_cptr = IF q = p /\ ys = NULL THEN os ELSE k[q].p_cptr
    BY DEF Gone
  <2>2. IF k[q].p_cptr = NULL THEN Kids(k, q) = {}
        ELSE k[q].p_cptr \in Kids(k, q) /\ \A b \in Kids(k, q) : r[b] <= r[k[q].p_cptr]
    BY <1>1 DEF Siblings, Youngest
  <2>3. CASE q = p /\ ys = NULL
    <3>1. CASE os = NULL
      <4>1. \A b \in Kids(k, p) : b = c
        BY <1>2, <1>3, <1>5, <1>6, <2>3, <3>1
      <4> QED
        BY <1>4, <2>1, <2>3, <3>1, <4>1
    <3>2. CASE os # NULL
      <4>1. \A b \in Kids(k, p) : b # c => r[b] <= r[os]
        BY <1>2, <1>3, <1>5, <1>6, <2>3, <3>2
      <4>2. os \in Kids(k, p) /\ os # c
        BY <1>2, <1>3, <1>5, <3>2
      <4> QED
        BY <1>4, <2>1, <2>3, <3>2, <4>1, <4>2
    <3> QED
      BY <3>1, <3>2
  <2>4. CASE ~(q = p /\ ys = NULL)
    <3>1. k[q].p_cptr # c
      <4> SUFFICES ASSUME k[q].p_cptr = c PROVE FALSE
        OBVIOUS
      <4>1. c \in Kids(k, q) /\ \A b \in Kids(k, q) : r[b] <= r[c]
        BY <1>2, <2>2
      <4>2. q = p /\ ys # NULL /\ ys \in Kids(k, p) /\ r[c] < r[ys] /\ r[ys] <= r[c] /\ ys \in G
        BY <1>3, <1>5, <2>4, <4>1
      <4> QED
        BY <1>2, <4>2
    <3> QED
      BY <1>4, <2>1, <2>2, <2>4, <3>1
  <2> QED
    BY <2>3, <2>4
<1>11. r \in [P!Slots -> Nat]
  BY <1>1 DEF Siblings
<1> QED
  BY <1>7, <1>8, <1>9, <1>10, <1>11 DEF Siblings, Linked

\* No other task was its child.
LEMMA DeathDescends ==
  ASSUME NEW k, NEW m, NEW p \in Grown(k), NEW c \in Kids(k, p), k[c].p_cptr = NULL, Gone(k, m, c, p),
         Linked(k), Rooted(k)
  PROVE  Rooted(m)
<1>1. PICK d : Descends(k, d)
  BY DEF Rooted
<1>2. Kids(k, c) = {} /\ c \in Grown(k)
  BY DEF Linked, Siblings, Youngest, Kids
<1>3. ASSUME NEW a \in Grown(m) \ {0, 1}
      PROVE  /\ m[a].p_pptr \in Grown(m) \ {0, a}
             /\ m[a].p_pptr = 1 \/ d[m[a].p_pptr] < d[a]
  <2>1. Grown(m) = Grown(k) \ {c} /\ m[a].p_pptr = k[a].p_pptr /\ a \in Grown(k)
    BY <1>3 DEF Gone
  <2>2. k[a].p_pptr # c
    BY <1>2, <2>1 DEF Kids
  <2> QED
    BY <1>1, <1>3, <2>1, <2>2 DEF Descends
<1> QED
  BY <1>1, <1>3 DEF Descends, Rooted

-----------------------------------------------------------------------------
\* One task of the table changes, and stays one.
LEMMA TaskChanged ==
  ASSUME P!TypeOK, NEW p \in Tab(task), NEW u \in P!Task, task' = [task EXCEPT ![p] = u]
  PROVE  /\ task' \in [P!Slots -> P!Task \cup {NULL}] /\ task'[p] = u /\ u # NULL
         /\ \A q \in P!Slots : q # p => task'[q] = task[q]
         /\ Tab(task') = Tab(task)
         /\ \A q \in Tab(task) : q # p => task'[q] = task[q]
<1>1. u # NULL /\ p \in P!Slots
  BY TaskAssumption DEF Tab
<1>2. task' \in [P!Slots -> P!Task \cup {NULL}] /\ task'[p] = u /\ \A q \in P!Slots : q # p => task'[q] = task[q]
  BY <1>1 DEF P!TypeOK
<1> QED
  BY <1>1, <1>2 DEF Tab

\* A task changes where it is and what it waits for, with its links as they are:
\* it does not become a zombie, does not sleep beside one that it has not been
\* told of, and begins a fork with a slot and a pid that nobody has.
LEMMA OwnStep ==
  ASSUME TreeInv, NEW p \in Grown(task), p # 0, NEW u \in P!Task, task' = [task EXCEPT ![p] = u],
         u.pid = task[p].pid, u.p_pptr = task[p].p_pptr, u.p_cptr = task[p].p_cptr,
         u.p_ysptr = task[p].p_ysptr, u.p_osptr = task[p].p_osptr,
         u.at \in {"user", "page", "files", "wait"}, u.at = "files" => p # 1,
         last_pid' \in 0 .. MaxPid,
         \/ last_pid' = last_pid /\ u.at # "page"
         \/ /\ \A q \in Tab(task) : task[q].at # "page" /\ task[q].pid # last_pid'
            /\ u.nr \in P!Slots \ Tab(task),
         u.at = "wait" =>
           \A c \in Kids(task, p) : task[c].at = "zombie" /\ u.want \in {-1, task[c].pid} => u.sigchld
  PROVE  TreeInv'
<1>1. P!TypeOK /\ p \in Tab(task)
  BY DEF TreeInv, Grown
<1>2. /\ task' \in [P!Slots -> P!Task \cup {NULL}] /\ task'[p] = u /\ u # NULL
      /\ \A q \in P!Slots : q # p => task'[q] = task[q]
      /\ Tab(task') = Tab(task)
      /\ \A q \in Tab(task) : q # p => task'[q] = task[q]
  BY <1>1, TaskChanged
<1>3. P!TypeOK'
  BY <1>2 DEF P!TypeOK
<1>4. Grown(task') = Grown(task) /\ Grown(task) \subseteq Tab(task)
  BY <1>2 DEF Grown
<1>5. Keeps(task, task')
  BY <1>2, <1>4 DEF Keeps
<1>6. Linked(task') /\ Rooted(task')
  BY <1>5, TreeKept DEF TreeInv
<1>7. Roots(task')
  BY <1>2, <1>4 DEF TreeInv, Roots
<1>8. Forks(task', last_pid')
  <2>1. Forks(task, last_pid)
    BY DEF TreeInv
  <2>2. \A a, b \in Tab(task') : a # b => task'[a].pid # task'[b].pid
    BY <1>2, <2>1 DEF Forks
  <2>3. ASSUME NEW a \in Tab(task'), task'[a].at = "page"
        PROVE  /\ task'[a].nr \in P!Slots /\ task'[task'[a].nr] = NULL
               /\ \A q \in Tab(task') : task'[q].pid # last_pid' /\ (task'[q].at = "page" => q = a)
    <3>1. CASE last_pid' = last_pid /\ u.at # "page"
      <4>1. a # p /\ task[a].at = "page" /\ a \in Tab(task) /\ task'[a] = task[a]
        BY <1>2, <2>3, <3>1
      <4>2. /\ task[a].nr \in P!Slots /\ task[task[a].nr] = NULL
            /\ \A q \in Tab(task) : task[q].pid # last_pid /\ (task[q].at = "page" => q = a)
        BY <2>1, <4>1 DEF Forks
      <4>3. task[a].nr # p
        BY <1>1, <4>2 DEF Tab
      <4> QED
        BY <1>2, <3>1, <4>1, <4>2, <4>3
    <3>2. CASE /\ \A q \in Tab(task) : task[q].at # "page" /\ task[q].pid # last_pid'
               /\ u.nr \in P!Slots \ Tab(task)
      <4>1. a = p
        BY <1>2, <2>3, <3>2
      <4>2. task[u.nr] = NULL /\ u.nr # p
        BY <1>1, <3>2 DEF Tab
      <4> QED
        BY <1>2, <3>2, <4>1, <4>2
    <3> QED
      BY <3>1, <3>2
  <2>4. ASSUME NEW a \in Tab(task'), task'[a].at = "mem"
        PROVE  /\ task'[a].nr \in Tab(task') \ Grown(task')
               /\ \A q \in Tab(task') : task'[q].at = "mem" /\ task'[q].nr = task'[a].nr => q = a
    <3>1. a # p /\ a \in Tab(task) /\ task'[a] = task[a] /\ task[a].at = "mem"
      BY <1>2, <2>4
    <3>2. /\ task[a].nr \in Tab(task) \ Grown(task)
          /\ \A q \in Tab(task) : task[q].at = "mem" /\ task[q].nr = task[a].nr => q = a
      BY <2>1, <3>1 DEF Forks
    <3>3. \A q \in Tab(task') : task'[q].at = "mem" => task'[q] = task[q] /\ q \in Tab(task)
      BY <1>2
    <3>4. Tab(task') = Tab(task)
      BY <1>2
    <3>5. task'[a].nr \in Tab(task') \ Grown(task')
      BY <1>4, <3>1, <3>2, <3>4
    <3>6. ASSUME NEW q \in Tab(task'), task'[q].at = "mem", task'[q].nr = task'[a].nr PROVE q = a
      BY <3>1, <3>2, <3>3, <3>6, ZenonT(60)
    <3> QED
      BY <3>5, <3>6
  <2> QED
    BY <2>2, <2>3, <2>4 DEF Forks
<1>9. Childless(task')
  BY <1>2, <1>4 DEF TreeInv, Childless
<1>10. Told(task')
  <2> SUFFICES ASSUME NEW a \in Grown(task'), NEW c \in Grown(task'),
                      task'[a].at = "wait", task'[c].p_pptr = a, task'[c].at = "zombie",
                      task'[a].want \in {-1, task'[c].pid}
               PROVE  task'[a].sigchld
    BY DEF Told
  <2>1. c # p /\ task'[c] = task[c] /\ c \in Kids(task, a)
    BY <1>2, <1>4 DEF Kids
  <2>2. CASE a = p
    BY <1>2, <2>1, <2>2
  <2>3. CASE a # p
    <3>1. task'[a] = task[a] /\ a \in Grown(task)
      BY <1>2, <1>4, <2>3
    <3> QED
      BY <2>1, <3>1 DEF TreeInv, Told, Kids
  <2> QED
    BY <2>2, <2>3
<1> QED
  BY <1>3, <1>6, <1>7, <1>8, <1>9, <1>10 DEF TreeInv

\* Where a task stands that takes a step.
LEMMA StepFacts ==
  ASSUME TreeInv, NEW p \in P!Slots, NEW l \in {"user", "page", "mem", "files", "wait"}, P!At(p, l)
  PROVE  /\ p \in Grown(task) /\ p \in Tab(task) /\ p # 0 /\ task[p] \in P!Task /\ task[p].at = l
         /\ p # NULL /\ task[p].p_pptr # p
<1>1. p \in Grown(task) /\ p \in Tab(task) /\ p # 0 /\ task[p].at = l /\ task[p] \in P!Task /\ p # NULL
  BY TaskAssumption DEF P!At, Grown, Tab, TreeInv, P!TypeOK
<1>2. task[p].p_pptr # p
  BY <1>1 DEF TreeInv, Rooted, Descends, Roots
<1> QED
  BY <1>1, <1>2

\* ToUser() leaves the links alone.
LEMMA ToUserFacts ==
  ASSUME NEW t \in P!Task
  PROVE  /\ P!ToUser(t) \in P!Task /\ P!ToUser(t).at = "user" /\ P!ToUser(t).pid = t.pid
         /\ P!ToUser(t).p_pptr = t.p_pptr /\ P!ToUser(t).p_cptr = t.p_cptr
         /\ P!ToUser(t).p_ysptr = t.p_ysptr /\ P!ToUser(t).p_osptr = t.p_osptr
<1> DEFINE t1 == [t EXCEPT !.at = "user"]
           t2 == [t1 EXCEPT !.sigchld = FALSE]
           t3 == [t2 EXCEPT !.nr = NULL]
           t4 == [t3 EXCEPT !.want = -1]
           Same(u) == /\ u.pid = t.pid /\ u.p_pptr = t.p_pptr /\ u.p_cptr = t.p_cptr
                      /\ u.p_ysptr = t.p_ysptr /\ u.p_osptr = t.p_osptr
<1>1. P!ToUser(t) = t4
  BY DEF P!ToUser
<1>2. t1 \in P!Task /\ t1.at = "user" /\ Same(t1)
  BY DEF P!Task
<1> HIDE DEF t1
<1>3. t2 \in P!Task /\ t2.at = "user" /\ Same(t2)
  BY <1>2 DEF P!Task
<1> HIDE DEF t2
<1>4. t3 \in P!Task /\ t3.at = "user" /\ Same(t3)
  BY <1>3 DEF P!Task, P!Ptr
<1> HIDE DEF t3
<1>5. t4 \in P!Task /\ t4.at = "user" /\ Same(t4)
  BY <1>4, TaskAssumption DEF P!Task
<1> QED
  BY <1>1, <1>5

\* Back to user mode.
LEMMA ReturnStep ==
  ASSUME TreeInv, NEW p \in Grown(task), p # 0, task' = [task EXCEPT ![p] = P!ToUser(@)], UNCHANGED last_pid
  PROVE  TreeInv'
<1>1. task[p] \in P!Task /\ last_pid' \in 0 .. MaxPid
  BY TaskTypes DEF TreeInv, Grown, P!TypeOK
<1> DEFINE u == P!ToUser(task[p])
<1>2. /\ u \in P!Task /\ u.at = "user" /\ u.pid = task[p].pid
      /\ u.p_pptr = task[p].p_pptr /\ u.p_cptr = task[p].p_cptr
      /\ u.p_ysptr = task[p].p_ysptr /\ u.p_osptr = task[p].p_osptr
  BY <1>1, ToUserFacts
<1>3. task' = [task EXCEPT ![p] = u]
  OBVIOUS
<1> HIDE DEF u
<1> QED
  BY <1>1, <1>2, <1>3, OwnStep

-----------------------------------------------------------------------------
\* The pids come round to every number.
LEMMA RoundThePids ==
  ASSUME NEW n \in Nat, n > 0, NEW l \in 0 .. n, NEW m \in 1 .. n
  PROVE  \E i \in 1 .. n : 1 + ((l + i - 1) % n) = m
<1>1. \A x \in 0 .. n - 1 : x % n = x /\ (x + n) % n = x
  OBVIOUS
<1> DEFINE i == IF m > l THEN m - l ELSE (m - l) + n
           x == m - 1
<1>2. i \in 1 .. n /\ x \in 0 .. n - 1 /\ (l + i - 1 = x \/ l + i - 1 = x + n) /\ 1 + x = m
  OBVIOUS
<1> HIDE DEF i, x
<1>3. (l + i - 1) % n = x
  BY <1>1, <1>2
<1> QED
  BY <1>2, <1>3

\* There are more pids than tasks, and task 0 has none of them.
LEMMA PidIsLeft ==
  ASSUME TreeInv
  PROVE  \E m \in 1 .. MaxPid : \A q \in Tab(task) : task[q].pid # m
<1> SUFFICES ASSUME \A m \in 1 .. MaxPid : \E q \in Tab(task) : task[q].pid = m PROVE FALSE
  OBVIOUS
<1> DEFINE f == [q \in Tab(task) |-> task[q].pid]
           I == {f[q] : q \in Tab(task)}
<1>1. IsFiniteSet(P!Slots) /\ Cardinality(P!Slots) = NR_TASKS
  BY FS_Interval, TaskAssumption DEF P!Slots
<1>2. IsFiniteSet(Tab(task)) /\ Cardinality(Tab(task)) <= NR_TASKS
  BY <1>1, FS_Subset DEF Tab
<1>3. IsFiniteSet(I) /\ Cardinality(I) <= Cardinality(Tab(task))
  <2>1. f \in [Tab(task) -> I]
    OBVIOUS
  <2>2. f \in Surjection(Tab(task), I)
    BY <2>1 DEF Surjection
  <2> HIDE DEF f, I
  <2> QED
    BY <1>2, <2>2, FS_Surjection
<1>4. 0 .. MaxPid \subseteq I
  <2>1. 0 \in Tab(task) /\ task[0].pid = 0
    BY DEF TreeInv, Roots, Grown
  <2>2. \A m \in 0 .. MaxPid : \E q \in Tab(task) : task[q].pid = m
    <3> TAKE m \in 0 .. MaxPid
    <3>1. m = 0 \/ m \in 1 .. MaxPid
      BY TaskAssumption
    <3> QED
      BY <2>1, <3>1
  <2> QED
    BY <2>2
<1>5. Cardinality(0 .. MaxPid) = MaxPid + 1
  BY FS_Interval, TaskAssumption
<1> HIDE DEF I
<1>6. Cardinality(0 .. MaxPid) <= Cardinality(I)
  BY <1>3, <1>4, FS_Subset
<1>7. Cardinality(I) \in Nat /\ Cardinality(Tab(task)) \in Nat
  BY <1>2, <1>3, FS_CardinalityType
<1> QED
  BY <1>2, <1>3, <1>5, <1>6, <1>7, TaskAssumption

\* find_empty_process() finds a pid that nobody has.
LEMMA NextPidIsFree ==
  ASSUME TreeInv
  PROVE  P!NextPid \in 0 .. MaxPid /\ \A q \in Tab(task) : task[q].pid # P!NextPid
<1> DEFINE used0 == {task[q].pid : q \in P!InTable}
           Behind(n) == 1 + ((last_pid + n - 1) % MaxPid)
           X == {i \in 1 .. MaxPid : Behind(i) \notin used0}
<1>1. last_pid \in 0 .. MaxPid /\ P!InTable = Tab(task) /\ MaxPid \in Nat /\ MaxPid > 0
  BY TaskAssumption, TaskTypes DEF TreeInv, P!TypeOK
<1>2. PICK m \in 1 .. MaxPid : \A q \in Tab(task) : task[q].pid # m
  BY PidIsLeft
<1>3. PICK i \in 1 .. MaxPid : Behind(i) = m
  BY <1>1, RoundThePids
<1>4. X # {}
  BY <1>1, <1>2, <1>3
<1>5. PICK n \in X : \A j \in X : n <= j
  <2>1. X \in SUBSET Nat
    OBVIOUS
  <2> HIDE DEF X
  <2> QED
    BY <1>4, <2>1, LeastNat
<1>6. P!Min(X) \in X
  BY <1>5 DEF P!Min
<1>7. P!NextPid = Behind(P!Min(X))
  BY DEF P!NextPid
<1>8. \A j \in 1 .. MaxPid : Behind(j) \in 0 .. MaxPid
  BY <1>1
<1> HIDE DEF Behind
<1>9. P!Min(X) \in 1 .. MaxPid /\ Behind(P!Min(X)) \notin used0
  BY <1>6
<1> QED
  BY <1>1, <1>7, <1>8, <1>9

\* A slot that is free.
LEMMA FreeSlot ==
  ASSUME NEW Z \in SUBSET P!Slots, Z # {}
  PROVE  P!Min(Z) \in Z
<1>1. Z \in SUBSET Nat
  BY DEF P!Slots
<1>2. \E n \in Z : \A j \in Z : n <= j
  BY <1>1, LeastNat
<1> QED
  BY <1>2 DEF P!Min

-----------------------------------------------------------------------------
\* find_empty_process().
LEMMA ForkStep == ASSUME TreeInv, ~PageSleeps, NEW p \in P!Slots, P!fork(p) PROVE TreeInv'
<1>1. /\ p \in Grown(task) /\ p \in Tab(task) /\ p # 0 /\ task[p] \in P!Task /\ task[p].at = "user"
  BY StepFacts DEF P!fork
<1>2. last_pid' = P!NextPid /\ \A q \in Tab(task) : task[q].at # "page"
  BY TaskTypes DEF P!fork, TreeInv
<1>3. last_pid' \in 0 .. MaxPid /\ \A q \in Tab(task) : task[q].pid # last_pid'
  BY <1>2, NextPidIsFree
<1> DEFINE free == P!Slots \ P!InTable
<1>4. P!InTable = Tab(task)
  BY DEF P!InTable, Tab
<1>5. CASE free = {}
  <2>1. task' = task
    BY <1>5 DEF P!fork
  <2>2. P!TypeOK'
    BY <1>3, <2>1 DEF P!TypeOK, TreeInv
  <2>3. Forks(task', last_pid')
    BY <1>2, <2>1 DEF TreeInv, Forks
  <2> QED
    BY <2>1, <2>2, <2>3 DEF TreeInv
<1>6. CASE free # {}
  <2> DEFINE n == P!Min(free)
             t1 == [task[p] EXCEPT !.at = "page"]
             u == [t1 EXCEPT !.nr = n]
  <2>1. n \in free
    BY <1>6, FreeSlot
  <2>2. task' = [task EXCEPT ![p] = u]
    BY <1>1, <1>6 DEF P!fork, TreeInv, P!TypeOK
  <2> HIDE DEF n
  <2>3. t1 \in P!Task /\ t1.at = "page" /\ t1.pid = task[p].pid /\ t1.p_pptr = task[p].p_pptr
        /\ t1.p_cptr = task[p].p_cptr /\ t1.p_ysptr = task[p].p_ysptr /\ t1.p_osptr = task[p].p_osptr
    BY <1>1 DEF P!Task
  <2> HIDE DEF t1
  <2>4. u \in P!Task /\ u.at = "page" /\ u.nr = n /\ u.pid = task[p].pid /\ u.p_pptr = task[p].p_pptr
        /\ u.p_cptr = task[p].p_cptr /\ u.p_ysptr = task[p].p_ysptr /\ u.p_osptr = task[p].p_osptr
    BY <2>1, <2>3 DEF P!Task, P!Ptr
  <2> HIDE DEF u
  <2>5. u.nr \in P!Slots \ Tab(task)
    BY <1>4, <2>1, <2>4
  <2> QED
    BY <1>1, <1>2, <1>3, <2>2, <2>4, <2>5, OwnStep
<1> QED
  BY <1>5, <1>6

\* do_exit() begins.
LEMMA ExitStep == ASSUME TreeInv, NEW p \in P!Slots, P!do_exit(p) PROVE TreeInv'
<1>1. /\ p \in Grown(task) /\ p \in Tab(task) /\ p # 0 /\ task[p] \in P!Task /\ p # 1
  BY StepFacts DEF P!do_exit
<1> DEFINE u == [task[p] EXCEPT !.at = "files"]
<1>2. task' = [task EXCEPT ![p] = u] /\ last_pid' = last_pid /\ last_pid' \in 0 .. MaxPid
  BY <1>1 DEF P!do_exit, TreeInv, P!TypeOK
<1>3. u \in P!Task /\ u.at = "files" /\ u.pid = task[p].pid /\ u.p_pptr = task[p].p_pptr
        /\ u.p_cptr = task[p].p_cptr /\ u.p_ysptr = task[p].p_ysptr /\ u.p_osptr = task[p].p_osptr
  BY <1>1 DEF P!Task
<1> HIDE DEF u
<1> QED
  BY <1>1, <1>2, <1>3, OwnStep

\* Signals.
LEMMA SignalSteps == ASSUME TreeInv, NEW p \in P!Slots, P!Interrupt(p) \/ P!Deliver(p) PROVE TreeInv'
<1>1. p \in Grown(task) /\ p # 0
  BY StepFacts DEF P!Interrupt, P!Deliver
<1> QED
  BY <1>1, ReturnStep DEF P!Interrupt, P!Deliver

\* copy_process() puts a copy of t into the table.
Copy(t, pid) == [t EXCEPT !.pid = pid, !.at = "new", !.nr = NULL, !.sigchld = FALSE]

\* It is nobody's child yet.
LEMMA TaskCopyFacts ==
  ASSUME NEW t \in P!Task, NEW pid \in 0 .. MaxPid
  PROVE  Copy(t, pid) \in P!Task /\ Copy(t, pid).at = "new" /\ Copy(t, pid).pid = pid
<1> DEFINE t1 == [t EXCEPT !.pid = pid]
           t2 == [t1 EXCEPT !.at = "new"]
           t3 == [t2 EXCEPT !.nr = NULL]
           t4 == [t3 EXCEPT !.sigchld = FALSE]
<1>1. Copy(t, pid) = t4
  BY DEF Copy
<1>2. t1 \in P!Task /\ t1.pid = pid
  BY DEF P!Task
<1> HIDE DEF t1
<1>3. t2 \in P!Task /\ t2.pid = pid /\ t2.at = "new"
  BY <1>2 DEF P!Task
<1> HIDE DEF t2
<1>4. t3 \in P!Task /\ t3.pid = pid /\ t3.at = "new"
  BY <1>3 DEF P!Task, P!Ptr
<1> HIDE DEF t3
<1>5. t4 \in P!Task /\ t4.pid = pid /\ t4.at = "new"
  BY <1>4 DEF P!Task
<1> QED
  BY <1>1, <1>5

\* get_free_page() returns: the copy has the pid that was chosen, and the slot.
LEMMA GetPageStep == ASSUME TreeInv, NEW p \in P!Slots, P!GetPage(p) PROVE TreeInv'
<1>1. /\ p \in Grown(task) /\ p \in Tab(task) /\ p # 0 /\ task[p] \in P!Task /\ task[p].at = "page" /\ p # NULL
  BY StepFacts DEF P!GetPage
<1>2. CASE task' = [task EXCEPT ![p] = P!ToUser(task[p])]
  BY <1>1, <1>2, ReturnStep DEF P!GetPage
<1> DEFINE s == task[p].nr
           c == [task[p] EXCEPT !.pid = last_pid, !.at = "new", !.nr = NULL, !.sigchld = FALSE]
           u == [task[p] EXCEPT !.at = "mem"]
<1>3. CASE task' = [task EXCEPT ![s] = c, ![p].at = "mem"]
  <2>1. /\ s \in P!Slots /\ task[s] = NULL /\ s # p /\ s \notin Tab(task) /\ s # NULL
        /\ \A q \in Tab(task) : task[q].pid # last_pid /\ (task[q].at = "page" => q = p)
    BY <1>1, TaskAssumption DEF TreeInv, Forks, Tab
  <2>2. task' = [[task EXCEPT ![s] = c] EXCEPT ![p] = u]
    BY <1>1, <1>3, <2>1 DEF TreeInv, P!TypeOK
  <2>3. last_pid \in 0 .. MaxPid /\ last_pid' = last_pid
    BY DEF TreeInv, P!TypeOK, P!GetPage
  <2>4. c \in P!Task /\ c.at = "new" /\ c.pid = last_pid /\ c # NULL
    <3>1. c = Copy(task[p], last_pid)
      BY DEF Copy
    <3> HIDE DEF c
    <3>2. c \in P!Task /\ c.at = "new" /\ c.pid = last_pid
      BY <1>1, <2>3, <3>1, TaskCopyFacts
    <3> QED
      BY <3>2, TaskAssumption
  <2>5. /\ u \in P!Task /\ u.at = "mem" /\ u.nr = s /\ u.pid = task[p].pid /\ u.p_pptr = task[p].p_pptr
        /\ u.p_cptr = task[p].p_cptr /\ u.p_ysptr = task[p].p_ysptr /\ u.p_osptr = task[p].p_osptr
        /\ u # NULL
    BY <1>1, TaskAssumption DEF P!Task
  <2> HIDE DEF c, u
  <2> HIDE DEF s
  <2>6. /\ task' \in [P!Slots -> P!Task \cup {NULL}] /\ task'[p] = u /\ task'[s] = c
        /\ \A q \in P!Slots : q # p /\ q # s => task'[q] = task[q]
    <3> DEFINE half == [task EXCEPT ![s] = c]
    <3>1. task \in [P!Slots -> P!Task \cup {NULL}] /\ p \in P!Slots
      BY DEF TreeInv, P!TypeOK
    <3>2. /\ half \in [P!Slots -> P!Task \cup {NULL}] /\ half[s] = c
          /\ \A q \in P!Slots : q # s => half[q] = task[q]
      BY <2>1, <2>4, <3>1
    <3>3. task' = [half EXCEPT ![p] = u]
      BY <2>2
    <3> HIDE DEF half
    <3> QED
      BY <2>1, <2>5, <3>1, <3>2, <3>3
  <2>7. Tab(task') = Tab(task) \cup {s} /\ Grown(task') = Grown(task)
    BY <1>1, <2>1, <2>4, <2>5, <2>6 DEF Tab, Grown
  <2>8. P!TypeOK'
    BY <2>3, <2>6 DEF P!TypeOK
  <2>9. Keeps(task, task')
    BY <1>1, <2>1, <2>5, <2>6, <2>7 DEF Keeps, Grown, Tab
  <2>10. Linked(task') /\ Rooted(task')
    BY <2>9, TreeKept DEF TreeInv
  <2>11. \A q \in Tab(task) : q # p => task'[q] = task[q]
    BY <2>1, <2>6 DEF Tab
  <2>12. Roots(task')
    BY <1>1, <2>5, <2>6, <2>7, <2>11 DEF TreeInv, Roots, Grown
  <2>13. Forks(task', last_pid')
    <3>1. Forks(task, last_pid)
      BY DEF TreeInv
    <3>2. \A a, b \in Tab(task') : a # b => task'[a].pid # task'[b].pid
      BY <1>1, <2>1, <2>4, <2>5, <2>6, <2>7, <2>11, <3>1 DEF Forks
    <3>3. \A a \in Tab(task') : task'[a].at # "page"
      BY <2>1, <2>4, <2>5, <2>6, <2>7, <2>11
    <3>4. \A a \in Tab(task') : task'[a].at = "mem" => a = p \/ (task'[a] = task[a] /\ a \in Tab(task))
      BY <2>4, <2>6, <2>7, <2>11
    <3>5. ASSUME NEW a \in Tab(task'), task'[a].at = "mem"
          PROVE  task'[a].nr \in Tab(task') \ Grown(task') /\ (a = p \/ task'[a].nr # s)
      <4>1. CASE a = p
        BY <2>1, <2>5, <2>6, <2>7, <4>1 DEF Grown
      <4>2. CASE a # p
        <5>1. task'[a] = task[a] /\ a \in Tab(task)
          BY <3>4, <3>5, <4>2
        <5>2. task[a].nr \in Tab(task) \ Grown(task)
          BY <3>1, <3>5, <5>1 DEF Forks
        <5> QED
          BY <2>1, <2>7, <5>1, <5>2
      <4> QED
        BY <4>1, <4>2
    <3>6. ASSUME NEW a \in Tab(task'), task'[a].at = "mem", NEW q \in Tab(task'), task'[q].at = "mem",
                 task'[q].nr = task'[a].nr
          PROVE  q = a
      <4>1. CASE a = p \/ q = p
        BY <2>5, <2>6, <3>5, <3>6, <4>1
      <4>2. CASE a # p /\ q # p
        <5>1. task'[a] = task[a] /\ a \in Tab(task) /\ task'[q] = task[q] /\ q \in Tab(task)
          BY <3>4, <3>6, <4>2
        <5> QED
          BY <3>1, <3>6, <5>1 DEF Forks
      <4> QED
        BY <4>1, <4>2
    <3> QED
      BY <3>2, <3>3, <3>5, <3>6 DEF Forks
  <2>14. Childless(task')
    BY <2>5, <2>6, <2>7, <2>11 DEF TreeInv, Childless, Grown
  <2>15. Told(task')
    <3>1. \A a \in Grown(task') : a # p => task'[a] = task[a] /\ a \in Grown(task)
      BY <2>7, <2>11 DEF Grown
    <3> QED
      BY <2>5, <2>6, <3>1 DEF TreeInv, Told
  <2> QED
    BY <2>8, <2>10, <2>12, <2>13, <2>14, <2>15 DEF TreeInv
<1> QED
  BY <1>2, <1>3 DEF P!GetPage

\* copy_mem() fails, ...
Undone(k, m, p) == m = [k EXCEPT ![k[p].nr] = NULL, ![p] = P!ToUser(@)]

\* ... and the copy is given back.
LEMMA MemFails ==
  ASSUME TreeInv, NEW p \in P!Slots, P!CopyMem(p), Undone(task, task', p)
  PROVE  TreeInv'
<1>1. /\ p \in Grown(task) /\ p \in Tab(task) /\ p # 0 /\ task[p] \in P!Task /\ task[p].at = "mem" /\ p # NULL
  BY StepFacts DEF P!CopyMem
<1> DEFINE c == task[p].nr
           u == P!ToUser(task[p])
<1>2. c \in Tab(task) \ Grown(task) /\ c # p /\ c \in P!Slots
  BY <1>1 DEF TreeInv, Forks, Tab
<1>3. /\ u \in P!Task /\ u.at = "user" /\ u.pid = task[p].pid /\ u.p_pptr = task[p].p_pptr
      /\ u.p_cptr = task[p].p_cptr /\ u.p_ysptr = task[p].p_ysptr /\ u.p_osptr = task[p].p_osptr
      /\ u # NULL
  BY <1>1, ToUserFacts, TaskAssumption
<1>4. last_pid \in 0 .. MaxPid /\ last_pid' = last_pid
  BY DEF TreeInv, P!TypeOK, P!CopyMem
<1>5. task' = [[task EXCEPT ![c] = NULL] EXCEPT ![p] = u]
  BY <1>1, <1>2 DEF TreeInv, P!TypeOK, Undone
<1> HIDE DEF c, u
<1>6. /\ task' \in [P!Slots -> P!Task \cup {NULL}] /\ task'[p] = u /\ task'[c] = NULL
      /\ \A q \in P!Slots : q # p /\ q # c => task'[q] = task[q]
  <2> DEFINE half == [task EXCEPT ![c] = NULL]
  <2>1. task \in [P!Slots -> P!Task \cup {NULL}] /\ p \in P!Slots
    BY DEF TreeInv, P!TypeOK
  <2>2. /\ half \in [P!Slots -> P!Task \cup {NULL}] /\ half[c] = NULL
        /\ \A q \in P!Slots : q # c => half[q] = task[q]
    BY <1>2, <2>1
  <2>3. task' = [half EXCEPT ![p] = u]
    BY <1>5
  <2> HIDE DEF half
  <2> QED
    BY <1>2, <1>3, <2>1, <2>2, <2>3
<1>7. Tab(task') = Tab(task) \ {c} /\ Grown(task') = Grown(task)
  BY <1>1, <1>2, <1>3, <1>6 DEF Tab, Grown
<1>8. P!TypeOK'
  BY <1>4, <1>6 DEF P!TypeOK
<1>9. \A q \in Tab(task') : q # p => task'[q] = task[q]
  BY <1>6, <1>7 DEF Tab
<1>10. Keeps(task, task')
  BY <1>1, <1>3, <1>6, <1>7, <1>9 DEF Keeps, Grown
<1>11. Linked(task') /\ Rooted(task')
  BY <1>10, TreeKept DEF TreeInv
<1>12. Roots(task')
  BY <1>1, <1>3, <1>6, <1>7, <1>9 DEF TreeInv, Roots, Grown
<1>13. Forks(task', last_pid')
  <2>1. Forks(task, last_pid)
    BY DEF TreeInv
  <2>7. \A q \in Tab(task') : task'[q].pid = task[q].pid /\ q \in Tab(task)
    BY <1>3, <1>6, <1>7, <1>9
  <2>2. \A a, b \in Tab(task') : a # b => task'[a].pid # task'[b].pid
    BY <2>1, <2>7 DEF Forks
  <2>3. \A a \in Tab(task') : task'[a].at \in {"page", "mem"} => a # p /\ task'[a] = task[a] /\ a \in Tab(task)
    BY <1>3, <1>6, <1>7, <1>9
  <2>4. ASSUME NEW a \in Tab(task'), task'[a].at = "page"
        PROVE  /\ task'[a].nr \in P!Slots /\ task'[task'[a].nr] = NULL
               /\ \A q \in Tab(task') : task'[q].pid # last_pid' /\ (task'[q].at = "page" => q = a)
    <3>1. a # p /\ task'[a] = task[a] /\ a \in Tab(task) /\ task[a].at = "page"
      BY <2>3, <2>4
    <3>2. /\ task[a].nr \in P!Slots /\ task[task[a].nr] = NULL /\ task[a].nr # p
          /\ \A q \in Tab(task) : task[q].pid # last_pid /\ (task[q].at = "page" => q = a)
      BY <1>1, <2>1, <3>1 DEF Forks, Tab
    <3>4. task'[task[a].nr] = NULL
      BY <1>6, <3>2
    <3> QED
      BY <1>4, <2>3, <2>7, <3>1, <3>2, <3>4
  <2>5. ASSUME NEW a \in Tab(task'), task'[a].at = "mem"
        PROVE  /\ task'[a].nr \in Tab(task') \ Grown(task')
               /\ \A q \in Tab(task') : task'[q].at = "mem" /\ task'[q].nr = task'[a].nr => q = a
    <3>1. a # p /\ task'[a] = task[a] /\ a \in Tab(task) /\ task[a].at = "mem"
      BY <2>3, <2>5
    <3>2. /\ task[a].nr \in Tab(task) \ Grown(task)
          /\ \A q \in Tab(task) : task[q].at = "mem" /\ task[q].nr = task[a].nr => q = a
      BY <2>1, <3>1 DEF Forks
    <3>3. task[a].nr # c
      BY <1>1, <3>1, <3>2 DEF c
    <3>4. task'[a].nr \in Tab(task') \ Grown(task')
      BY <1>7, <3>1, <3>2, <3>3
    <3>5. ASSUME NEW q \in Tab(task'), task'[q].at = "mem", task'[q].nr = task'[a].nr PROVE q = a
      BY <2>3, <3>1, <3>2, <3>5
    <3> QED
      BY <3>4, <3>5
  <2> QED
    BY <2>2, <2>4, <2>5 DEF Forks
<1>14. Childless(task')
  BY <1>3, <1>6, <1>7, <1>9 DEF TreeInv, Childless, Grown
<1>15. Told(task')
  <2> SUFFICES ASSUME NEW a \in Grown(task'), NEW z \in Grown(task'), task'[a].at = "wait",
                      task'[z].p_pptr = a, task'[z].at = "zombie", task'[a].want \in {-1, task'[z].pid}
               PROVE  task'[a].sigchld
    BY DEF Told
  <2>1. a # p /\ z # p
    BY <1>3, <1>6
  <2>2. task'[a] = task[a] /\ task'[z] = task[z] /\ a \in Grown(task) /\ z \in Grown(task)
    BY <1>7, <1>9, <2>1 DEF Grown
  <2> QED
    BY <2>2 DEF TreeInv, Told
<1> QED
  BY <1>8, <1>11, <1>12, <1>13, <1>14, <1>15 DEF TreeInv

\* What copy_process() makes of the new task.
Newborn(pid, p, os) == [P!New(pid, p) EXCEPT !.p_osptr = os]

\* It is a task with these links.
LEMMA NewFacts ==
  ASSUME NEW pid \in 0 .. MaxPid, NEW p \in P!Ptr, NEW os \in P!Ptr
  PROVE  /\ Newborn(pid, p, os) \in P!Task /\ Newborn(pid, p, os).at = "user" /\ Newborn(pid, p, os).pid = pid
         /\ Newborn(pid, p, os).p_pptr = p /\ Newborn(pid, p, os).p_cptr = NULL
         /\ Newborn(pid, p, os).p_ysptr = NULL /\ Newborn(pid, p, os).p_osptr = os
<1> DEFINE n == P!New(pid, p)
<1>1. /\ n \in P!Task /\ n.at = "user" /\ n.pid = pid /\ n.p_pptr = p /\ n.p_cptr = NULL /\ n.p_ysptr = NULL
  BY TaskAssumption DEF P!New, P!Task, P!Ptr
<1>2. Newborn(pid, p, os) = [n EXCEPT !.p_osptr = os]
  BY DEF Newborn
<1> HIDE DEF n
<1>3. /\ [n EXCEPT !.p_osptr = os] \in P!Task /\ [n EXCEPT !.p_osptr = os].at = n.at
      /\ [n EXCEPT !.p_osptr = os].pid = n.pid /\ [n EXCEPT !.p_osptr = os].p_pptr = n.p_pptr
      /\ [n EXCEPT !.p_osptr = os].p_cptr = n.p_cptr /\ [n EXCEPT !.p_osptr = os].p_ysptr = n.p_ysptr
      /\ [n EXCEPT !.p_osptr = os].p_osptr = os
  BY <1>1 DEF P!Task
<1> QED
  BY <1>1, <1>2, <1>3

\* The new task c of p is complete, in the table m: the older sibling os is
\* told, and p returns from fork.
Grows(k, m, p, c, os) ==
  m = [q \in P!Slots |-> IF q = c THEN Newborn(k[c].pid, p, os)
                         ELSE IF q = os THEN [k[q] EXCEPT !.p_ysptr = c]
                         ELSE IF q = p THEN [P!ToUser(k[p]) EXCEPT !.p_cptr = c]
                         ELSE k[q]]

\* The same, field by field.
Made(k, m, p, c, os) ==
  /\ m \in [P!Slots -> P!Task \cup {NULL}] /\ Tab(m) = Tab(k)
  /\ m[c].at = "user" /\ m[c].pid = k[c].pid /\ m[c].p_pptr = p /\ m[c].p_cptr = NULL
  /\ m[c].p_ysptr = NULL /\ m[c].p_osptr = os
  /\ m[p].at = "user" /\ m[p].pid = k[p].pid /\ m[p].p_pptr = k[p].p_pptr /\ m[p].p_cptr = c
  /\ m[p].p_ysptr = k[p].p_ysptr /\ m[p].p_osptr = k[p].p_osptr
  /\ \A q \in Tab(k) \ {c, p} :
       /\ m[q].at = k[q].at /\ m[q].pid = k[q].pid /\ m[q].nr = k[q].nr
       /\ m[q].want = k[q].want /\ m[q].sigchld = k[q].sigchld
       /\ m[q].p_pptr = k[q].p_pptr /\ m[q].p_cptr = k[q].p_cptr /\ m[q].p_osptr = k[q].p_osptr
       /\ m[q].p_ysptr = IF q = os THEN c ELSE k[q].p_ysptr

\* That is what the fields of the tasks become.
LEMMA GrowsFields ==
  ASSUME NEW k \in [P!Slots -> P!Task \cup {NULL}], NEW m, NEW p \in Tab(k), NEW c \in Tab(k) \ {p},
         NEW os \in (Tab(k) \ {c, p}) \cup {NULL}, Grows(k, m, p, c, os)
  PROVE  Made(k, m, p, c, os)
<1> DEFINE n == Newborn(k[c].pid, p, os)
           w == P!ToUser(k[p])
           u == [w EXCEPT !.p_cptr = c]
<1>1. /\ p \in P!Ptr /\ c \in P!Ptr /\ os \in P!Ptr /\ p # NULL /\ c # NULL /\ k[p] \in P!Task /\ k[c] \in P!Task
      /\ \A q \in Tab(k) : k[q] \in P!Task /\ q \in P!Slots
  BY TaskAssumption DEF P!Ptr, Tab
<1>2. k[c].pid \in 0 .. MaxPid
  BY <1>1 DEF P!Task
<1>3. /\ n \in P!Task /\ n.at = "user" /\ n.pid = k[c].pid /\ n.p_pptr = p /\ n.p_cptr = NULL
      /\ n.p_ysptr = NULL /\ n.p_osptr = os
  BY <1>1, <1>2, NewFacts
<1>4. /\ w \in P!Task /\ w.at = "user" /\ w.pid = k[p].pid /\ w.p_pptr = k[p].p_pptr
      /\ w.p_ysptr = k[p].p_ysptr /\ w.p_osptr = k[p].p_osptr
  BY <1>1, ToUserFacts
<1> HIDE DEF w
<1>5. /\ u \in P!Task /\ u.at = "user" /\ u.pid = k[p].pid /\ u.p_pptr = k[p].p_pptr
      /\ u.p_ysptr = k[p].p_ysptr /\ u.p_osptr = k[p].p_osptr /\ u.p_cptr = c
  BY <1>1, <1>4 DEF P!Task
<1>6. /\ DOMAIN m = P!Slots /\ m = [q \in P!Slots |-> m[q]]
      /\ \A q \in P!Slots : m[q] = IF q = c THEN n ELSE IF q = os THEN [k[q] EXCEPT !.p_ysptr = c]
                                  ELSE IF q = p THEN u ELSE k[q]
  BY DEF Grows, w
<1> HIDE DEF n, u
<1>7. m[c] = n /\ m[p] = u /\ n # NULL /\ u # NULL
  BY <1>1, <1>3, <1>5, <1>6, TaskAssumption
<1>8. ASSUME NEW q \in Tab(k) \ {c, p}
      PROVE  /\ m[q] \in P!Task
             /\ m[q].at = k[q].at /\ m[q].pid = k[q].pid /\ m[q].nr = k[q].nr
             /\ m[q].want = k[q].want /\ m[q].sigchld = k[q].sigchld
             /\ m[q].p_pptr = k[q].p_pptr /\ m[q].p_cptr = k[q].p_cptr /\ m[q].p_osptr = k[q].p_osptr
             /\ m[q].p_ysptr = IF q = os THEN c ELSE k[q].p_ysptr
  <2>1. CASE q = os
    <3>1. m[q] = [k[q] EXCEPT !.p_ysptr = c] /\ k[q] \in P!Task
      BY <1>1, <1>6, <1>8, <2>1
    <3> QED
      BY ONLY <1>1, <2>1, <3>1 DEF P!Task
  <2>2. CASE q # os
    BY <1>1, <1>6, <1>8, <2>2
  <2> QED
    BY <2>1, <2>2
<1>9. \A q \in P!Slots : q \notin Tab(k) => m[q] = NULL
  <2> SUFFICES ASSUME NEW q \in P!Slots, q \notin Tab(k) PROVE m[q] = NULL
    OBVIOUS
  <2>1. k[q] = NULL /\ q # c /\ q # p /\ q # os
    BY TaskAssumption DEF Tab
  <2> QED
    BY ONLY <1>6, <2>1
<1>10. \A q \in P!Slots : m[q] \in P!Task \cup {NULL}
  <2> TAKE q \in P!Slots
  <2>1. CASE q \in {c, p}
    BY <1>3, <1>5, <1>7, <2>1
  <2>2. CASE q \in Tab(k) \ {c, p}
    BY <1>8, <2>2
  <2>3. CASE q \notin Tab(k)
    BY <1>9, <2>3
  <2> QED
    BY <2>1, <2>2, <2>3
<1>11. Tab(m) = Tab(k)
  <2>1. \A q \in Tab(k) : m[q] # NULL
    BY <1>7, <1>8, TaskAssumption
  <2> QED
    BY <1>9, <2>1 DEF Tab
<1>12. m \in [P!Slots -> P!Task \cup {NULL}]
  BY <1>6, <1>10
<1> QED
  BY <1>3, <1>5, <1>7, <1>8, <1>11, <1>12 DEF Made

\* The new task is the youngest child of p.
LEMMA MadeStep ==
  ASSUME TreeInv, NEW p \in Grown(task), p # 0, NEW c \in Tab(task) \ Grown(task), task[p].at = "mem", task[p].nr = c,
         Made(task, task', p, c, task[p].p_cptr), last_pid' = last_pid
  PROVE  TreeInv'
<1> DEFINE os == task[p].p_cptr
<1>1. /\ p \in Tab(task) /\ c # p /\ c \in P!Slots /\ c # 0 /\ c # 1 /\ Grown(task) \subseteq Tab(task)
  BY DEF Tab, Grown, TreeInv, Roots
<1>2. Made(task, task', p, c, os)
  OBVIOUS
<1> HIDE DEF os
<1>3. /\ task' \in [P!Slots -> P!Task \cup {NULL}] /\ Tab(task') = Tab(task)
      /\ task'[c].at = "user" /\ task'[p].at = "user"
  BY <1>2 DEF Made
<1>4. \A q \in Tab(task) : /\ task'[q].pid = task[q].pid
                           /\ q \notin {c, p} => /\ task'[q].at = task[q].at /\ task'[q].nr = task[q].nr
                                                 /\ task'[q].want = task[q].want /\ task'[q].sigchld = task[q].sigchld
                                                 /\ task'[q].p_pptr = task[q].p_pptr /\ task'[q].p_cptr = task[q].p_cptr
  BY <1>2 DEF Made
<1>5. Grown(task') = Grown(task) \cup {c}
  BY <1>1, <1>3, <1>4 DEF Grown
<1>6. \A q \in Grown(task) : task[q].p_pptr # c
  BY <1>1, TaskAssumption DEF TreeInv, Rooted, Descends, Roots
<1>7. Born(task, task', c, p)
  <2>1. os = NULL \/ (os \in Grown(task) /\ os # p)
    <3>1. task[p].p_pptr # p
      BY DEF TreeInv, Rooted, Descends, Roots
    <3>2. PICK r : Siblings(task, r)
      BY DEF TreeInv, Linked
    <3>3. os = NULL \/ os \in Kids(task, p)
      BY <3>2 DEF Siblings, Youngest, os
    <3> QED
      BY <3>1, <3>3 DEF Kids
  <2>2. \A q \in Grown(task) : /\ task'[q].p_pptr = task[q].p_pptr /\ task'[q].p_osptr = task[q].p_osptr
                               /\ task'[q].p_cptr = IF q = p THEN c ELSE task[q].p_cptr
                               /\ task'[q].p_ysptr = IF q = os THEN c ELSE task[q].p_ysptr
    <3> TAKE q \in Grown(task)
    <3>1. CASE q = p
      <4>1. p # os
        BY <1>1, <2>1, TaskAssumption DEF Tab
      <4> QED
        BY <1>2, <3>1, <4>1 DEF Made
    <3>2. CASE q # p
      <4>1. q \in Tab(task) \ {c, p}
        BY <1>1, <3>2
      <4> QED
        BY <1>2, <3>2, <4>1 DEF Made
    <3> QED
      BY <3>1, <3>2
  <2>3. task'[c].p_pptr = p /\ task'[c].p_cptr = NULL /\ task'[c].p_ysptr = NULL /\ task'[c].p_osptr = os
    BY <1>2 DEF Made
  <2> QED
    BY <1>5, <2>2, <2>3 DEF Born, os
<1>8. Linked(task') /\ Rooted(task')
  BY <1>1, <1>6, <1>7, BirthLinks, BirthDescends DEF TreeInv
<1>9. P!TypeOK'
  BY <1>3 DEF P!TypeOK, TreeInv
<1>10. Roots(task')
  <2>1. {0, 1} \subseteq Grown(task) /\ 0 \in Tab(task) \ {c, p} /\ 1 \in Tab(task) \ {c}
    BY <1>1 DEF TreeInv, Roots
  <2>2. task'[0].p_pptr = NULL /\ task'[0].pid = 0 /\ task'[0].at = "user"
    BY <1>4, <2>1 DEF TreeInv, Roots
  <2>3. task'[1].p_pptr = 0 /\ task'[1].at \notin {"files", "zombie"}
    <3>1. CASE p = 1
      BY <1>2, <3>1 DEF TreeInv, Roots, Made
    <3>2. CASE p # 1
      BY <1>4, <2>1, <3>2 DEF TreeInv, Roots
    <3> QED
      BY <3>1, <3>2
  <2> QED
    BY <1>5, <2>1, <2>2, <2>3 DEF Roots
<1>11. Forks(task', last_pid')
  <2>1. Forks(task, last_pid)
    BY DEF TreeInv
  <2>2. \A a, b \in Tab(task') : a # b => task'[a].pid # task'[b].pid
    BY <1>3, <1>4, <2>1 DEF Forks
  <2>3. \A q \in Tab(task') : task'[q].at \in {"page", "mem"} =>
          /\ q # p /\ q # c /\ q \in Tab(task) /\ task'[q].at = task[q].at /\ task'[q].nr = task[q].nr
    BY <1>3, <1>4
  <2>4. ASSUME NEW a \in Tab(task'), task'[a].at = "page"
        PROVE  /\ task'[a].nr \in P!Slots /\ task'[task'[a].nr] = NULL
               /\ \A q \in Tab(task') : task'[q].pid # last_pid' /\ (task'[q].at = "page" => q = a)
    <3>1. task[a].at = "page" /\ task'[a].nr = task[a].nr /\ a \in Tab(task)
      BY <2>3, <2>4
    <3>2. /\ task[a].nr \in P!Slots /\ task[task[a].nr] = NULL
          /\ \A q \in Tab(task) : task[q].pid # last_pid /\ (task[q].at = "page" => q = a)
      BY <2>1, <3>1 DEF Forks
    <3>3. task'[task[a].nr] = NULL
      BY <1>3, <3>2 DEF Tab
    <3>4. \A q \in Tab(task') : task'[q].pid # last_pid' /\ (task'[q].at = "page" => q = a)
      BY <1>3, <1>4, <2>3, <3>2
    <3> QED
      BY <3>1, <3>2, <3>3, <3>4
  <2>5. ASSUME NEW a \in Tab(task'), task'[a].at = "mem"
        PROVE  /\ task'[a].nr \in Tab(task') \ Grown(task')
               /\ \A q \in Tab(task') : task'[q].at = "mem" /\ task'[q].nr = task'[a].nr => q = a
    <3>1. a # p /\ task[a].at = "mem" /\ task'[a].nr = task[a].nr /\ a \in Tab(task)
      BY <2>3, <2>5
    <3>2. /\ task[a].nr \in Tab(task) \ Grown(task)
          /\ \A q \in Tab(task) : task[q].at = "mem" /\ task[q].nr = task[a].nr => q = a
      BY <2>1, <3>1 DEF Forks
    <3>3. task[a].nr # c
      BY <1>1, <3>1, <3>2
    <3>4. task'[a].nr \in Tab(task') \ Grown(task')
      BY <1>3, <1>5, <3>1, <3>2, <3>3
    <3>5. ASSUME NEW q \in Tab(task'), task'[q].at = "mem", task'[q].nr = task'[a].nr PROVE q = a
      BY <2>3, <3>1, <3>2, <3>5
    <3> QED
      BY <3>4, <3>5
  <2> QED
    BY <2>2, <2>4, <2>5 DEF Forks
<1>12. Childless(task')
  <2> SUFFICES ASSUME NEW q \in Grown(task'), task'[q].at = "zombie" PROVE task'[q].p_cptr = NULL
    BY DEF Childless
  <2>1. q # p /\ q # c
    BY <1>3
  <2> QED
    BY <1>1, <1>4, <1>5, <2>1 DEF TreeInv, Childless
<1>13. Told(task')
  <2> SUFFICES ASSUME NEW a \in Grown(task'), NEW z \in Grown(task'), task'[a].at = "wait",
                      task'[z].p_pptr = a, task'[z].at = "zombie", task'[a].want \in {-1, task'[z].pid}
               PROVE  task'[a].sigchld
    BY DEF Told
  <2>1. a # p /\ a # c /\ z # p /\ z # c
    BY <1>3
  <2>2. a \in Grown(task) /\ z \in Grown(task) /\ a \in Tab(task) /\ z \in Tab(task)
    BY <1>1, <1>5, <2>1
  <2>3. Told(task)
    BY DEF TreeInv
  <2> QED
    BY <1>4, <2>1, <2>2, <2>3 DEF Told
<1> QED
  BY <1>8, <1>9, <1>10, <1>11, <1>12, <1>13 DEF TreeInv

\* copy_mem() returns.
LEMMA CopyMemStep == ASSUME TreeInv, NEW p \in P!Slots, P!CopyMem(p) PROVE TreeInv'
<1>1. /\ p \in Grown(task) /\ p \in Tab(task) /\ p # 0 /\ task[p].at = "mem"
  BY StepFacts DEF P!CopyMem
<1> DEFINE c == task[p].nr
           os == task[p].p_cptr
<1>2. Undone(task, task', p) \/ Grows(task, task', p, c, os)
  BY DEF P!CopyMem, Undone, Grows, Newborn
<1>3. CASE Undone(task, task', p)
  BY <1>3, MemFails
<1>4. CASE Grows(task, task', p, c, os)
  <2>1. c \in Tab(task) \ Grown(task) /\ c # p
    BY <1>1 DEF TreeInv, Forks
  <2>2. task \in [P!Slots -> P!Task \cup {NULL}] /\ last_pid' = last_pid
    BY DEF TreeInv, P!TypeOK, P!CopyMem
  <2>3. os \in (Tab(task) \ {c, p}) \cup {NULL}
    <3>1. task[p].p_pptr # p
      BY <1>1 DEF TreeInv, Rooted, Descends, Roots
    <3>2. PICK r : Siblings(task, r)
      BY DEF TreeInv, Linked
    <3>3. os = NULL \/ os \in Kids(task, p)
      BY <1>1, <3>2 DEF Siblings, Youngest
    <3> QED
      BY <2>1, <3>1, <3>3 DEF Kids, Grown
  <2> HIDE DEF c, os
  <2>4. Made(task, task', p, c, os)
    BY <1>1, <1>4, <2>1, <2>2, <2>3, GrowsFields
  <2> QED
    BY <1>1, <2>1, <2>2, <2>4, MadeStep DEF c, os
<1> QED
  BY <1>2, <1>3, <1>4

-----------------------------------------------------------------------------
\* A task with other links, and where it is.
Relinked(t, at, sg, pp, os, ys, cp) ==
  [t EXCEPT !.at = at, !.sigchld = sg, !.p_pptr = pp, !.p_osptr = os, !.p_ysptr = ys, !.p_cptr = cp]

Stages == {"user", "page", "mem", "new", "files", "zombie", "wait"}
Fit(t, at, sg, pp, os, ys, cp) == t \in P!Task /\ at \in Stages /\ sg \in BOOLEAN /\ {pp, os, ys, cp} \subseteq P!Ptr
HasLinks(u, t, at, sg, pp, os, ys, cp) ==
  /\ u \in P!Task /\ u.at = at /\ u.sigchld = sg /\ u.p_pptr = pp /\ u.p_osptr = os /\ u.p_ysptr = ys
  /\ u.p_cptr = cp /\ u.pid = t.pid /\ u.nr = t.nr /\ u.want = t.want

\* The other fields are as they were.
LEMMA RelinkedFields ==
  ASSUME NEW t, NEW at, NEW sg, NEW pp, NEW os, NEW ys, NEW cp, Fit(t, at, sg, pp, os, ys, cp)
  PROVE  HasLinks(Relinked(t, at, sg, pp, os, ys, cp), t, at, sg, pp, os, ys, cp)
<1> DEFINE t1 == [t EXCEPT !.at = at]
           t2 == [t1 EXCEPT !.sigchld = sg]
           t3 == [t2 EXCEPT !.p_pptr = pp]
           t4 == [t3 EXCEPT !.p_osptr = os]
           t5 == [t4 EXCEPT !.p_ysptr = ys]
           t6 == [t5 EXCEPT !.p_cptr = cp]
           Same(v) == v.pid = t.pid /\ v.nr = t.nr /\ v.want = t.want
<1>1. Relinked(t, at, sg, pp, os, ys, cp) = t6
  BY DEF Relinked
<1>8. /\ t \in P!Task /\ at \in {"user", "page", "mem", "new", "files", "zombie", "wait"} /\ sg \in BOOLEAN
      /\ pp \in P!Ptr /\ os \in P!Ptr /\ ys \in P!Ptr /\ cp \in P!Ptr
  BY DEF Fit, Stages
<1>2. t1 \in P!Task /\ t1.at = at /\ Same(t1)
  BY <1>8 DEF P!Task
<1> HIDE DEF t1
<1>3. t2 \in P!Task /\ t2.at = at /\ t2.sigchld = sg /\ Same(t2)
  BY <1>2, <1>8 DEF P!Task
<1> HIDE DEF t2
<1>4. t3 \in P!Task /\ t3.at = at /\ t3.sigchld = sg /\ t3.p_pptr = pp /\ Same(t3)
  BY <1>3, <1>8 DEF P!Task
<1> HIDE DEF t3
<1>5. t4 \in P!Task /\ t4.at = at /\ t4.sigchld = sg /\ t4.p_pptr = pp /\ t4.p_osptr = os /\ Same(t4)
  BY <1>4, <1>8 DEF P!Task
<1> HIDE DEF t4
<1>6. t5 \in P!Task /\ t5.at = at /\ t5.sigchld = sg /\ t5.p_pptr = pp /\ t5.p_osptr = os /\ t5.p_ysptr = ys /\ Same(t5)
  BY <1>5, <1>8 DEF P!Task
<1> HIDE DEF t5
<1>7. /\ t6 \in P!Task /\ t6.at = at /\ t6.sigchld = sg /\ t6.p_pptr = pp /\ t6.p_osptr = os /\ t6.p_ysptr = ys
      /\ t6.p_cptr = cp /\ Same(t6)
  BY <1>6, <1>8 DEF P!Task
<1> HIDE DEF t6
<1> QED
  BY <1>1, <1>7 DEF HasLinks

\* p has become a zombie in the table m, and init has its children, of which e
\* is the eldest.
Left(k, m, p, e) ==
  /\ m \in [P!Slots -> P!Task \cup {NULL}] /\ Tab(m) = Tab(k)
  /\ \A q \in Tab(k) :
       /\ m[q].at = IF q = p THEN "zombie" ELSE k[q].at
       /\ m[q].pid = k[q].pid /\ m[q].nr = k[q].nr /\ m[q].want = k[q].want
       /\ m[q].sigchld = \/ k[q].sigchld \/ q = k[p].p_pptr
                         \/ q = 1 /\ \E z \in Kids(k, p) : k[z].at = "zombie"
       /\ m[q].p_pptr = IF q \in Kids(k, p) THEN 1 ELSE k[q].p_pptr
       /\ m[q].p_osptr = IF Kids(k, p) # {} /\ q = e THEN k[1].p_cptr ELSE k[q].p_osptr
       /\ m[q].p_ysptr = IF Kids(k, p) # {} /\ q = k[1].p_cptr THEN e ELSE k[q].p_ysptr
       /\ m[q].p_cptr = IF q = p THEN NULL ELSE IF q = 1 /\ Kids(k, p) # {} THEN k[p].p_cptr ELSE k[q].p_cptr

\* The eldest child is found.
LEMMA EldestIsFound ==
  ASSUME TreeInv, NEW p \in Grown(task), Kids(task, p) # {}
  PROVE  \E e \in Kids(task, p) : task[e].p_osptr = NULL
<1>1. PICK r : Siblings(task, r)
  BY DEF TreeInv, Linked
<1>2. Kids(task, p) \in SUBSET P!Slots /\ r \in [P!Slots -> Nat]
  BY <1>1 DEF Kids, Grown, Tab, Siblings
<1>3. PICK e \in Kids(task, p) : \A b \in Kids(task, p) : r[e] <= r[b]
  BY <1>2, LowestRank
<1>4. task[e].p_osptr # NULL => task[e].p_osptr \in Kids(task, p) /\ r[task[e].p_osptr] < r[e]
  BY <1>1 DEF Siblings, Older, Kids
<1>5. task[e].p_osptr \in Kids(task, p) => r[task[e].p_osptr] \in Nat /\ r[e] \in Nat /\ r[e] <= r[task[e].p_osptr]
  BY <1>2, <1>3
<1> QED
  BY <1>4, <1>5

\* do_exit() relinks the tasks of the table.
LEMMA OrphanedFields ==
  ASSUME TreeInv, NEW p \in Grown(task), task' = P!Orphaned(p, TRUE)
  PROVE  \E e : /\ Left(task, task', p, e)
                /\ Kids(task, p) # {} => e \in Kids(task, p) /\ task[e].p_osptr = NULL
<1> DEFINE kids == P!Children(p)
           e == CHOOSE z \in kids : task[z].p_osptr = NULL
           at(q) == IF q = p THEN "zombie" ELSE task[q].at
           sg(q) == \/ task[q].sigchld \/ q = task[p].p_pptr
                    \/ (q = 1 /\ TRUE /\ \E z \in kids : task[z].at = "zombie")
           pp(q) == IF q \in kids THEN 1 ELSE task[q].p_pptr
           os(q) == IF kids # {} /\ q = e THEN task[1].p_cptr ELSE task[q].p_osptr
           ys(q) == IF kids # {} /\ q = task[1].p_cptr THEN e ELSE task[q].p_ysptr
           cp(q) == IF q = p THEN NULL ELSE IF q = 1 /\ kids # {} THEN task[p].p_cptr ELSE task[q].p_cptr
<1>1. Kids(task, p) = kids
  BY ChildrenAre DEF TreeInv
<1>2. task' = [q \in P!Slots |-> IF task[q] = NULL THEN NULL
                                ELSE Relinked(task[q], at(q), sg(q), pp(q), os(q), ys(q), cp(q))]
  BY Zenon DEF P!Orphaned, Relinked
<1>3. kids # {} => e \in kids /\ task[e].p_osptr = NULL
  BY <1>1, EldestIsFound
<1>4. /\ 1 \in Tab(task) /\ 1 \in P!Ptr /\ NULL \in P!Ptr /\ p \in Tab(task)
      /\ \A q \in Tab(task) : /\ task[q] \in P!Task /\ task[q].p_pptr \in P!Ptr /\ task[q].p_cptr \in P!Ptr
                              /\ task[q].p_ysptr \in P!Ptr /\ task[q].p_osptr \in P!Ptr /\ task[q].sigchld \in BOOLEAN
                              /\ task[q].at \in {"user", "page", "mem", "new", "files", "zombie", "wait"}
                              /\ q \in P!Slots /\ q \in P!Ptr
      /\ kids \subseteq Tab(task)
  BY <1>1, TaskTypes DEF TreeInv, Roots, Grown, Kids, P!Ptr
<1> HIDE DEF e, kids
<1>5. ASSUME NEW q \in Tab(task)
      PROVE  /\ at(q) \in {"user", "page", "mem", "new", "files", "zombie", "wait"} /\ sg(q) \in BOOLEAN
             /\ pp(q) \in P!Ptr /\ os(q) \in P!Ptr /\ ys(q) \in P!Ptr /\ cp(q) \in P!Ptr
  <2>1. at(q) \in {"user", "page", "mem", "new", "files", "zombie", "wait"}
    BY <1>4
  <2>2. sg(q) \in BOOLEAN
    BY <1>4
  <2>3. pp(q) \in P!Ptr /\ os(q) \in P!Ptr
    BY <1>4
  <2>4. ys(q) \in P!Ptr
    BY <1>3, <1>4
  <2>5. cp(q) \in P!Ptr
    BY <1>4
  <2> QED
    BY <2>1, <2>2, <2>3, <2>4, <2>5
<1> HIDE DEF at, sg, pp, os, ys, cp
<1>6. \A q \in Tab(task) : task'[q] = Relinked(task[q], at(q), sg(q), pp(q), os(q), ys(q), cp(q))
  BY <1>2 DEF Tab
<1>7. \A q \in Tab(task) :
        /\ task'[q] \in P!Task /\ task'[q].at = at(q) /\ task'[q].sigchld = sg(q) /\ task'[q].p_pptr = pp(q)
        /\ task'[q].p_osptr = os(q) /\ task'[q].p_ysptr = ys(q) /\ task'[q].p_cptr = cp(q)
        /\ task'[q].pid = task[q].pid /\ task'[q].nr = task[q].nr /\ task'[q].want = task[q].want
  <2> TAKE q \in Tab(task)
  <2>1. task[q] \in P!Task /\ task'[q] = Relinked(task[q], at(q), sg(q), pp(q), os(q), ys(q), cp(q))
    BY <1>4, <1>6
  <2>2. Fit(task[q], at(q), sg(q), pp(q), os(q), ys(q), cp(q))
    BY <1>4, <1>5 DEF Fit, Stages
  <2>3. HasLinks(task'[q], task[q], at(q), sg(q), pp(q), os(q), ys(q), cp(q))
    BY ONLY <2>1, <2>2, RelinkedFields
  <2> QED
    BY ONLY <2>3 DEF HasLinks
<1>8. \A q \in P!Slots : q \notin Tab(task) => task'[q] = NULL
  BY <1>2 DEF Tab
<1>9. task' \in [P!Slots -> P!Task \cup {NULL}] /\ Tab(task') = Tab(task)
  <2>1. DOMAIN task' = P!Slots /\ task' = [q \in P!Slots |-> task'[q]]
    BY <1>2
  <2>2. \A q \in P!Slots : task'[q] \in P!Task \cup {NULL}
    BY <1>7, <1>8
  <2>3. \A q \in P!Slots : task'[q] # NULL <=> q \in Tab(task)
    BY <1>7, <1>8, TaskAssumption
  <2> QED
    BY <2>1, <2>2, <2>3 DEF Tab
<1>10. Left(task, task', p, e)
  BY <1>1, <1>7, <1>9, ZenonT(60) DEF Left, at, sg, pp, os, ys, cp
<1> QED
  BY <1>1, <1>3, <1>10

\* do_exit() makes p a zombie.
LEMMA LeftStep ==
  ASSUME TreeInv, NEW p \in Grown(task), p # 0, task[p].at = "files", NEW e, Left(task, task', p, e),
         Kids(task, p) # {} => e \in Kids(task, p) /\ task[e].p_osptr = NULL, last_pid' = last_pid
  PROVE  TreeInv'
<1>1. p # 1 /\ p \in Tab(task) /\ Grown(task) \subseteq Tab(task) /\ {0, 1} \subseteq Grown(task)
  BY DEF TreeInv, Roots, Grown
<1>2. /\ task' \in [P!Slots -> P!Task \cup {NULL}] /\ Tab(task') = Tab(task)
      /\ \A q \in Tab(task) : /\ task'[q].at = IF q = p THEN "zombie" ELSE task[q].at
                              /\ task'[q].pid = task[q].pid /\ task'[q].nr = task[q].nr
                              /\ task'[q].want = task[q].want
                              /\ task'[q].p_pptr = IF q \in Kids(task, p) THEN 1 ELSE task[q].p_pptr
  BY DEF Left
<1>3. Grown(task') = Grown(task)
  BY <1>1, <1>2 DEF Grown
<1>4. Adopted(task, task', p, e)
  <2>1. \A q \in Grown(task) :
          /\ task'[q].p_pptr = IF q \in Kids(task, p) THEN 1 ELSE task[q].p_pptr
          /\ task'[q].p_osptr = IF Kids(task, p) # {} /\ q = e THEN task[1].p_cptr ELSE task[q].p_osptr
          /\ task'[q].p_ysptr = IF Kids(task, p) # {} /\ q = task[1].p_cptr THEN e ELSE task[q].p_ysptr
          /\ task'[q].p_cptr = IF q = p THEN NULL ELSE IF q = 1 /\ Kids(task, p) # {} THEN task[p].p_cptr
                               ELSE task[q].p_cptr
    BY <1>1 DEF Left
  <2> QED
    BY <1>3, <2>1 DEF Adopted
<1>5. Linked(task') /\ Rooted(task')
  BY <1>1, <1>4, AdoptionLinks, AdoptionDescends DEF TreeInv
<1>6. P!TypeOK'
  BY <1>2 DEF P!TypeOK, TreeInv
<1>7. Roots(task')
  <2>1. task[0].p_pptr = NULL /\ task[0].pid = 0 /\ task[1].p_pptr = 0
        /\ task[1].at \notin {"files", "zombie"} /\ task[0].at = "user"
    BY DEF TreeInv, Roots
  <2>2. p # NULL /\ 0 \in Tab(task) /\ 1 \in Tab(task)
    BY <1>1, TaskAssumption DEF Tab
  <2>3. 0 \notin Kids(task, p) /\ 1 \notin Kids(task, p)
    BY <2>1, <2>2 DEF Kids
  <2> QED
    BY <1>1, <1>2, <1>3, <2>1, <2>2, <2>3 DEF Roots
<1>8. Forks(task', last_pid')
  <2>1. Forks(task, last_pid)
    BY DEF TreeInv
  <2>2. \A a \in Tab(task) : task'[a].at \in {"page", "mem"} => task[a].at = task'[a].at
    BY <1>2
  <2>3. \A a, b \in Tab(task') : a # b => task'[a].pid # task'[b].pid
    BY <1>2, <2>1 DEF Forks
  <2>4. ASSUME NEW a \in Tab(task'), task'[a].at = "page"
        PROVE  /\ task'[a].nr \in P!Slots /\ task'[task'[a].nr] = NULL
               /\ \A q \in Tab(task') : task'[q].pid # last_pid' /\ (task'[q].at = "page" => q = a)
    <3>1. task[a].at = "page" /\ task'[a].nr = task[a].nr /\ a \in Tab(task)
      BY <1>2, <2>2, <2>4
    <3>2. /\ task[a].nr \in P!Slots /\ task[task[a].nr] = NULL
          /\ \A q \in Tab(task) : task[q].pid # last_pid /\ (task[q].at = "page" => q = a)
      BY <2>1, <3>1 DEF Forks
    <3>3. task'[task[a].nr] = NULL
      BY <1>2, <3>2 DEF Tab
    <3>4. \A q \in Tab(task') : task'[q].pid # last_pid' /\ (task'[q].at = "page" => q = a)
      BY <1>2, <2>2, <3>2
    <3> QED
      BY <3>1, <3>2, <3>3, <3>4
  <2>5. ASSUME NEW a \in Tab(task'), task'[a].at = "mem"
        PROVE  /\ task'[a].nr \in Tab(task') \ Grown(task')
               /\ \A q \in Tab(task') : task'[q].at = "mem" /\ task'[q].nr = task'[a].nr => q = a
    <3>1. task[a].at = "mem" /\ task'[a].nr = task[a].nr /\ a \in Tab(task)
      BY <1>2, <2>2, <2>5
    <3>2. /\ task[a].nr \in Tab(task) \ Grown(task)
          /\ \A q \in Tab(task) : task[q].at = "mem" /\ task[q].nr = task[a].nr => q = a
      BY <2>1, <3>1 DEF Forks
    <3>3. task'[a].nr \in Tab(task') \ Grown(task')
      BY <1>2, <1>3, <3>1, <3>2
    <3>4. ASSUME NEW q \in Tab(task'), task'[q].at = "mem", task'[q].nr = task'[a].nr PROVE q = a
      BY <1>2, <2>2, <3>1, <3>2, <3>4
    <3> QED
      BY <3>3, <3>4
  <2> QED
    BY <2>3, <2>4, <2>5 DEF Forks
<1>9. Childless(task')
  <2> SUFFICES ASSUME NEW q \in Grown(task'), task'[q].at = "zombie" PROVE task'[q].p_cptr = NULL
    BY DEF Childless
  <2>1. q \in Grown(task) /\ q \in Tab(task)
    BY <1>1, <1>3
  <2>2. CASE q = p
    BY <2>1, <2>2 DEF Left
  <2>3. CASE q # p
    <3>1. task[q].at = "zombie" /\ q # 1
      BY <1>2, <2>1, <2>3 DEF TreeInv, Roots
    <3>2. task[q].p_cptr = NULL
      BY <2>1, <3>1 DEF TreeInv, Childless
    <3> QED
      BY <2>1, <2>3, <3>1, <3>2 DEF Left
  <2> QED
    BY <2>2, <2>3
<1>10. Told(task')
  <2> SUFFICES ASSUME NEW a \in Grown(task'), NEW z \in Grown(task'), task'[a].at = "wait",
                      task'[z].p_pptr = a, task'[z].at = "zombie", task'[a].want \in {-1, task'[z].pid}
               PROVE  task'[a].sigchld
    BY DEF Told
  <2>1. a \in Grown(task) /\ z \in Grown(task) /\ a \in Tab(task) /\ z \in Tab(task)
    BY <1>1, <1>3
  <2>2. task'[a].sigchld = \/ task[a].sigchld \/ a = task[p].p_pptr
                           \/ a = 1 /\ \E x \in Kids(task, p) : task[x].at = "zombie"
    BY <2>1 DEF Left
  <2>3. task[p].p_pptr # p
    BY <1>1 DEF TreeInv, Rooted, Descends, Roots
  <2>4. CASE z = p
    <3>1. p \notin Kids(task, p)
      BY <2>3 DEF Kids
    <3>2. a = task[p].p_pptr
      BY <1>2, <2>1, <2>4, <3>1
    <3> QED
      BY <2>2, <3>2
  <2>5. CASE z # p /\ z \in Kids(task, p)
    <3>1. a = 1 /\ task[z].at = "zombie"
      BY <1>2, <2>1, <2>5
    <3> QED
      BY <2>2, <2>5, <3>1
  <2>6. CASE z # p /\ z \notin Kids(task, p)
    <3>1. task[z].p_pptr = a /\ task[z].at = "zombie" /\ task[z].pid = task'[z].pid
      BY <1>2, <2>1, <2>6
    <3>2. task[a].at = "wait" /\ task[a].want = task'[a].want
      BY <1>2, <2>1
    <3>3. task[a].sigchld
      BY <2>1, <3>1, <3>2 DEF TreeInv, Told
    <3> QED
      BY <2>2, <3>3
  <2> QED
    BY <2>4, <2>5, <2>6
<1> QED
  BY <1>5, <1>6, <1>7, <1>8, <1>9, <1>10 DEF TreeInv

\* do_exit() has closed the files.
LEMMA ZombieStep == ASSUME TreeInv, NEW p \in P!Slots, P!Zombie(p) PROVE TreeInv'
<1>1. p \in Grown(task) /\ p # 0 /\ task[p].at = "files"
  BY StepFacts DEF P!Zombie
<1>2. task' = P!Orphaned(p, TRUE) /\ last_pid' = last_pid
  BY DEF P!Zombie
<1>3. PICK e : /\ Left(task, task', p, e)
               /\ Kids(task, p) # {} => e \in Kids(task, p) /\ task[e].p_osptr = NULL
  BY <1>1, <1>2, OrphanedFields
<1> QED
  BY <1>1, <1>2, <1>3, LeftStep

-----------------------------------------------------------------------------
\* c is not in the table m any more, and p returns from waitpid.
Freed(k, m, c, p) ==
  LET ys == k[c].p_ysptr
      os == k[c].p_osptr
  IN  /\ m \in [P!Slots -> P!Task \cup {NULL}] /\ Tab(m) = Tab(k) \ {c}
      /\ m[p].at = "user"
      /\ \A q \in Tab(k) \ {c} :
           /\ m[q].pid = k[q].pid /\ m[q].p_pptr = k[q].p_pptr
           /\ m[q].p_ysptr = IF q = os THEN ys ELSE k[q].p_ysptr
           /\ m[q].p_osptr = IF q = ys THEN os ELSE k[q].p_osptr
           /\ m[q].p_cptr = IF q = p /\ ys = NULL THEN os ELSE k[q].p_cptr
           /\ q # p => /\ m[q].at = k[q].at /\ m[q].nr = k[q].nr /\ m[q].want = k[q].want
                       /\ m[q].sigchld = k[q].sigchld

\* The siblings of a child are others than it and its parent.
LEMMA Siblinghood ==
  ASSUME TreeInv, NEW p \in Grown(task), NEW c \in Kids(task, p)
  PROVE  LET ys == task[c].p_ysptr
             os == task[c].p_osptr
         IN  /\ ys \in (Grown(task) \ {c, p}) \cup {NULL} /\ os \in (Grown(task) \ {c, p}) \cup {NULL}
             /\ ys # NULL => ys # os
             /\ c # p /\ c \in Grown(task)
<1> DEFINE ys == task[c].p_ysptr
           os == task[c].p_osptr
<1>1. PICK r : Siblings(task, r)
  BY DEF TreeInv, Linked
<1>2. c \in Grown(task) /\ task[c].p_pptr = p /\ \A q \in Grown(task) : r[q] \in Nat
  BY <1>1 DEF Kids, Siblings, Grown, Tab
<1>3. task[p].p_pptr # p
  <2>1. 0 \in P!Slots
    BY TaskAssumption DEF P!Slots
  <2>2. 0 # NULL /\ task[0].p_pptr = NULL /\ task[1].p_pptr = 0
    BY <2>1, TaskAssumption DEF TreeInv, Roots
  <2> QED
    BY <2>2 DEF TreeInv, Rooted, Descends
<1>4. ys # NULL => ys \in Kids(task, p) /\ r[c] < r[ys]
  BY <1>1, <1>2 DEF Siblings, Younger
<1>5. os # NULL => os \in Kids(task, p) /\ r[os] < r[c]
  BY <1>1, <1>2 DEF Siblings, Older
<1>6. \A b \in Kids(task, p) : b \in Grown(task) /\ b # p
  BY <1>3 DEF Kids
<1> HIDE DEF ys, os
<1>7. ys # NULL => ys \in Grown(task) \ {c, p} /\ ys # os
  BY <1>2, <1>4, <1>5, <1>6
<1>8. os # NULL => os \in Grown(task) \ {c, p}
  BY <1>2, <1>5, <1>6
<1> QED
  BY <1>2, <1>6, <1>7, <1>8 DEF ys, os

\* A link of a task changes.
LEMMA LinkChanged ==
  ASSUME NEW t \in P!Task, NEW x \in P!Ptr
  PROVE  /\ HasLinks([t EXCEPT !.p_ysptr = x], t, t.at, t.sigchld, t.p_pptr, t.p_osptr, x, t.p_cptr)
         /\ HasLinks([t EXCEPT !.p_osptr = x], t, t.at, t.sigchld, t.p_pptr, x, t.p_ysptr, t.p_cptr)
         /\ HasLinks([t EXCEPT !.p_cptr = x], t, t.at, t.sigchld, t.p_pptr, t.p_osptr, t.p_ysptr, x)
<1>1. HasLinks([t EXCEPT !.p_ysptr = x], t, t.at, t.sigchld, t.p_pptr, t.p_osptr, x, t.p_cptr)
  BY DEF P!Task, HasLinks
<1>2. HasLinks([t EXCEPT !.p_osptr = x], t, t.at, t.sigchld, t.p_pptr, x, t.p_ysptr, t.p_cptr)
  BY DEF P!Task, HasLinks
<1>3. HasLinks([t EXCEPT !.p_cptr = x], t, t.at, t.sigchld, t.p_pptr, t.p_osptr, t.p_ysptr, x)
  BY DEF P!Task, HasLinks
<1> QED
  BY <1>1, <1>2, <1>3

\* release() unlinks the child.
LEMMA ReleasedFields ==
  ASSUME TreeInv, NEW p \in Grown(task), NEW c \in Kids(task, p), task' = P!Released(c, p)
  PROVE  Freed(task, task', c, p)
<1> DEFINE ys == task[c].p_ysptr
           os == task[c].p_osptr
           w == P!ToUser(task[p])
           cp == IF ys = NULL THEN os ELSE w.p_cptr
           u == [w EXCEPT !.p_cptr = cp]
<1>1. /\ ys \in (Grown(task) \ {c, p}) \cup {NULL} /\ os \in (Grown(task) \ {c, p}) \cup {NULL}
      /\ ys # NULL => ys # os
      /\ c # p /\ c \in Grown(task)
  BY Siblinghood
<1>2. /\ p \in Tab(task) /\ c \in Tab(task) /\ p # NULL /\ c # NULL /\ NULL \notin Tab(task) /\ Grown(task) \subseteq Tab(task)
      /\ \A q \in Tab(task) : q \in P!Slots /\ q \in P!Ptr /\ task[q] \in P!Task /\ q # NULL
      /\ ys \in P!Ptr /\ os \in P!Ptr
  BY <1>1, TaskTypes DEF Grown, TreeInv, P!Ptr
<1>3. task' = [q \in P!Slots |-> IF q = c THEN NULL
                                ELSE IF q = os THEN [task[q] EXCEPT !.p_ysptr = ys]
                                ELSE IF q = ys THEN [task[q] EXCEPT !.p_osptr = os]
                                ELSE IF q = p THEN [P!ToUser(task[p]) EXCEPT !.p_cptr = IF ys = NULL THEN os ELSE @]
                                ELSE task[q]]
  BY Zenon DEF P!Released
<1>4. /\ w \in P!Task /\ w.at = "user" /\ w.pid = task[p].pid /\ w.p_pptr = task[p].p_pptr
      /\ w.p_cptr = task[p].p_cptr /\ w.p_ysptr = task[p].p_ysptr /\ w.p_osptr = task[p].p_osptr
  BY <1>2, ToUserFacts
<1> HIDE DEF ys, os
<1>5. task'[c] = NULL /\ \A q \in P!Slots \ Tab(task) : task'[q] = NULL
  <2>1. c \in P!Slots
    BY <1>2
  <2>2. ASSUME NEW q \in P!Slots \ Tab(task) PROVE task'[q] = NULL
    <3>1. q # os /\ q # ys /\ q # p /\ task[q] = NULL
      BY <1>1, <1>2, TaskAssumption DEF Tab
    <3> QED
      BY <1>3, <2>2, <3>1
  <2> QED
    BY <1>3, <2>1, <2>2
<1>6. task'[p] = u
  <2>1. p \in P!Slots /\ p # c /\ p # os /\ p # ys
    BY <1>1, <1>2
  <2>2. task'[p] = [P!ToUser(task[p]) EXCEPT !.p_cptr = IF ys = NULL THEN os ELSE @]
    BY <1>3, <2>1
  <2> QED
    BY <2>2
<1> HIDE DEF w
<1>7. cp \in P!Ptr
  BY <1>2, <1>4 DEF P!Task
<1> HIDE DEF cp
<1>8. /\ u \in P!Task /\ u.at = "user" /\ u.pid = task[p].pid /\ u.p_pptr = task[p].p_pptr
      /\ u.p_cptr = cp /\ u.p_ysptr = task[p].p_ysptr /\ u.p_osptr = task[p].p_osptr
  BY <1>4, <1>7, LinkChanged, ZenonT(60) DEF HasLinks
<1> HIDE DEF u
<1>9. ASSUME NEW q \in Tab(task) \ {c, p}
      PROVE  HasLinks(task'[q], task[q], task[q].at, task[q].sigchld, task[q].p_pptr,
                      IF q = ys THEN os ELSE task[q].p_osptr, IF q = os THEN ys ELSE task[q].p_ysptr, task[q].p_cptr)
  <2>1. q \in P!Slots /\ q # c /\ q # p /\ q # NULL /\ task[q] \in P!Task
    BY <1>2
  <2>2. CASE q = os
    <3>1. q # ys /\ task'[q] = [task[q] EXCEPT !.p_ysptr = ys]
      BY <1>1, <1>3, <2>1, <2>2
    <3> QED
      BY <1>2, <2>1, <2>2, <3>1, LinkChanged, ZenonT(60)
  <2>3. CASE q # os /\ q = ys
    <3>1. task'[q] = [task[q] EXCEPT !.p_osptr = os]
      BY <1>3, <2>1, <2>3
    <3> QED
      BY <1>2, <2>1, <2>3, <3>1, LinkChanged, ZenonT(60)
  <2>4. CASE q # os /\ q # ys
    <3>1. task'[q] = task[q]
      BY <1>3, <2>1, <2>4
    <3> QED
      BY <2>1, <2>4, <3>1 DEF HasLinks
  <2> QED
    BY <2>2, <2>3, <2>4
<1>10. \A q \in Tab(task) \ {c} : task'[q] \in P!Task
  BY <1>6, <1>8, <1>9 DEF HasLinks
<1>11. task' \in [P!Slots -> P!Task \cup {NULL}] /\ Tab(task') = Tab(task) \ {c}
  <2>1. DOMAIN task' = P!Slots /\ task' = [q \in P!Slots |-> task'[q]]
    BY <1>3
  <2>2. \A q \in P!Slots : task'[q] \in P!Task \cup {NULL}
    <3> TAKE q \in P!Slots
    <3>1. CASE q \in Tab(task) \ {c}
      BY <1>10, <3>1
    <3>2. CASE q \notin Tab(task) \ {c}
      BY <1>5, <3>2
    <3> QED
      BY <3>1, <3>2
  <2>3. \A q \in Tab(task) \ {c} : task'[q] # NULL
    BY <1>10, TaskAssumption
  <2>4. Tab(task') = Tab(task) \ {c}
    BY <1>2, <1>5, <2>3 DEF Tab
  <2> QED
    BY <2>1, <2>2, <2>4
<1>12. ASSUME NEW q \in Tab(task) \ {c}
       PROVE  /\ task'[q].pid = task[q].pid /\ task'[q].p_pptr = task[q].p_pptr
              /\ task'[q].p_ysptr = IF q = os THEN ys ELSE task[q].p_ysptr
              /\ task'[q].p_osptr = IF q = ys THEN os ELSE task[q].p_osptr
              /\ task'[q].p_cptr = IF q = p /\ ys = NULL THEN os ELSE task[q].p_cptr
              /\ q # p => /\ task'[q].at = task[q].at /\ task'[q].nr = task[q].nr /\ task'[q].want = task[q].want
                          /\ task'[q].sigchld = task[q].sigchld
  <2>1. CASE q = p
    <3>1. p # ys /\ p # os
      BY <1>1, <1>2
    <3> QED
      BY <1>4, <1>6, <1>8, <2>1, <3>1 DEF cp
  <2>2. CASE q # p
    BY <1>9, <2>2 DEF HasLinks
  <2> QED
    BY <2>1, <2>2
<1> QED
  BY <1>6, <1>8, <1>11, <1>12 DEF Freed, ys, os

\* The zombie c is released.
LEMMA FreedStep ==
  ASSUME TreeInv, NEW p \in Grown(task), p # 0, NEW c \in Kids(task, p), task[c].at = "zombie",
         Freed(task, task', c, p), last_pid' = last_pid
  PROVE  TreeInv'
<1>1. /\ c \in Grown(task) /\ Grown(task) \subseteq Tab(task) /\ c # p /\ c \notin {0, 1} /\ {0, 1} \subseteq Grown(task)
      /\ task[c].p_cptr = NULL
  BY Siblinghood DEF TreeInv, Roots, Childless, Grown
<1>2. /\ task' \in [P!Slots -> P!Task \cup {NULL}] /\ Tab(task') = Tab(task) \ {c} /\ task'[p].at = "user"
      /\ \A q \in Tab(task) \ {c} :
           /\ task'[q].pid = task[q].pid /\ task'[q].p_pptr = task[q].p_pptr
           /\ q # p => /\ task'[q].at = task[q].at /\ task'[q].nr = task[q].nr /\ task'[q].want = task[q].want
                       /\ task'[q].sigchld = task[q].sigchld
  BY DEF Freed
<1>3. Grown(task') = Grown(task) \ {c}
  <2>1. \A q \in Tab(task') : q \in Grown(task') <=> q \in Grown(task)
    BY <1>1, <1>2 DEF Grown
  <2> QED
    BY <1>1, <1>2, <2>1 DEF Grown
<1>4. Gone(task, task', c, p)
  BY <1>1, <1>3 DEF Freed, Gone
<1>5. Linked(task') /\ Rooted(task')
  BY <1>1, <1>4, DeathLinks, DeathDescends DEF TreeInv
<1>6. P!TypeOK'
  BY <1>2 DEF P!TypeOK, TreeInv
<1>7. Roots(task')
  <2>1. task[0].p_pptr = NULL /\ task[0].pid = 0 /\ task[1].p_pptr = 0
        /\ task[1].at \notin {"files", "zombie"} /\ task[0].at = "user"
    BY DEF TreeInv, Roots
  <2>2. 0 \in Tab(task) \ {c} /\ 1 \in Tab(task) \ {c}
    BY <1>1
  <2>3. task'[1].at \notin {"files", "zombie"}
    BY <1>2, <2>1, <2>2
  <2> QED
    BY <1>1, <1>2, <1>3, <2>1, <2>2, <2>3 DEF Roots
<1>8. \A q \in Tab(task') : task'[q].at # "user" =>
        /\ q # p /\ q \in Tab(task) \ {c} /\ task'[q].at = task[q].at /\ task'[q].nr = task[q].nr
        /\ task'[q].want = task[q].want /\ task'[q].sigchld = task[q].sigchld
  BY <1>2
<1>9. Forks(task', last_pid')
  <2>1. Forks(task, last_pid)
    BY DEF TreeInv
  <2>2. \A q \in Tab(task') : task'[q].pid = task[q].pid /\ q \in Tab(task)
    BY <1>2
  <2>3. \A a, b \in Tab(task') : a # b => task'[a].pid # task'[b].pid
    BY <2>1, <2>2 DEF Forks
  <2>4. ASSUME NEW a \in Tab(task'), task'[a].at = "page"
        PROVE  /\ task'[a].nr \in P!Slots /\ task'[task'[a].nr] = NULL
               /\ \A q \in Tab(task') : task'[q].pid # last_pid' /\ (task'[q].at = "page" => q = a)
    <3>1. task[a].at = "page" /\ task'[a].nr = task[a].nr /\ a \in Tab(task)
      BY <1>8, <2>4
    <3>2. /\ task[a].nr \in P!Slots /\ task[task[a].nr] = NULL
          /\ \A q \in Tab(task) : task[q].pid # last_pid /\ (task[q].at = "page" => q = a)
      BY <2>1, <3>1 DEF Forks
    <3>3. task'[task[a].nr] = NULL
      BY <1>2, <3>2 DEF Tab
    <3>4. \A q \in Tab(task') : task'[q].pid # last_pid' /\ (task'[q].at = "page" => q = a)
      BY <1>8, <2>2, <3>2
    <3> QED
      BY <3>1, <3>2, <3>3, <3>4
  <2>5. ASSUME NEW a \in Tab(task'), task'[a].at = "mem"
        PROVE  /\ task'[a].nr \in Tab(task') \ Grown(task')
               /\ \A q \in Tab(task') : task'[q].at = "mem" /\ task'[q].nr = task'[a].nr => q = a
    <3>1. task[a].at = "mem" /\ task'[a].nr = task[a].nr /\ a \in Tab(task)
      BY <1>8, <2>5
    <3>2. /\ task[a].nr \in Tab(task) \ Grown(task)
          /\ \A q \in Tab(task) : task[q].at = "mem" /\ task[q].nr = task[a].nr => q = a
      BY <2>1, <3>1 DEF Forks
    <3>3. task'[a].nr \in Tab(task') \ Grown(task')
      BY <1>1, <1>2, <1>3, <3>1, <3>2
    <3>4. ASSUME NEW q \in Tab(task'), task'[q].at = "mem", task'[q].nr = task'[a].nr PROVE q = a
      BY <1>8, <3>1, <3>2, <3>4
    <3> QED
      BY <3>3, <3>4
  <2> QED
    BY <2>3, <2>4, <2>5 DEF Forks
<1>10. Childless(task')
  <2> SUFFICES ASSUME NEW q \in Grown(task'), task'[q].at = "zombie" PROVE task'[q].p_cptr = NULL
    BY DEF Childless
  <2>1. q \in Grown(task) /\ q \in Tab(task) \ {c} /\ q # p /\ task[q].at = "zombie"
    BY <1>1, <1>2, <1>3
  <2>2. task[q].p_cptr = NULL
    BY <2>1 DEF TreeInv, Childless
  <2> QED
    BY <2>1, <2>2 DEF Freed
<1>11. Told(task')
  <2> SUFFICES ASSUME NEW a \in Grown(task'), NEW z \in Grown(task'), task'[a].at = "wait",
                      task'[z].p_pptr = a, task'[z].at = "zombie", task'[a].want \in {-1, task'[z].pid}
               PROVE  task'[a].sigchld
    BY DEF Told
  <2>1. a \in Grown(task) /\ z \in Grown(task) /\ a \in Tab(task) \ {c} /\ z \in Tab(task) \ {c} /\ a # p /\ z # p
    BY <1>1, <1>2, <1>3
  <2>2. Told(task)
    BY DEF TreeInv
  <2> QED
    BY <1>2, <2>1, <2>2 DEF Told
<1> QED
  BY <1>5, <1>6, <1>7, <1>9, <1>10, <1>11 DEF TreeInv

\* The loop of sys_waitpid() finds the youngest zombie if there is one.
LEMMA ZombieIsFound ==
  ASSUME TreeInv, NEW p \in Grown(task), NEW Z \in SUBSET Kids(task, p), Z # {}
  PROVE  \E z \in Z : \A y \in Z : z \in P!Along([q \in P!InTable |-> task[q].p_ysptr], y)
<1>1. PICK r : Siblings(task, r)
  BY DEF TreeInv, Linked
<1>2. Z \in SUBSET P!Slots /\ r \in [P!Slots -> Nat]
  BY <1>1 DEF Kids, Grown, Tab, Siblings
<1>3. PICK z \in Z : \A y \in Z : r[y] <= r[z]
  BY <1>2, HighestRank
<1>4. ASSUME NEW y \in Z PROVE z \in P!Along([q \in P!InTable |-> task[q].p_ysptr], y)
  <2>1. y \in Grown(task) /\ task[y].p_pptr = p
    BY DEF Kids
  <2>2. P!Along([q \in P!InTable |-> task[q].p_ysptr], y) = {b \in Kids(task, task[y].p_pptr) : r[y] <= r[b]}
    BY <1>1, <2>1, YoungersAre DEF TreeInv
  <2> QED
    BY <1>3, <2>1, <2>2
<1> QED
  BY <1>4

\* sys_waitpid() looks at the children of p.
LEMMA ScanStep ==
  ASSUME TreeInv, NEW p \in Grown(task), p # 0, NEW want \in -1 .. MaxPid, P!Scan(p, want),
         task[p].at \in {"user", "wait"}
  PROVE  TreeInv'
<1>1. p \in Tab(task) /\ task[p] \in P!Task /\ last_pid' = last_pid /\ last_pid \in 0 .. MaxPid
  BY TaskTypes DEF TreeInv, Grown, P!Scan, P!TypeOK
<1>2. P!Matching(p, want) = {x \in Kids(task, p) : want \in {-1, task[x].pid}}
  BY ChildrenAre DEF TreeInv, P!Matching
<1> DEFINE zombies == {x \in P!Matching(p, want) : task[x].at = "zombie"}
           Behind(x, d) == x \in P!Along([q \in P!InTable |-> task[q].p_ysptr], d)
           c == CHOOSE z \in zombies : \A y \in zombies : Behind(z, y)
           u == [task[p] EXCEPT !.at = "wait", !.want = want]
<1>3. CASE zombies # {}
  <2>1. zombies \in SUBSET Kids(task, p)
    BY <1>2
  <2>2. \E z \in zombies : \A y \in zombies : Behind(z, y)
    <3> HIDE DEF zombies
    <3> QED
      BY <1>3, <2>1, ZombieIsFound
  <2>3. c \in zombies
    <3> HIDE DEF zombies, Behind
    <3> QED
      BY <2>2
  <2>4. task' = P!Released(c, p)
    <3> HIDE DEF P!Released
    <3> QED
      BY <1>3 DEF P!Scan
  <2>5. task[c].at = "zombie" /\ c \in Kids(task, p)
    BY <2>1, <2>3
  <2> HIDE DEF c
  <2>6. Freed(task, task', c, p)
    BY <2>4, <2>5, ReleasedFields
  <2> QED
    BY <1>1, <2>5, <2>6, FreedStep
<1>4. CASE zombies = {} /\ P!Matching(p, want) = {}
  <2>1. task' = [task EXCEPT ![p] = P!ToUser(@)]
    BY <1>4 DEF P!Scan
  <2> QED
    BY <1>1, <2>1, ReturnStep
<1>5. CASE zombies = {} /\ P!Matching(p, want) # {}
  <2>1. task' = [task EXCEPT ![p] = u]
    BY <1>5 DEF P!Scan
  <2>2. \A x \in Kids(task, p) : task[x].at = "zombie" => want \notin {-1, task[x].pid}
    BY <1>2, <1>5
  <2>3. /\ u \in P!Task /\ u.at = "wait" /\ u.want = want /\ u.pid = task[p].pid /\ u.p_pptr = task[p].p_pptr
        /\ u.p_cptr = task[p].p_cptr /\ u.p_ysptr = task[p].p_ysptr /\ u.p_osptr = task[p].p_osptr
    BY <1>1 DEF P!Task
  <2> HIDE DEF u
  <2> QED
    BY <1>1, <2>1, <2>2, <2>3, OwnStep
<1> QED
  BY <1>3, <1>4, <1>5

\* sys_waitpid() is called, or goes on.
LEMMA WaitSteps == ASSUME TreeInv, NEW p \in P!Slots, P!waitpid(p) \/ P!Wake(p) PROVE TreeInv'
<1>1. CASE P!waitpid(p)
  <2>1. p \in Grown(task) /\ p # 0 /\ task[p].at = "user"
    BY <1>1, StepFacts DEF P!waitpid
  <2>2. PICK want \in {-1} \cup {task[x].pid : x \in P!Children(p)} : P!Scan(p, want)
    BY <1>1 DEF P!waitpid
  <2>3. \A x \in P!Children(p) : task[x].pid \in 0 .. MaxPid
    BY <2>1, ChildrenAre, TaskTypes DEF TreeInv, Kids, Grown
  <2>4. want \in -1 .. MaxPid
    BY <2>2, <2>3, TaskAssumption
  <2> QED
    BY <2>1, <2>2, <2>4, ScanStep
<1>2. CASE P!Wake(p)
  <2>1. p \in Grown(task) /\ p # 0 /\ task[p].at = "wait" /\ p \in Tab(task)
    BY <1>2, StepFacts DEF P!Wake
  <2>2. task[p].want \in -1 .. MaxPid
    BY <2>1, TaskTypes DEF TreeInv
  <2> QED
    BY <1>2, <2>1, <2>2, ScanStep DEF P!Wake
<1> QED
  BY <1>1, <1>2

\* Every step keeps the tree.
LEMMA TreeStep == ASSUME TreeInv, ~PageSleeps, [P!Next]_pvars PROVE TreeInv'
<1>1. CASE UNCHANGED pvars
  BY <1>1 DEF TreeInv, pvars, P!vars, P!TypeOK
<1>2. CASE P!Next
  <2>1. PICK p \in P!Slots : P!Step(p)
    BY <1>2 DEF P!Next
  <2> QED
    BY <2>1, ForkStep, GetPageStep, CopyMemStep, ExitStep, ZombieStep, WaitSteps, SignalSteps DEF P!Step
<1> QED
  BY <1>1, <1>2

-----------------------------------------------------------------------------
\* Task 0 and init, its only child.
LEMMA TreeStart == P!Init => TreeInv
<1> SUFFICES ASSUME P!Init PROVE TreeInv
  OBVIOUS
<1> DEFINE n == P!New(0, NULL)
           z == [n EXCEPT !.p_cptr = 1]
           i == P!New(1, 0)
<1>1. {0, 1} \subseteq P!Slots /\ NULL \in P!Ptr /\ 0 \in P!Ptr /\ 1 \in P!Ptr /\ 0 # NULL /\ 1 # NULL
      /\ 1 \in 0 .. MaxPid /\ 0 \in 0 .. MaxPid
  BY TaskAssumption DEF P!Slots, P!Ptr
<1>2. /\ i \in P!Task /\ i.pid = 1 /\ i.at = "user" /\ i.p_pptr = 0 /\ i.p_cptr = NULL
      /\ i.p_ysptr = NULL /\ i.p_osptr = NULL
  BY <1>1, TaskAssumption DEF P!New, P!Task
<1>3. /\ z \in P!Task /\ z.pid = 0 /\ z.at = "user" /\ z.p_pptr = NULL /\ z.p_cptr = 1
      /\ z.p_ysptr = NULL /\ z.p_osptr = NULL
  <2>1. /\ n \in P!Task /\ n.pid = 0 /\ n.at = "user" /\ n.p_pptr = NULL /\ n.p_cptr = NULL
        /\ n.p_ysptr = NULL /\ n.p_osptr = NULL
    BY <1>1, TaskAssumption DEF P!New, P!Task
  <2> HIDE DEF n
  <2> QED
    BY <1>1, <2>1 DEF P!Task
<1>4. task = [q \in P!Slots |-> IF q = 0 THEN z ELSE IF q = 1 THEN i ELSE NULL] /\ last_pid = 1
  BY DEF P!Init
<1> HIDE DEF z, i
<1>5. /\ task \in [P!Slots -> P!Task \cup {NULL}] /\ task[0] = z /\ task[1] = i
      /\ \A q \in P!Slots \ {0, 1} : task[q] = NULL
  BY <1>1, <1>2, <1>3, <1>4
<1>6. Tab(task) = {0, 1} /\ Grown(task) = {0, 1}
  BY <1>1, <1>2, <1>3, <1>5, TaskAssumption DEF Tab, Grown
<1>7. Kids(task, 0) = {1} /\ Kids(task, 1) = {} /\ Kids(task, NULL) = {0}
  BY <1>1, <1>2, <1>3, <1>5, <1>6 DEF Kids
<1>8. P!TypeOK
  BY <1>1, <1>4, <1>5 DEF P!TypeOK
<1>9. Roots(task) /\ Childless(task) /\ Told(task)
  BY <1>2, <1>3, <1>5, <1>6 DEF Roots, Childless, Told
<1>10. Forks(task, last_pid)
  BY <1>2, <1>3, <1>5, <1>6 DEF Forks
<1> DEFINE r == [q \in P!Slots |-> 0]
<1>11. r \in [P!Slots -> Nat] /\ r[0] = 0 /\ r[1] = 0
  BY <1>1
<1> HIDE DEF r
<1>12. Differ(task, r)
  BY <1>1, <1>2, <1>3, <1>5, <1>6 DEF Differ
<1>13. Older(task, r) /\ Younger(task, r) /\ Youngest(task, r)
  BY <1>1, <1>2, <1>3, <1>5, <1>6, <1>7, <1>11 DEF Older, Younger, Youngest
<1>14. Linked(task)
  BY <1>11, <1>12, <1>13 DEF Linked, Siblings
<1>15. Rooted(task)
  BY <1>6, <1>11 DEF Rooted, Descends
<1> QED
  BY <1>8, <1>9, <1>10, <1>14, <1>15 DEF TreeInv

\* The links of the siblings lead back, and no task is its own relative.
LEMMA LinksLeadBack ==
  ASSUME TreeInv, NEW p \in Grown(task)
  PROVE  LET t == task[p]
         IN  /\ {t.p_pptr, t.p_cptr, t.p_ysptr, t.p_osptr} \subseteq (Grown(task) \ {p}) \cup {NULL}
             /\ t.p_osptr # NULL => task[t.p_osptr].p_pptr = t.p_pptr /\ task[t.p_osptr].p_ysptr = p
             /\ t.p_ysptr # NULL => task[t.p_ysptr].p_pptr = t.p_pptr /\ task[t.p_ysptr].p_osptr = p
             /\ t.p_cptr # NULL => task[t.p_cptr].p_pptr = p /\ task[t.p_cptr].p_ysptr = NULL
<1> DEFINE pp == task[p].p_pptr
           os == task[p].p_osptr
           ys == task[p].p_ysptr
           c == task[p].p_cptr
<1>1. PICK r : Siblings(task, r)
  BY DEF TreeInv, Linked
<1>2. \A q \in Grown(task) : r[q] \in Nat /\ q # NULL /\ q \in Kids(task, task[q].p_pptr)
  BY <1>1, TaskAssumption DEF Siblings, Grown, Tab, Kids
<1>3. pp \in (Grown(task) \ {p}) \cup {NULL}
  <2>1. 0 \in P!Slots /\ task[0].p_pptr = NULL /\ task[1].p_pptr = 0 /\ 0 \in Grown(task)
    BY TaskAssumption DEF TreeInv, Roots, P!Slots
  <2> QED
    BY <2>1 DEF TreeInv, Rooted, Descends
<1>4. \A x : \A q \in Kids(task, x) : q \in Grown(task) /\ task[q].p_pptr = x
  BY DEF Kids
<1>5. IF os = NULL THEN TRUE
      ELSE /\ os \in Kids(task, pp) /\ r[os] < r[p]
           /\ \A b \in Kids(task, pp) : r[b] <= r[os] \/ r[p] <= r[b]
  BY <1>1 DEF Siblings, Older
<1>6. IF ys = NULL THEN TRUE
      ELSE /\ ys \in Kids(task, pp) /\ r[p] < r[ys]
           /\ \A b \in Kids(task, pp) : r[b] <= r[p] \/ r[ys] <= r[b]
  BY <1>1 DEF Siblings, Younger
<1>7. c # NULL => c \in Kids(task, p) /\ \A b \in Kids(task, p) : r[b] <= r[c]
  BY <1>1 DEF Siblings, Youngest
<1>8. \A a, b \in Kids(task, pp) : r[a] <= r[b] /\ r[b] <= r[a] => a = b
  BY <1>1, <1>2, <1>4 DEF Siblings, Differ
<1>9. p \in Kids(task, pp)
  BY <1>2
<1> HIDE DEF pp, os, ys, c
<1>10. ASSUME os # NULL
       PROVE  os \in Grown(task) \ {p} /\ task[os].p_pptr = pp /\ task[os].p_ysptr = p
  <2>1. os \in Grown(task) /\ task[os].p_pptr = pp /\ os # p /\ r[os] < r[p]
    BY <1>2, <1>4, <1>5, <1>10
  <2>2. IF task[os].p_ysptr = NULL THEN \A b \in Kids(task, pp) : r[b] <= r[os]
        ELSE /\ task[os].p_ysptr \in Kids(task, pp) /\ r[os] < r[task[os].p_ysptr]
             /\ \A b \in Kids(task, pp) : r[b] <= r[os] \/ r[task[os].p_ysptr] <= r[b]
    BY <1>1, <2>1 DEF Siblings, Younger
  <2> DEFINE y == task[os].p_ysptr
  <2>3. y \in Kids(task, pp) /\ r[os] < r[y] /\ r[y] <= r[p] /\ r[p] <= r[y]
    BY <1>2, <1>4, <1>5, <1>9, <1>10, <2>1, <2>2
  <2> QED
    BY <1>8, <1>9, <2>1, <2>3
<1>11. ASSUME ys # NULL
       PROVE  ys \in Grown(task) \ {p} /\ task[ys].p_pptr = pp /\ task[ys].p_osptr = p
  <2>1. ys \in Grown(task) /\ task[ys].p_pptr = pp /\ ys # p /\ r[p] < r[ys]
    BY <1>2, <1>4, <1>6, <1>11
  <2>2. IF task[ys].p_osptr = NULL THEN \A b \in Kids(task, pp) : r[ys] <= r[b]
        ELSE /\ task[ys].p_osptr \in Kids(task, pp) /\ r[task[ys].p_osptr] < r[ys]
             /\ \A b \in Kids(task, pp) : r[b] <= r[task[ys].p_osptr] \/ r[ys] <= r[b]
    BY <1>1, <2>1 DEF Siblings, Older
  <2> DEFINE o == task[ys].p_osptr
  <2>3. o \in Kids(task, pp) /\ r[o] < r[ys] /\ r[o] <= r[p] /\ r[p] <= r[o]
    BY <1>2, <1>4, <1>6, <1>9, <1>11, <2>1, <2>2
  <2> QED
    BY <1>8, <1>9, <2>1, <2>3
<1>12. ASSUME c # NULL
       PROVE  c \in Grown(task) \ {p} /\ task[c].p_pptr = p /\ task[c].p_ysptr = NULL
  <2>1. c \in Grown(task) /\ task[c].p_pptr = p
    BY <1>4, <1>7, <1>12
  <2>2. c # p
    BY <1>2, <1>3, <2>1 DEF pp
  <2>3. task[c].p_ysptr # NULL => task[c].p_ysptr \in Kids(task, p) /\ r[c] < r[task[c].p_ysptr]
    BY <1>1, <2>1 DEF Siblings, Younger
  <2>4. task[c].p_ysptr \notin Kids(task, p) \/ ~ (r[c] < r[task[c].p_ysptr])
    BY <1>2, <1>4, <1>7, <1>12, <2>1
  <2> QED
    BY <2>1, <2>2, <2>3, <2>4
<1>13. {pp, c, ys, os} \subseteq (Grown(task) \ {p}) \cup {NULL}
  BY <1>3, <1>10, <1>11, <1>12
<1> QED
  BY <1>10, <1>11, <1>12, <1>13 DEF pp, os, ys, c

\* Who is not task 0 or init descends from a child of init.
LEMMA InitHasChild ==
  ASSUME TreeInv, Grown(task) \ {0, 1} # {}
  PROVE  task[1].p_cptr # NULL
<1>1. PICK d : Descends(task, d)
  BY DEF TreeInv, Rooted
<1> DEFINE Z == Grown(task) \ {0, 1}
<1>2. Z \in SUBSET P!Slots /\ d \in [P!Slots -> Nat]
  BY <1>1 DEF Descends, Grown, Tab
<1>3. PICK z \in Z : \A y \in Z : d[z] <= d[y]
  <2> HIDE DEF Z
  <2> QED
    BY <1>2, LowestRank DEF Z
<1>4. task[z].p_pptr \in Grown(task) \ {0, z} /\ (task[z].p_pptr = 1 \/ d[task[z].p_pptr] < d[z])
  BY <1>1 DEF Descends
<1>5. task[z].p_pptr = 1
  <2> SUFFICES ASSUME task[z].p_pptr # 1 PROVE FALSE
    OBVIOUS
  <2>1. task[z].p_pptr \in Z
    BY <1>4
  <2>2. d[task[z].p_pptr] \in Nat /\ d[z] \in Nat
    BY <1>2, <2>1
  <2> QED
    BY <1>3, <1>4, <2>1, <2>2
<1>6. z \in Kids(task, 1) /\ 1 \in Grown(task)
  BY <1>5 DEF Kids, TreeInv, Roots
<1> QED
  BY <1>6 DEF TreeInv, Linked, Siblings, Youngest

\* The invariant is more than what the runs check.
LEMMA TreeInvIsEnough == TreeInv => P!TreeIntact /\ P!ZombiesAreAnnounced
<1> SUFFICES ASSUME TreeInv PROVE P!TreeIntact /\ P!ZombiesAreAnnounced
  OBVIOUS
<1>1. P!InTable = Tab(task) /\ P!Whole = Grown(task) /\ P!TypeOK /\ Linked(task)
  BY TaskTypes DEF TreeInv
<1>2. \A p \in Grown(task) : P!Children(p) = Kids(task, p)
  BY <1>1, ChildrenAre
<1>3. P!TreeIntact
  <2>1. \A p, q \in Tab(task) : p # q => task[p].pid # task[q].pid
    BY DEF TreeInv, Forks
  <2>2. \A p \in Grown(task) : Kids(task, p) = {c \in Grown(task) : task[c].p_pptr = p}
    BY DEF Kids
  <2>3. \A p \in Grown(task) : p \notin {0, 1} => task[1].p_cptr # NULL
    BY InitHasChild
  <2> QED
    BY <1>1, <1>2, <2>1, <2>2, <2>3, LinksLeadBack DEF P!TreeIntact
<1>4. P!ZombiesAreAnnounced
  <2> SUFFICES ASSUME NEW p \in Tab(task), task[p].at = "wait",
                      NEW c \in P!Matching(p, task[p].want), task[c].at = "zombie"
               PROVE  task[p].sigchld
    BY <1>1 DEF P!ZombiesAreAnnounced
  <2>1. p \in Grown(task)
    BY DEF Grown
  <2>2. c \in Kids(task, p) /\ task[p].want \in {-1, task[c].pid}
    BY <1>2, <2>1 DEF P!Matching
  <2> QED
    BY <2>1, <2>2 DEF TreeInv, Told, Kids
<1> QED
  BY <1>3, <1>4

\* fork(), do_exit(), release() and the adoption of orphans by init keep the
\* family tree whole, and no two tasks have the same pid (Process): for any
\* number of tasks, and any number of pids that is not less.  Two forks must
\* not overlap in get_free_page() (PageSleeps).
THEOREM FamilyStaysWhole == ASSUME ~PageSleeps PROVE TablesSpec => []TreeIntact
<1>1. TablesInit => TreeInv
  BY TreeStart DEF TablesInit
<1>2. TreeInv /\ [TablesNext]_<<vars, pvars, svars, tvars, mvars, lvars, yvars, table>> => TreeInv'
  BY EachTable, TreeStep
<1>3. TreeInv => TreeIntact
  BY TreeInvIsEnough DEF TreeIntact
<1> QED
  BY <1>1, <1>2, <1>3, PTL DEF TablesSpec

\* A parent that sleeps in waitpid for a child that is a zombie has been told,
\* be it the child's first parent or init (Process).
THEOREM ZombiesAreToldOf == ASSUME ~PageSleeps PROVE TablesSpec => []ZombiesAreAnnounced
<1>1. TablesInit => TreeInv
  BY TreeStart DEF TablesInit
<1>2. TreeInv /\ [TablesNext]_<<vars, pvars, svars, tvars, mvars, lvars, yvars, table>> => TreeInv'
  BY EachTable, TreeStep
<1>3. TreeInv => ZombiesAreAnnounced
  BY TreeInvIsEnough DEF ZombiesAreAnnounced
<1> QED
  BY <1>1, <1>2, <1>3, PTL DEF TablesSpec
=============================================================================
