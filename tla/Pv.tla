--------------------------------- MODULE Pv ---------------------------------
(***************************************************************************)
(* pv.c: a producer puts random lower-case letters into buffer_1, a        *)
(* calculator moves each of them, upper-cased, to buffer_2, and a consumer *)
(* prints what it finds in buffer_2.  Three threads, two arrays, four      *)
(* semaphores and no mutex.                                                *)
(*                                                                         *)
(* One action per access to a shared object: a semaphore operation, a load *)
(* of an array cell or a store into one.  The accesses to the arrays are   *)
(* unsynchronised; a char is loaded and stored by one instruction, and the *)
(* semaphore calls keep the compiler from moving an access across them, so *)
(* an interleaving of these accesses is what the build can produce.        *)
(* sleep(1) between two rounds is a scheduling delay and adds no state.    *)
(***************************************************************************)
EXTENDS Integers, FiniteSets

CONSTANTS
  BUFFER_SIZE,    \* cells of each array (5 in pv.c)
  SEM_VALUE_MAX,  \* the libc limit at which sem_post fails and changes nothing
  Letters,        \* what rand() % 26 may yield
  toupper,        \* the ctype conversion, Letters -> upper-case letters
  NUL             \* '\0', the mark of a free cell

Slots == 0 .. BUFFER_SIZE - 1
Uppers == {toupper[c] : c \in Letters}

ASSUME SizeAssumption == BUFFER_SIZE \in Nat \ {0}
ASSUME SemAssumption == SEM_VALUE_MAX \in Nat /\ BUFFER_SIZE <= SEM_VALUE_MAX
ASSUME LetterAssumption == DOMAIN toupper = Letters /\ NUL \notin Letters \cup Uppers

VARIABLES
  buffer_1, buffer_2,                \* the two arrays
  empty_1, full_1, empty_2, full_2,  \* the four semaphores
  pc,                                \* where each thread is in its loop body
  idx,                               \* each thread's loop variable i
  ch                                 \* the letter in each thread's register

sems == <<empty_1, full_1, empty_2, full_2>>
vars == <<buffer_1, buffer_2, sems, pc, idx, ch>>

P == "producer"
C == "calculator"
K == "consumer"
Threads == {P, C, K}

Labels == {"wait", "scan", "store", "clear", "post", "post2"}

TypeOK ==
  /\ buffer_1 \in [Slots -> Letters \cup {NUL}]
  /\ buffer_2 \in [Slots -> Uppers \cup {NUL}]
  /\ empty_1 \in 0 .. SEM_VALUE_MAX
  /\ full_1 \in 0 .. SEM_VALUE_MAX
  /\ empty_2 \in 0 .. SEM_VALUE_MAX
  /\ full_2 \in 0 .. SEM_VALUE_MAX
  /\ pc \in [Threads -> Labels]
  /\ idx \in [Threads -> 0 .. BUFFER_SIZE]
  /\ ch \in [Threads -> Letters \cup {NUL}]

\* main: sem_init gives the empty semaphores BUFFER_SIZE and the full ones 0;
\* the arrays are zero-initialised globals.
Init ==
  /\ buffer_1 = [i \in Slots |-> NUL]
  /\ buffer_2 = [i \in Slots |-> NUL]
  /\ empty_1 = BUFFER_SIZE
  /\ full_1 = 0
  /\ empty_2 = BUFFER_SIZE
  /\ full_2 = 0
  /\ pc = [t \in Threads |-> "wait"]
  /\ idx = [t \in Threads |-> 0]
  /\ ch = [t \in Threads |-> NUL]

\* sem_post at the limit returns an error, which pv.c does not look at.
Post(s) == IF s < SEM_VALUE_MAX THEN s + 1 ELSE s

Goto(t, l) == pc' = [pc EXCEPT ![t] = l]

\* The loop variable moves on; a loop that runs off the array falls through
\* to the statement after it.
NextSlot(t) ==
  /\ idx' = [idx EXCEPT ![t] = @ + 1]
  /\ Goto(t, IF idx[t] + 1 < BUFFER_SIZE THEN "scan" ELSE "post")

Enter(t) == Goto(t, "scan") /\ idx' = [idx EXCEPT ![t] = 0]
-----------------------------------------------------------------------------
\* Producer: pick a letter and P(empty_1).
ProducerWait ==
  /\ pc[P] = "wait"
  /\ empty_1 > 0
  /\ empty_1' = empty_1 - 1
  /\ \E c \in Letters : ch' = [ch EXCEPT ![P] = c]
  /\ Enter(P)
  /\ UNCHANGED <<buffer_1, buffer_2, full_1, empty_2, full_2>>

\* Producer: is buffer_1[i] free?
ProducerScan ==
  /\ pc[P] = "scan"
  /\ \/ /\ buffer_1[idx[P]] = NUL
        /\ Goto(P, "store")
        /\ UNCHANGED idx
     \/ /\ buffer_1[idx[P]] # NUL
        /\ NextSlot(P)
  /\ UNCHANGED <<buffer_1, buffer_2, sems, ch>>

ProducerStore ==
  /\ pc[P] = "store"
  /\ buffer_1' = [buffer_1 EXCEPT ![idx[P]] = ch[P]]
  /\ Goto(P, "post")
  /\ UNCHANGED <<buffer_2, sems, idx, ch>>

\* Producer: V(full_1).
ProducerPost ==
  /\ pc[P] = "post"
  /\ full_1' = Post(full_1)
  /\ Goto(P, "wait")
  /\ UNCHANGED <<buffer_1, buffer_2, empty_1, empty_2, full_2, idx, ch>>
-----------------------------------------------------------------------------
\* Mutant: P(full_1) is left out.
CalculatorDoesNotWait ==
  /\ pc[C] = "wait"
  /\ Enter(C)
  /\ UNCHANGED <<buffer_1, buffer_2, sems, ch>>

\* Calculator: P(full_1).  There is no P(empty_2) in the code.
CalculatorWait ==
  /\ pc[C] = "wait"
  /\ full_1 > 0
  /\ full_1' = full_1 - 1
  /\ Enter(C)
  /\ UNCHANGED <<buffer_1, buffer_2, empty_1, empty_2, full_2, ch>>

CalculatorScan ==
  /\ pc[C] = "scan"
  /\ \/ /\ buffer_1[idx[C]] # NUL
        /\ ch' = [ch EXCEPT ![C] = buffer_1[idx[C]]]
        /\ Goto(C, "store")
        /\ UNCHANGED idx
     \/ /\ buffer_1[idx[C]] = NUL
        /\ NextSlot(C)
        /\ UNCHANGED ch
  /\ UNCHANGED <<buffer_1, buffer_2, sems>>

\* The upper-cased letter goes to the cell of buffer_2 with the same index,
\* whatever that cell holds.
CalculatorStore ==
  /\ pc[C] = "store"
  /\ buffer_2' = [buffer_2 EXCEPT ![idx[C]] = toupper[ch[C]]]
  /\ Goto(C, "clear")
  /\ UNCHANGED <<buffer_1, sems, idx, ch>>

\* Mutant: the letter is copied and stays in buffer_1.
CalculatorLeavesLetter ==
  /\ pc[C] = "clear"
  /\ Goto(C, "post")
  /\ UNCHANGED <<buffer_1, buffer_2, sems, idx, ch>>

CalculatorClear ==
  /\ pc[C] = "clear"
  /\ buffer_1' = [buffer_1 EXCEPT ![idx[C]] = NUL]
  /\ Goto(C, "post")
  /\ UNCHANGED <<buffer_2, sems, idx, ch>>

\* Mutant: V(empty_1) is left out.
CalculatorKeepsToken ==
  /\ pc[C] = "post"
  /\ Goto(C, "post2")
  /\ UNCHANGED <<buffer_1, buffer_2, sems, idx, ch>>

\* Calculator: V(empty_1), then V(full_2).
CalculatorPostEmpty ==
  /\ pc[C] = "post"
  /\ empty_1' = Post(empty_1)
  /\ Goto(C, "post2")
  /\ UNCHANGED <<buffer_1, buffer_2, full_1, empty_2, full_2, idx, ch>>

\* Mutant: V(full_2) is left out.
CalculatorPostsNothing ==
  /\ pc[C] = "post2"
  /\ Goto(C, "wait")
  /\ UNCHANGED <<buffer_1, buffer_2, sems, idx, ch>>

CalculatorPostFull ==
  /\ pc[C] = "post2"
  /\ full_2' = Post(full_2)
  /\ Goto(C, "wait")
  /\ UNCHANGED <<buffer_1, buffer_2, empty_1, full_1, empty_2, idx, ch>>
-----------------------------------------------------------------------------
\* Consumer: P(full_2).
ConsumerWait ==
  /\ pc[K] = "wait"
  /\ full_2 > 0
  /\ full_2' = full_2 - 1
  /\ Enter(K)
  /\ UNCHANGED <<buffer_1, buffer_2, empty_1, full_1, empty_2, ch>>

\* Consumer: a full cell is printed, then cleared.
ConsumerScan ==
  /\ pc[K] = "scan"
  /\ \/ /\ buffer_2[idx[K]] # NUL
        /\ Goto(K, "clear")
        /\ UNCHANGED idx
     \/ /\ buffer_2[idx[K]] = NUL
        /\ NextSlot(K)
  /\ UNCHANGED <<buffer_1, buffer_2, sems, ch>>

ConsumerClear ==
  /\ pc[K] = "clear"
  /\ buffer_2' = [buffer_2 EXCEPT ![idx[K]] = NUL]
  /\ Goto(K, "post")
  /\ UNCHANGED <<buffer_1, sems, idx, ch>>

\* Consumer: V(empty_2), which no thread ever waits on.
ConsumerPost ==
  /\ pc[K] = "post"
  /\ empty_2' = Post(empty_2)
  /\ Goto(K, "wait")
  /\ UNCHANGED <<buffer_1, buffer_2, empty_1, full_1, full_2, idx, ch>>
-----------------------------------------------------------------------------
producerFunc == ProducerWait \/ ProducerScan \/ ProducerStore \/ ProducerPost
calculatorFunc ==
  \/ CalculatorWait \/ CalculatorScan \/ CalculatorStore
  \/ CalculatorClear \/ CalculatorPostEmpty \/ CalculatorPostFull
consumerFunc == ConsumerWait \/ ConsumerScan \/ ConsumerClear \/ ConsumerPost

Next == producerFunc \/ calculatorFunc \/ consumerFunc

Spec == Init /\ [][Next]_vars

\* Each of the three POSIX threads is scheduled again and again.
Fairness == WF_vars(producerFunc) /\ WF_vars(calculatorFunc) /\ WF_vars(consumerFunc)
FairSpec == Spec /\ Fairness
-----------------------------------------------------------------------------
Filled(b) == {i \in Slots : b[i] # NUL}
Free(b) == {i \in Slots : b[i] = NUL}

\* 1 when thread t is at one of the labels in ls, else 0.
At(t, ls) == IF pc[t] \in ls THEN 1 ELSE 0

\* Tokens of the first stage: every cell of buffer_1 is accounted for by a
\* unit of empty_1, a unit of full_1, or by the thread that took one and has
\* not posted the other yet.
TokensBalance ==
  empty_1 + full_1 + At(P, {"scan", "store", "post"})
    + At(C, {"scan", "store", "clear", "post"}) = BUFFER_SIZE

\* full_1 counts the letters in buffer_1, up to a letter stored and not yet
\* posted, and a letter claimed and not yet cleared.
FullCountsLetters ==
  Cardinality(Filled(buffer_1)) =
    full_1 + At(P, {"post"}) + At(C, {"scan", "store", "clear"})

\* A producer that passed P(empty_1) finds its free cell ahead of its index,
\* although the calculator frees cells behind its back.
ProducerFindsSlot ==
  /\ pc[P] = "scan" => \E j \in Free(buffer_1) : j >= idx[P]
  /\ pc[P] = "store" => buffer_1[idx[P]] = NUL

\* A calculator that passed P(full_1) finds a letter ahead of its index,
\* although the producer fills cells behind its back, and the letter it has
\* claimed stays where it is until the calculator clears it.
CalculatorFindsLetter ==
  /\ pc[C] = "scan" => \E j \in Filled(buffer_1) : j >= idx[C]
  /\ pc[C] \in {"store", "clear"} => buffer_1[idx[C]] = ch[C] /\ ch[C] # NUL

\* The unlocked scans of buffer_1 always find what the semaphores promised:
\* neither loop falls off the array, which would drop a letter, or take none,
\* and post the other semaphore all the same.
ScansFindTheirCell == ProducerFindsSlot /\ CalculatorFindsLetter

\* The pipeline never stalls: the producer starts a new letter, and the
\* consumer takes a letter out of buffer_2, again and again.
PipelineFlows == []<>(pc[P] = "store") /\ []<>(pc[K] = "clear")

\* The comment of pv.c at the declaration of the semaphores: full_i counts the
\* filled cells of buffer_i.  Stated of buffer_2, between two rounds of the
\* threads that use it: a consumer that passes P(full_2) then has a letter to
\* print.
Full2CountsLetters ==
  pc[C] = "wait" /\ pc[K] = "wait" => full_2 = Cardinality(Filled(buffer_2))
=============================================================================
