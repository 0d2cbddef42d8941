------------------------------ MODULE PvProofs ------------------------------
(***************************************************************************)
(* The first stage of pv.c is correct for every size of the arrays: the    *)
(* semaphores empty_1 and full_1 keep the producer and the calculator from *)
(* ever scanning buffer_1 in vain, although neither holds a lock.          *)
(***************************************************************************)
EXTENDS Pv, FiniteSetTheorems, TLAPS

\* What the scans rely on: an index that is used is inside the array, and
\* the producer has a letter to store.
ScanState ==
  /\ \A t \in Threads : pc[t] \in {"scan", "store", "clear"} => idx[t] \in Slots
  /\ pc[P] \in {"scan", "store"} => ch[P] # NUL
  /\ pc[P] \in {"wait", "scan", "store", "post"}
  /\ pc[K] \in {"wait", "scan", "clear", "post"}

IInv ==
  /\ TypeOK
  /\ ScanState
  /\ TokensBalance
  /\ FullCountsLetters
  /\ ProducerFindsSlot
  /\ CalculatorFindsLetter

-----------------------------------------------------------------------------
\* The filled cells of an array are finitely many, at most BUFFER_SIZE, and
\* an array that is not full has a free cell.
LEMMA FilledBound ==
  ASSUME NEW b \in [Slots -> Letters \cup {NUL}]
  PROVE  /\ IsFiniteSet(Filled(b))
         /\ Cardinality(Filled(b)) \in Nat
         /\ Cardinality(Filled(b)) < BUFFER_SIZE => \E j \in Free(b) : j >= 0
         /\ Cardinality(Filled(b)) > 0 => \E j \in Filled(b) : j >= 0
<1>1. IsFiniteSet(Slots) /\ Cardinality(Slots) = BUFFER_SIZE
  BY FS_Interval, SizeAssumption DEF Slots
<1>2. Filled(b) \in SUBSET Slots
  BY DEF Filled
<1>3. IsFiniteSet(Filled(b)) /\ Cardinality(Filled(b)) \in Nat
  BY <1>1, <1>2, FS_Subset, FS_CardinalityType
<1>4. Cardinality(Filled(b)) < BUFFER_SIZE => Filled(b) # Slots
  BY <1>1, SizeAssumption
<1>5. Filled(b) # Slots => \E j \in Free(b) : j >= 0
  BY SizeAssumption DEF Filled, Free, Slots
<1>6. Cardinality(Filled(b)) > 0 => Filled(b) # {}
  BY FS_EmptySet
<1>7. Filled(b) # {} => \E j \in Filled(b) : j >= 0
  BY SizeAssumption DEF Filled, Slots
<1> QED BY <1>3, <1>4, <1>5, <1>6, <1>7

\* Storing a letter in a free cell adds one to the number of filled cells.
LEMMA FilledStore ==
  ASSUME NEW b \in [Slots -> Letters \cup {NUL}], NEW i \in Slots, b[i] = NUL,
         NEW c, c # NUL
  PROVE  Cardinality(Filled([b EXCEPT ![i] = c])) = Cardinality(Filled(b)) + 1
<1>1. Filled([b EXCEPT ![i] = c]) = Filled(b) \cup {i}
  BY DEF Filled
<1>2. i \notin Filled(b)
  BY DEF Filled
<1> QED BY <1>1, <1>2, FilledBound, FS_AddElement

\* Clearing a filled cell takes one away.
LEMMA FilledClear ==
  ASSUME NEW b \in [Slots -> Letters \cup {NUL}], NEW i \in Slots, b[i] # NUL
  PROVE  Cardinality(Filled([b EXCEPT ![i] = NUL])) = Cardinality(Filled(b)) - 1
<1>1. Filled([b EXCEPT ![i] = NUL]) = Filled(b) \ {i}
  BY DEF Filled
<1>2. i \in Filled(b)
  BY DEF Filled
<1> QED BY <1>1, <1>2, FilledBound, FS_RemoveElement

-----------------------------------------------------------------------------
LEMMA InitIInv == Init => IInv
<1> SUFFICES ASSUME Init PROVE IInv
  OBVIOUS
<1> USE SizeAssumption, SemAssumption, LetterAssumption
<1>1. TypeOK
  BY DEF Init, TypeOK, Slots, Threads, P, C, K, Labels
<1>2. ScanState
  BY DEF Init, ScanState, Threads, P, C, K
<1>3. Cardinality(Filled(buffer_1)) = 0
  <2>1. Filled(buffer_1) = {}
    BY DEF Init, Filled
  <2> QED BY <2>1, FS_EmptySet
<1>4. TokensBalance /\ FullCountsLetters
  BY <1>3 DEF Init, TokensBalance, FullCountsLetters, At, Threads, P, C, K
<1>5. ProducerFindsSlot /\ CalculatorFindsLetter
  BY DEF Init, ProducerFindsSlot, CalculatorFindsLetter, Threads, P, C, K
<1> QED BY <1>1, <1>2, <1>4, <1>5 DEF IInv

-----------------------------------------------------------------------------
\* The producer's steps.  The calculator's half of the invariant only speaks
\* of filled cells, and the producer only fills free ones.
LEMMA ProducerStep == IInv /\ producerFunc => IInv'
<1> SUFFICES ASSUME IInv, producerFunc PROVE IInv'
  OBVIOUS
<1> USE SizeAssumption, SemAssumption, LetterAssumption DEF IInv
<1> DEFINE n == Cardinality(Filled(buffer_1))
<1>0. n \in Nat
  BY FilledBound DEF TypeOK
<1>1. CASE ProducerWait
  <2> USE <1>1 DEF ProducerWait, Enter, Goto, P, C, K, Threads
  <2>1. TypeOK' /\ ScanState'
    BY DEF TypeOK, ScanState, Slots, Labels
  <2>2. TokensBalance' /\ FullCountsLetters'
    BY <1>0 DEF TypeOK, TokensBalance, FullCountsLetters, At
  <2>3. \E j \in Free(buffer_1) : j >= 0
    <3>1. n < BUFFER_SIZE
      BY <1>0 DEF TypeOK, TokensBalance, FullCountsLetters, At
    <3> QED BY <3>1, FilledBound DEF TypeOK
  <2>4. ProducerFindsSlot' /\ CalculatorFindsLetter'
    BY <2>3 DEF TypeOK, ProducerFindsSlot, CalculatorFindsLetter, Free, Filled
  <2> QED BY <2>1, <2>2, <2>4
<1>2. CASE ProducerScan
  <2> USE <1>2 DEF ProducerScan, NextSlot, Goto, sems, P, C, K, Threads
  <2>0. idx[P] \in Slots /\ \E j \in Free(buffer_1) : j >= idx[P]
    BY DEF ScanState, ProducerFindsSlot
  <2>1. buffer_1[idx[P]] # NUL => idx[P] + 1 < BUFFER_SIZE
    BY <2>0 DEF Slots, Free
  <2>2. TypeOK' /\ ScanState'
    BY <2>0, <2>1 DEF TypeOK, ScanState, Slots, Labels
  <2>3. TokensBalance' /\ FullCountsLetters'
    BY <1>0, <2>1 DEF TypeOK, TokensBalance, FullCountsLetters, At
  <2>4. ProducerFindsSlot' /\ CalculatorFindsLetter'
    BY <2>0, <2>1 DEF TypeOK, ProducerFindsSlot, CalculatorFindsLetter, Free, Filled, Slots
  <2> QED BY <2>2, <2>3, <2>4
<1>3. CASE ProducerStore
  <2> USE <1>3 DEF ProducerStore, Goto, sems, P, C, K, Threads
  <2>0. idx[P] \in Slots /\ ch[P] # NUL /\ buffer_1[idx[P]] = NUL /\ ch[P] \in Letters
    BY DEF ScanState, ProducerFindsSlot, TypeOK
  <2>1. TypeOK' /\ ScanState'
    BY <2>0 DEF TypeOK, ScanState, Labels
  <2>2. n' = n + 1
    BY <2>0, FilledStore DEF TypeOK
  <2>3. TokensBalance' /\ FullCountsLetters'
    BY <1>0, <2>2 DEF TypeOK, TokensBalance, FullCountsLetters, At
  <2>4. ProducerFindsSlot' /\ CalculatorFindsLetter'
    BY <2>0 DEF TypeOK, ProducerFindsSlot, CalculatorFindsLetter, Filled, ScanState
  <2> QED BY <2>1, <2>3, <2>4
<1>4. CASE ProducerPost
  <2> USE <1>4 DEF ProducerPost, Goto, Post, P, C, K, Threads
  <2>1. TypeOK' /\ ScanState'
    BY DEF TypeOK, ScanState, Labels
  <2>2. full_1 + 1 <= BUFFER_SIZE
    BY DEF TypeOK, TokensBalance, At
  <2>3. TokensBalance' /\ FullCountsLetters'
    BY <1>0, <2>2 DEF TypeOK, TokensBalance, FullCountsLetters, At
  <2>4. ProducerFindsSlot' /\ CalculatorFindsLetter'
    BY DEF TypeOK, ProducerFindsSlot, CalculatorFindsLetter, Filled
  <2> QED BY <2>1, <2>3, <2>4
<1> QED BY <1>1, <1>2, <1>3, <1>4 DEF producerFunc

\* The calculator's steps.  It only frees cells, and the producer's half of
\* the invariant only speaks of free ones.
LEMMA CalculatorStep == IInv /\ calculatorFunc => IInv'
<1> SUFFICES ASSUME IInv, calculatorFunc PROVE IInv'
  OBVIOUS
<1> USE SizeAssumption, SemAssumption, LetterAssumption DEF IInv
<1> DEFINE n == Cardinality(Filled(buffer_1))
<1>0. n \in Nat
  BY FilledBound DEF TypeOK
<1>1. CASE CalculatorWait
  <2> USE <1>1 DEF CalculatorWait, Enter, Goto, P, C, K, Threads
  <2>1. TypeOK' /\ ScanState'
    BY DEF TypeOK, ScanState, Slots, Labels
  <2>2. TokensBalance' /\ FullCountsLetters'
    BY <1>0 DEF TypeOK, TokensBalance, FullCountsLetters, At
  <2>3. \E j \in Filled(buffer_1) : j >= 0
    <3>1. n > 0
      BY <1>0 DEF TypeOK, FullCountsLetters, At
    <3> QED BY <3>1, FilledBound DEF TypeOK
  <2>4. ProducerFindsSlot' /\ CalculatorFindsLetter'
    BY <2>3 DEF TypeOK, ProducerFindsSlot, CalculatorFindsLetter, Free, Filled
  <2> QED BY <2>1, <2>2, <2>4
<1>2. CASE CalculatorScan
  <2> USE <1>2 DEF CalculatorScan, NextSlot, Goto, sems, P, C, K, Threads
  <2>0. idx[C] \in Slots /\ \E j \in Filled(buffer_1) : j >= idx[C]
    BY DEF ScanState, CalculatorFindsLetter
  <2>1. buffer_1[idx[C]] = NUL => idx[C] + 1 < BUFFER_SIZE
    BY <2>0 DEF Slots, Filled
  <2>2. TypeOK' /\ ScanState'
    BY <2>0, <2>1 DEF TypeOK, ScanState, Slots, Labels
  <2>3. TokensBalance' /\ FullCountsLetters'
    BY <1>0, <2>1 DEF TypeOK, TokensBalance, FullCountsLetters, At
  <2>4. ProducerFindsSlot' /\ CalculatorFindsLetter'
    BY <2>0, <2>1 DEF TypeOK, ProducerFindsSlot, CalculatorFindsLetter, Free, Filled, Slots
  <2> QED BY <2>2, <2>3, <2>4
<1>3. CASE CalculatorStore
  <2> USE <1>3 DEF CalculatorStore, Goto, sems, P, C, K, Threads
  <2>0. idx[C] \in Slots /\ ch[C] \in Letters
    BY DEF ScanState, CalculatorFindsLetter, TypeOK
  <2>1. TypeOK' /\ ScanState'
    BY <2>0 DEF TypeOK, ScanState, Labels, Uppers
  <2>2. TokensBalance' /\ FullCountsLetters'
    BY <1>0 DEF TypeOK, TokensBalance, FullCountsLetters, At
  <2>3. ProducerFindsSlot' /\ CalculatorFindsLetter'
    BY DEF TypeOK, ProducerFindsSlot, CalculatorFindsLetter, Free
  <2> QED BY <2>1, <2>2, <2>3
<1>4. CASE CalculatorClear
  <2> USE <1>4 DEF CalculatorClear, Goto, sems, P, C, K, Threads
  <2>0. idx[C] \in Slots /\ buffer_1[idx[C]] # NUL
    BY DEF ScanState, CalculatorFindsLetter, TypeOK
  <2>1. TypeOK' /\ ScanState'
    BY <2>0 DEF TypeOK, ScanState, Labels
  <2>2. n' = n - 1
    BY <2>0, FilledClear DEF TypeOK
  <2>3. TokensBalance' /\ FullCountsLetters'
    BY <1>0, <2>2 DEF TypeOK, TokensBalance, FullCountsLetters, At
  <2>4. ProducerFindsSlot' /\ CalculatorFindsLetter'
    BY <2>0 DEF TypeOK, ProducerFindsSlot, CalculatorFindsLetter, Free, ScanState
  <2> QED BY <2>1, <2>3, <2>4
<1>5. CASE CalculatorPostEmpty
  <2> USE <1>5 DEF CalculatorPostEmpty, Goto, Post, P, C, K, Threads
  <2>1. TypeOK' /\ ScanState'
    BY DEF TypeOK, ScanState, Labels
  <2>2. empty_1 + 1 <= BUFFER_SIZE
    BY DEF TypeOK, TokensBalance, At
  <2>3. TokensBalance' /\ FullCountsLetters'
    BY <1>0, <2>2 DEF TypeOK, TokensBalance, FullCountsLetters, At
  <2>4. ProducerFindsSlot' /\ CalculatorFindsLetter'
    BY DEF TypeOK, ProducerFindsSlot, CalculatorFindsLetter, Free
  <2> QED BY <2>1, <2>3, <2>4
<1>6. CASE CalculatorPostFull
  <2> USE <1>6 DEF CalculatorPostFull, Goto, Post, P, C, K, Threads
  <2>1. TypeOK' /\ ScanState'
    BY DEF TypeOK, ScanState, Labels
  <2>2. TokensBalance' /\ FullCountsLetters'
    BY <1>0 DEF TypeOK, TokensBalance, FullCountsLetters, At
  <2>3. ProducerFindsSlot' /\ CalculatorFindsLetter'
    BY DEF TypeOK, ProducerFindsSlot, CalculatorFindsLetter, Free
  <2> QED BY <2>1, <2>2, <2>3
<1> QED BY <1>1, <1>2, <1>3, <1>4, <1>5, <1>6 DEF calculatorFunc

\* The consumer's steps touch nothing of the first stage.
LEMMA ConsumerStep == IInv /\ consumerFunc => IInv'
<1> SUFFICES ASSUME IInv, consumerFunc PROVE IInv'
  OBVIOUS
<1> USE SizeAssumption, SemAssumption, LetterAssumption DEF IInv
<1> USE DEF P, C, K, Threads, Goto
<1>1. TypeOK' /\ ScanState'
  <2>1. CASE ConsumerWait
    BY <2>1 DEF ConsumerWait, Enter, TypeOK, ScanState, Slots, Labels
  <2>2. CASE ConsumerScan
    BY <2>2 DEF ConsumerScan, NextSlot, sems, TypeOK, ScanState, Slots, Labels
  <2>3. CASE ConsumerClear
    BY <2>3 DEF ConsumerClear, sems, TypeOK, ScanState, Labels
  <2>4. CASE ConsumerPost
    BY <2>4 DEF ConsumerPost, Post, TypeOK, ScanState, Labels
  <2> QED BY <2>1, <2>2, <2>3, <2>4 DEF consumerFunc
<1>2. /\ UNCHANGED <<buffer_1, empty_1, full_1, ch>>
      /\ pc'[P] = pc[P] /\ pc'[C] = pc[C] /\ idx'[P] = idx[P] /\ idx'[C] = idx[C]
  BY DEF consumerFunc, ConsumerWait, ConsumerScan, ConsumerClear, ConsumerPost,
         Enter, NextSlot, sems, TypeOK
<1>3. TokensBalance' /\ FullCountsLetters'
  BY <1>2 DEF TokensBalance, FullCountsLetters, At
<1>4. ProducerFindsSlot' /\ CalculatorFindsLetter'
  BY <1>2 DEF ProducerFindsSlot, CalculatorFindsLetter
<1> QED BY <1>1, <1>3, <1>4

LEMMA StutterStep == IInv /\ UNCHANGED vars => IInv'
BY DEF IInv, vars, sems, TypeOK, ScanState, TokensBalance, FullCountsLetters,
       ProducerFindsSlot, CalculatorFindsLetter, At, Filled, Free

\* The inductive invariant holds in every reachable state.
THEOREM Inductive == Spec => []IInv
<1>1. IInv /\ [Next]_vars => IInv'
  BY ProducerStep, CalculatorStep, ConsumerStep, StutterStep DEF Next
<1> QED BY <1>1, InitIInv, PTL DEF Spec

\* The variables of pv.c keep their types; in particular no letter that is
\* upper-cased is '\0'.
THEOREM TypeCorrect == Spec => []TypeOK
BY Inductive, PTL DEF IInv

\* empty_1 and full_1, with the threads that have taken one and not yet posted
\* the other, account for every cell of buffer_1 (pv.c:48,60,78,91), so neither
\* ever exceeds BUFFER_SIZE.
THEOREM FirstStageBalances == Spec => []TokensBalance
BY Inductive, PTL DEF IInv

\* full_1 counts the letters of buffer_1, but for the threads on their way.
THEOREM FirstStageCounts == Spec => []FullCountsLetters
BY Inductive, PTL DEF IInv

\* Neither scan of buffer_1 (pv.c:50-57, 80-88) runs off the array, whatever
\* the other thread does to the cells meanwhile.
THEOREM ScansSucceed == Spec => []ScansFindTheirCell
BY Inductive, PTL DEF IInv, ScansFindTheirCell
=============================================================================
