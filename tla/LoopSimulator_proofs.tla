-------------------------- MODULE LoopSimulator_proofs --------------------------
(***************************************************************************)
(* LoopSimulator for any pointer that the steps take to its end: each      *)
(* instruction takes four cycles, and the loop implements SequentialLoop.  *)
(***************************************************************************)
EXTENDS LoopSimulator, SequenceTheorems, TLAPS

-----------------------------------------------------------------------------
\* The instruction queue.

LEMMA LoopIsSeq == Loop \in Seq(Instructions) /\ Len(Loop) = 5 /\ DOMAIN Loop = 1..5
  BY DEF Loop, Instructions

LEMMA LoopElements ==
    /\ Loop[1] = "ld" /\ Loop[2] = "add" /\ Loop[3] = "sd"
    /\ Loop[4] = "addi" /\ Loop[5] = "bne"
    /\ \A i \in 1..5 : Loop[i] \in Instructions /\ Loop[i] # NO_OP
  BY DEF Loop, Instructions, NO_OP

LEMMA SuccType == \A i \in 1..5 : Succ(i) \in 1..5
  BY LoopIsSeq DEF Succ

\* What is taken from the queue when it stands at number i, and what it holds
\* in the next cycle.
LEMMA TakeFirst ==
    ASSUME NEW i \in 1..5
    PROVE  /\ Head(SubSeq(Loop, i, 5)) = Loop[i]
           /\ Tail(SubSeq(Loop, i, 5)) = SubSeq(Loop, i + 1, 5)
           /\ SubSeq(Loop, i, 5) # << >>
  <1>1. /\ Head(SubSeq(Loop, i, 5)) = Loop[i]
        /\ Tail(SubSeq(Loop, i, 5)) = SubSeq(Loop, i + 1, 5)
    BY LoopIsSeq, HeadTailOfSubSeq
  <1>2. \A j \in i..5 : Loop[j] \in Instructions
    BY LoopElements
  <1>3. Len(SubSeq(Loop, i, 5)) = 5 - i + 1
    BY <1>2, SubSeqProperties
  <1>4. Len(<< >>) # 5 - i + 1
    OBVIOUS
  <1> QED  BY <1>1, <1>3, <1>4

\* The queue is what is left of the loop from some number on, or the whole loop.
LEMMA QueueShapes ==
    /\ Loop = SubSeq(Loop, 1, 5)
    /\ << >> = SubSeq(Loop, 6, 5)
    /\ \A i \in 1..5 : \A q :
         q = SubSeq(Loop, i + 1, 5)
         => (IF q = << >> THEN Loop ELSE q) = SubSeq(Loop, Succ(i), 5)
  <1>1. Loop = SubSeq(Loop, 1, 5)
    BY LoopIsSeq, SubSeqFull
  <1>2. << >> = SubSeq(Loop, 6, 5)
    BY SubSeqEmpty
  <1>3. ASSUME NEW i \in 1..5, NEW q, q = SubSeq(Loop, i + 1, 5)
        PROVE  (IF q = << >> THEN Loop ELSE q) = SubSeq(Loop, Succ(i), 5)
    <2>1. CASE i = 5
      BY <1>1, <1>2, <1>3, <2>1, LoopIsSeq DEF Succ
    <2>2. CASE i # 5
      BY <1>3, <2>2, LoopIsSeq, TakeFirst DEF Succ
    <2> QED  BY <2>1, <2>2
  <1> QED  BY <1>1, <1>2, <1>3

-----------------------------------------------------------------------------
\* The pointer and the clock.

\* One more step of the pointer stays between its start and its end.
LEMMA DecrementedInRange ==
    ASSUME NEW m \in Nat, x1 = Start - Step * m, x1 \in End..Start, x1 # End
    PROVE  /\ x1 - Step = Start - Step * (m + 1)
           /\ x1 - Step \in End..Start
  <1>1. PICK k \in Nat : Start = End + k * Step
    BY LoopAssumption
  <1>2. Start \in Nat /\ End \in Nat /\ Step \in Nat /\ Step >= 1
    BY LoopAssumption
  <1>3. x1 - End = (k - m) * Step
    BY <1>1, <1>2
  <1>4. x1 - End > 0
    BY <1>2
  <1>5. k - m >= 1
    <2> DEFINE j == k - m
    <2>1. j \in Int /\ j * Step > 0
      BY <1>3, <1>4
    <2> HIDE DEF j
    <2>2. j >= 1
      BY <1>2, <2>1
    <2> QED  BY <2>2 DEF j
  <1>6. x1 - Step - End = (k - m - 1) * Step /\ (k - m - 1) * Step >= 0
    BY <1>2, <1>3, <1>5
  <1> QED  BY <1>2, <1>6

\* The clock that KeepsTime reads counts the addi's that have been stored.
LEMMA Periods ==
    ASSUME NEW n \in Nat, NEW i \in 1..5, NEW p \in 0..3
    PROVE  ((20 * n + 4 * i - 2 + p) + 3) \div 20
             = IF i = 5 \/ (i = 4 /\ p = 3) THEN n + 1 ELSE n
  <1> DEFINE c == (20 * n + 4 * i - 2 + p) + 3
  <1>1. CASE i = 5 \/ (i = 4 /\ p = 3)
    <2>1. c >= 20 * (n + 1) /\ c < 20 * (n + 2) /\ c \in Nat
      BY <1>1
    <2> HIDE DEF c
    <2>2. c \div 20 = n + 1
      BY <2>1
    <2> QED  BY <1>1, <2>2 DEF c
  <1>2. CASE ~(i = 5 \/ (i = 4 /\ p = 3))
    <2>0. i <= 3 \/ (i = 4 /\ p <= 2)
      BY <1>2
    <2>1. c >= 20 * n /\ c < 20 * (n + 1) /\ c \in Nat
      BY <2>0
    <2> HIDE DEF c
    <2>2. c \div 20 = n
      BY <2>1
    <2> QED  BY <1>2, <2>2 DEF c
  <1> QED  BY <1>1, <1>2

-----------------------------------------------------------------------------
\* The inductive invariant.

LEMMA TypeFromIInv == IInv => TypeOK
  <1> SUFFICES ASSUME IInv PROVE TypeOK
    OBVIOUS
  <1>1. \E i \in 1..6 : queue = SubSeq(Loop, i, 5)
    <2>1. CASE Starting
      BY <2>1, QueueShapes DEF Starting
    <2>2. CASE queue = << >>
      BY <2>2, QueueShapes
    <2>3. CASE ~Starting /\ queue # << >>
      <3>1. PICK n \in 0..clock, i \in 1..5, p \in 0..3 : At(n, i, p)
        BY <2>3, LoopIsSeq DEF IInv
      <3>2. PICK f \in 1..5 : Fetched(f)
        BY <3>1, SuccType DEF At, Moved
      <3>3. queue = SubSeq(Loop, Succ(f), 5)
        BY <2>3, <3>2, LoopIsSeq DEF Fetched, Refilled
      <3>4. Succ(f) \in 1..6
        BY <3>2, SuccType
      <3> QED  BY <3>3, <3>4
    <2> QED  BY <2>1, <2>2, <2>3
  <1>2. \A s \in {fetch, decode, execute, store} : s \in Instructions \cup {NO_OP}
    <2>1. CASE Starting
      BY <2>1 DEF Starting
    <2>2. CASE ~Starting
      <3>1. PICK n \in 0..clock, i \in 1..5, p \in 0..3 : At(n, i, p)
        BY <2>2, LoopIsSeq DEF IInv
      <3> QED  BY <3>1, LoopElements, SuccType DEF At, Moved, Fetched
    <2> QED  BY <2>1, <2>2
  <1> QED  BY <1>1, <1>2 DEF IInv, TypeOK

LEMMA InitIInv == Init => IInv
  <1> SUFFICES ASSUME Init PROVE IInv
    OBVIOUS
  <1>1. Start \in Nat /\ End \in Nat /\ Step \in Nat /\ 1 \in 1..MaxClock
    BY LoopAssumption
  <1>2. End <= Start
    <2>1. PICK k \in Nat : Start = End + k * Step
      BY LoopAssumption
    <2>2. k * Step >= 0
      BY <1>1
    <2> QED  BY <1>1, <2>1, <2>2
  <1>3. (1 + 3) \div 20 = 0
    OBVIOUS
  <1>4. Start = Start - Step * 0
    BY <1>1
  <1>5. KeepsTime
    BY <1>3, <1>4 DEF Init, KeepsTime
  <1> QED  BY <1>1, <1>2, <1>5 DEF Init, IInv, Starting

\* A cycle moves number i by one stage; from the last one it leaves, and its
\* successor, which is in fetch, is the next to move.
LEMMA Fetches ==
    ASSUME NEW f \in 1..5, Refilled = SubSeq(Loop, f, 5), FetchNext
    PROVE  Fetched(f)'
  <1>1. fetch' = Loop[f] /\ queue' = SubSeq(Loop, f + 1, 5)
    BY TakeFirst DEF FetchNext
  <1>2. Refilled' = SubSeq(Loop, Succ(f), 5)
    BY <1>1, QueueShapes DEF Refilled
  <1> QED  BY <1>1, <1>2, LoopIsSeq DEF Fetched

LEMMA StaysFetched ==
    ASSUME NEW f \in 1..5, Fetched(f), fetch' = fetch, queue' = Refilled
    PROVE  Fetched(f)'
  <1>1. Refilled' = Refilled
    BY LoopIsSeq DEF Refilled
  <1> QED  BY <1>1 DEF Fetched

LEMMA FirstFetch ==
    ASSUME Starting, Next
    PROVE  FetchNext /\ At(0, 1, 0)'
  <1>1. FetchNext
    BY DEF Starting, Next, FetchNext, DecodeToExecute, ExecuteToStore, LeaveStore, Idle
  <1>2. Refilled = SubSeq(Loop, 1, 5)
    BY LoopIsSeq, QueueShapes DEF Starting, Refilled
  <1>3. Fetched(1)'
    BY <1>1, <1>2, Fetches
  <1> QED  BY <1>1, <1>3 DEF Starting, At, Moved, FetchNext, Effect

LEMMA MovesOn ==
    ASSUME NEW n \in Nat, NEW i \in 1..5, NEW p \in 0..3, At(n, i, p), Next
    PROVE  /\ p = 0 => At(n, i, 1)'
           /\ p = 1 => At(n, i, 2)'
           /\ p = 2 => At(n, i, 3)'
           /\ p = 3 => IF i = 5 THEN At(n + 1, 1, 0)' ELSE At(n, i + 1, 0)'
           /\ Runs /\ Effect
           /\ store' = IF p = 2 THEN Loop[i] ELSE NO_OP
  <1>1. Loop[i] # NO_OP /\ Succ(i) \in 1..5
    BY LoopElements, SuccType
  <1>2. clock' = clock + 1 /\ Runs /\ Effect
    BY DEF Next, FetchNext, DecodeToExecute, ExecuteToStore, LeaveStore, Effect
  <1>3. CASE p = 0
    <2>1. FetchNext
      BY <1>1, <1>3 DEF At, Moved, Next, FetchNext, DecodeToExecute, ExecuteToStore,
         LeaveStore, Idle
    <2>2. Refilled = SubSeq(Loop, Succ(i), 5) /\ fetch = Loop[i]
      BY <1>3, LoopIsSeq DEF At, Moved, Fetched
    <2>3. Fetched(Succ(i))'
      BY <1>1, <2>1, <2>2, Fetches
    <2>4. decode' = Loop[i] /\ execute' = NO_OP /\ store' = NO_OP
      BY <1>3, <2>1, <2>2 DEF At, Moved, FetchNext
    <2> QED  BY <1>2, <1>3, <2>3, <2>4 DEF At, Moved
  <1>4. CASE p = 1
    <2>1. DecodeToExecute
      BY <1>1, <1>4 DEF At, Moved, Next, FetchNext, DecodeToExecute, ExecuteToStore,
         LeaveStore, Idle
    <2>2. Fetched(Succ(i))'
      BY <1>1, <1>4, <2>1, StaysFetched DEF At, Moved, DecodeToExecute
    <2>3. decode' = NO_OP /\ execute' = Loop[i] /\ store' = NO_OP
      BY <1>4, <2>1 DEF At, Moved, DecodeToExecute
    <2> QED  BY <1>2, <1>4, <2>2, <2>3 DEF At, Moved
  <1>5. CASE p = 2
    <2>1. ExecuteToStore
      BY <1>1, <1>5 DEF At, Moved, Next, FetchNext, DecodeToExecute, ExecuteToStore,
         LeaveStore, Idle
    <2>2. Fetched(Succ(i))'
      BY <1>1, <1>5, <2>1, StaysFetched DEF At, Moved, ExecuteToStore
    <2>3. decode' = NO_OP /\ execute' = NO_OP /\ store' = Loop[i]
      BY <1>5, <2>1 DEF At, Moved, ExecuteToStore
    <2> QED  BY <1>2, <1>5, <2>2, <2>3 DEF At, Moved
  <1>6. CASE p = 3
    <2>1. LeaveStore
      BY <1>1, <1>6 DEF At, Moved, Next, FetchNext, DecodeToExecute, ExecuteToStore,
         LeaveStore, Idle
    <2>2. Fetched(Succ(i))'
      BY <1>1, <1>6, <2>1, StaysFetched DEF At, Moved, LeaveStore
    <2>3. decode' = NO_OP /\ execute' = NO_OP /\ store' = NO_OP
      BY <1>6, <2>1 DEF At, Moved, LeaveStore, Stored
    <2>4. clock' = 20 * n + 4 * i - 2 + 4
      BY <1>2, <1>6 DEF At
    <2>5. CASE i = 5
      BY <1>2, <1>6, <2>2, <2>3, <2>4, <2>5, LoopIsSeq DEF At, Moved, Succ
    <2>6. CASE i # 5
      BY <1>2, <1>6, <2>2, <2>3, <2>4, <2>6, LoopIsSeq DEF At, Moved, Succ
    <2> QED  BY <2>5, <2>6
  <1> QED  BY <1>3, <1>4, <1>5, <1>6

\* x1, f0, f4 and the clock: the period of KeepsTime ends when addi is stored.
LEMMA ClockAhead ==
    ASSUME NEW n \in Nat, NEW i \in 1..5, NEW p \in 0..3, At(n, i, p),
           clock' = clock + 1
    PROVE  (clock' + 3) \div 20
             = IF i = 4 /\ p = 2 THEN ((clock + 3) \div 20) + 1
               ELSE (clock + 3) \div 20
  <1>1. clock = 20 * n + 4 * i - 2 + p
    BY DEF At
  <1>2. (clock + 3) \div 20 = IF i = 5 \/ (i = 4 /\ p = 3) THEN n + 1 ELSE n
    BY <1>1, Periods
  <1>3. CASE p < 3
    <2>1. p + 1 \in 0..3 /\ clock' = 20 * n + 4 * i - 2 + (p + 1)
      BY <1>1, <1>3
    <2>2. (clock' + 3) \div 20 = IF i = 5 \/ (i = 4 /\ p + 1 = 3) THEN n + 1 ELSE n
      BY <2>1, Periods
    <2> QED  BY <1>2, <1>3, <2>2
  <1>4. CASE p = 3 /\ i < 5
    <2>1. i + 1 \in 1..5 /\ 0 \in 0..3 /\ clock' = 20 * n + 4 * (i + 1) - 2 + 0
      BY <1>1, <1>4
    <2>2. (clock' + 3) \div 20 = IF i + 1 = 5 \/ (i + 1 = 4 /\ 0 = 3) THEN n + 1 ELSE n
      BY <2>1, Periods
    <2> QED  BY <1>2, <1>4, <2>2
  <1>5. CASE p = 3 /\ i = 5
    <2>1. 1 \in 1..5 /\ 0 \in 0..3 /\ clock' = 20 * (n + 1) + 4 * 1 - 2 + 0
      BY <1>1, <1>5
    <2>2. (clock' + 3) \div 20 = IF 1 = 5 \/ (1 = 4 /\ 0 = 3) THEN (n + 1) + 1 ELSE n + 1
      BY <2>1, Periods
    <2> QED  BY <1>2, <1>5, <2>2
  <1> QED  BY <1>3, <1>4, <1>5

LEMMA ValuesKept ==
    ASSUME IInv, Runs, Effect, store' # "addi",
           (clock' + 3) \div 20 = (clock + 3) \div 20
    PROVE  /\ x1' \in End..Start /\ f0' \in 0..Start /\ f4' \in 0..Start
           /\ clock' \in 1..MaxClock
           /\ KeepsTime'
  <1>1. Start \in Nat /\ End \in Nat /\ MaxClock \in Nat
    BY LoopAssumption
  <1>2. x1' = x1 /\ f0' \in {f0, x1} /\ f4' \in {f4, f0 + 0} /\ clock' = clock + 1
    BY DEF Effect, f2
  <1> QED  BY <1>1, <1>2 DEF IInv, KeepsTime, Runs

LEMMA ValuesDecremented ==
    ASSUME IInv, Runs, Effect, store' = "addi",
           (clock' + 3) \div 20 = ((clock + 3) \div 20) + 1
    PROVE  /\ x1' \in End..Start /\ f0' \in 0..Start /\ f4' \in 0..Start
           /\ clock' \in 1..MaxClock
           /\ KeepsTime'
  <1> DEFINE m == (clock + 3) \div 20
  <1>1. m \in Nat /\ x1 = Start - Step * m /\ x1 \in End..Start /\ x1 # End
    BY LoopAssumption DEF IInv, KeepsTime, Runs
  <1>2. x1' = x1 - Step /\ f0' = f0 /\ f4' = f4 /\ clock' = clock + 1
    BY DEF Effect, Decremented
  <1>3. (clock' + 3) \div 20 = m + 1
    OBVIOUS
  <1> HIDE DEF m
  <1>4. x1 - Step = Start - Step * (m + 1) /\ x1 - Step \in End..Start
    BY <1>1, DecrementedInRange
  <1>5. KeepsTime'
    BY <1>2, <1>3, <1>4 DEF KeepsTime
  <1>6. clock' \in 1..MaxClock
    BY <1>2, LoopAssumption DEF IInv, Runs
  <1> QED  BY <1>2, <1>4, <1>5, <1>6 DEF IInv

LEMMA NextIInv == IInv /\ [Next]_vars => IInv'
  <1> SUFFICES ASSUME IInv, [Next]_vars PROVE IInv'
    OBVIOUS
  <1>1. CASE UNCHANGED vars
    BY <1>1 DEF IInv, KeepsTime, Starting, At, Moved, Fetched, Refilled, vars, stages
  <1>2. CASE Starting /\ Next
    <2>1. FetchNext /\ At(0, 1, 0)'
      BY <1>2, FirstFetch
    <2>2. Runs /\ Effect /\ store' # "addi" /\ clock = 1 /\ clock' = 2
      BY <1>2, <2>1 DEF Starting, FetchNext, Effect, NO_OP
    <2>3. (1 + 3) \div 20 = 0 /\ (2 + 3) \div 20 = 0
      OBVIOUS
    <2>4. /\ x1' \in End..Start /\ f0' \in 0..Start /\ f4' \in 0..Start
          /\ clock' \in 1..MaxClock /\ KeepsTime'
      BY <2>2, <2>3, ValuesKept
    <2>5. \E n \in 0..clock', i \in DOMAIN Loop, p \in 0..3 : At(n, i, p)'
      BY <2>1, <2>2, LoopIsSeq
    <2> QED  BY <2>4, <2>5 DEF IInv
  <1>3. CASE ~Starting /\ Next
    <2>1. PICK n \in 0..clock, i \in 1..5, p \in 0..3 : At(n, i, p)
      BY <1>3, LoopIsSeq DEF IInv
    <2>2. clock \in Nat /\ n \in Nat /\ n + 1 <= clock + 1
      BY <2>1 DEF IInv
    <2>3. /\ p = 0 => At(n, i, 1)'
          /\ p = 1 => At(n, i, 2)'
          /\ p = 2 => At(n, i, 3)'
          /\ p = 3 => IF i = 5 THEN At(n + 1, 1, 0)' ELSE At(n, i + 1, 0)'
          /\ Runs /\ Effect
          /\ store' = IF p = 2 THEN Loop[i] ELSE NO_OP
      BY <1>3, <2>1, <2>2, MovesOn
    <2>4. clock' = clock + 1
      BY <2>3 DEF Effect
    <2>5. \E k \in 0..clock', j \in DOMAIN Loop, q \in 0..3 : At(k, j, q)'
      <3>1. p \in 0..2 => At(n, i, p + 1)' /\ p + 1 \in 0..3
        BY <2>3
      <3>2. n \in 0..clock' /\ n + 1 \in 0..clock'
        BY <2>2, <2>4
      <3>3. CASE p \in 0..2
        BY <3>1, <3>2, <3>3, LoopIsSeq
      <3>4. CASE p = 3 /\ i = 5
        BY <2>3, <3>2, <3>4, LoopIsSeq
      <3>5. CASE p = 3 /\ i # 5
        <4>1. i + 1 \in 1..5 /\ 0 \in 0..3 /\ At(n, i + 1, 0)'
          BY <2>3, <3>5
        <4> QED  BY <3>2, <4>1, LoopIsSeq
      <3> QED  BY <3>3, <3>4, <3>5
    <2>6. store' = "addi" <=> i = 4 /\ p = 2
      BY <2>3, LoopElements DEF NO_OP
    <2>7. (clock' + 3) \div 20
             = IF i = 4 /\ p = 2 THEN ((clock + 3) \div 20) + 1
               ELSE (clock + 3) \div 20
      BY <2>1, <2>2, <2>4, ClockAhead
    <2>8. /\ x1' \in End..Start /\ f0' \in 0..Start /\ f4' \in 0..Start
          /\ clock' \in 1..MaxClock /\ KeepsTime'
      <3>1. CASE i = 4 /\ p = 2
        BY <2>3, <2>6, <2>7, <3>1, ValuesDecremented
      <3>2. CASE ~(i = 4 /\ p = 2)
        BY <2>3, <2>6, <2>7, <3>2, ValuesKept
      <3> QED  BY <3>1, <3>2
    <2> QED  BY <2>5, <2>8 DEF IInv
  <1> QED  BY <1>1, <1>2, <1>3

\* The stages and the queue always hold instructions of the loop in its order,
\* and the registers values between 0 and the pointer's start.
THEOREM SpecTypeOK == Spec => []TypeOK
  BY InitIInv, NextIInv, TypeFromIInv, PTL DEF Spec

\* The moves between the stages take four cycles for every instruction: the
\* pointer is a function of the clock.
THEOREM SpecKeepsTime == Spec => []KeepsTime
  <1>1. IInv => KeepsTime
    BY DEF IInv
  <1> QED  BY <1>1, InitIInv, NextIInv, PTL DEF Spec

-----------------------------------------------------------------------------
\* The refinement.

LEMMA InitAbstract == Init => Abstract!Init
  BY DEF Init, Abstract!Init, Oldest

LEMMA OldestAt ==
    ASSUME NEW n \in Nat, NEW i \in 1..5, NEW p \in 0..3, At(n, i, p)
    PROVE  Oldest = IF p = 3 THEN Loop[Succ(i)] ELSE Loop[i]
  <1>1. Loop[i] # NO_OP /\ Loop[Succ(i)] # NO_OP
    BY LoopElements, SuccType
  <1>2. CASE p = 0
    BY <1>1, <1>2 DEF At, Moved, Fetched, Oldest
  <1>3. CASE p = 1
    BY <1>1, <1>3 DEF At, Moved, Oldest
  <1>4. CASE p = 2
    BY <1>1, <1>4 DEF At, Moved, Oldest
  <1>5. CASE p = 3
    BY <1>1, <1>5 DEF At, Moved, Fetched, Oldest
  <1> QED  BY <1>2, <1>3, <1>4, <1>5

\* Only the move into the last stage is a step of SequentialLoop, that of the
\* instruction which gets there.
LEMMA NextAbstract == IInv /\ [Next]_vars => [Abstract!Next]_Abstract!vars
  <1> SUFFICES ASSUME IInv, [Next]_vars PROVE [Abstract!Next]_Abstract!vars
    OBVIOUS
  <1>1. CASE UNCHANGED vars
    BY <1>1 DEF vars, stages, Abstract!vars, Oldest
  <1>2. CASE Starting /\ Next
    <2>1. FetchNext /\ At(0, 1, 0)'
      BY <1>2, FirstFetch
    <2>2. Oldest = "ld" /\ Oldest' = "ld"
      BY <1>2, <2>1, LoopElements, LoopIsSeq DEF Starting, At, Moved, Fetched, Oldest
    <2>3. UNCHANGED <<x1, f0, f4>>
      BY <1>2, <2>1 DEF Starting, FetchNext, Effect, NO_OP
    <2> QED  BY <2>2, <2>3 DEF Abstract!vars
  <1>3. CASE ~Starting /\ Next
    <2>1. PICK n \in 0..clock, i \in 1..5, p \in 0..3 : At(n, i, p)
      BY <1>3, LoopIsSeq DEF IInv
    <2>2. n \in Nat
      BY <2>1 DEF IInv
    <2>3. /\ p = 0 => At(n, i, 1)'
          /\ p = 1 => At(n, i, 2)'
          /\ p = 2 => At(n, i, 3)'
          /\ p = 3 => IF i = 5 THEN At(n + 1, 1, 0)' ELSE At(n, i + 1, 0)'
          /\ Runs /\ Effect
          /\ store' = IF p = 2 THEN Loop[i] ELSE NO_OP
      BY <1>3, <2>1, <2>2, MovesOn
    <2>4. Oldest = IF p = 3 THEN Loop[Succ(i)] ELSE Loop[i]
      BY <2>1, <2>2, OldestAt
    <2>5. CASE p = 2
      <3>1. Oldest' = Loop[Succ(i)]
        BY <2>3, <2>5, LoopElements, SuccType, LoopIsSeq DEF At, Moved, Fetched, Oldest
      <3>2. Abstract!Next
        BY <2>3, <2>4, <2>5, <3>1, LoopElements, LoopIsSeq DEF Effect, Decremented,
           Runs, f2, Succ, Abstract!Next, Abstract!Load, Abstract!Add, Abstract!Save,
           Abstract!Decrement, Abstract!Branch, Abstract!f2
      <3> QED  BY <3>2
    <2>6. CASE p # 2
      <3>1. UNCHANGED <<x1, f0, f4>>
        BY <2>3, <2>6 DEF Effect, NO_OP
      <3>2. Oldest' = Oldest
        <4>1. CASE p = 0 \/ p = 1
          BY <2>3, <2>4, <4>1, LoopElements DEF At, Moved, Oldest
        <4>2. CASE p = 3
          BY <2>3, <2>4, <4>2, LoopElements, LoopIsSeq DEF At, Moved, Fetched, Oldest, Succ
        <4> QED  BY <2>6, <4>1, <4>2
      <3> QED  BY <3>1, <3>2 DEF Abstract!vars
    <2> QED  BY <2>5, <2>6
  <1> QED  BY <1>1, <1>2, <1>3

\* The loop of simulatePipeline implements SequentialLoop: whatever the stages
\* hold, the instructions take effect one after another, in order, each once,
\* and the loop is not repeated when the pointer has met its end.
THEOREM SpecImplementsLoop == Spec => ImplementsLoop
  BY InitIInv, NextIInv, InitAbstract, NextAbstract, PTL
  DEF Spec, ImplementsLoop, Abstract!Spec

=============================================================================
