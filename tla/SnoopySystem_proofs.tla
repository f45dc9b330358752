------------------------ MODULE SnoopySystem_proofs ------------------------
(***************************************************************************)
(* The invariants of SnoopySystem, for every number of CPUs, every bound   *)
(* on the rounds and on the cache lines, every set of addresses and data,  *)
(* and every value an uninitialized variable may hold.                     *)
(***************************************************************************)
EXTENDS SnoopySystem, MesiCache_proofs

-----------------------------------------------------------------------------
\* The queue of requests and the CPUs in it.

LEMMA RequestersType ==
    ASSUME NEW q \in Seq(Request)
    PROVE  /\ Requesters(q) \in Seq(CPU)
           /\ Len(Requesters(q)) = Len(q)
           /\ DOMAIN Requesters(q) = DOMAIN q
           /\ \A n \in DOMAIN q : Requesters(q)[n] = q[n].cpuID
  <1> DEFINE ids == [n \in 1..Len(q) |-> q[n].cpuID]
  <1>1. Len(q) \in Nat /\ DOMAIN q = 1..Len(q)
    BY LenProperties
  <1>2. \A n \in 1..Len(q) : q[n] \in Request
    BY ElementOfSeq
  <1>3. \A n \in 1..Len(q) : q[n].cpuID \in CPU
    BY <1>2 DEF Request
  <1>4. ids \in [1..Len(q) -> CPU]
    BY <1>3
  <1>5. Requesters(q) = ids
    BY <1>1 DEF Requesters
  <1> HIDE DEF ids
  <1>6. ids \in Seq(CPU) /\ Len(ids) = Len(q)
    BY <1>1, <1>4
  <1> QED  BY <1>1, <1>5, <1>6 DEF ids

LEMMA RequestersAppend ==
    ASSUME NEW q \in Seq(Request), NEW r \in Request
    PROVE  Requesters(Append(q, r)) = Append(Requesters(q), r.cpuID)
  <1> DEFINE longer == Append(q, r)
             ids == Append(Requesters(q), r.cpuID)
  <1>1. /\ longer \in Seq(Request) /\ Len(longer) = Len(q) + 1 /\ Len(q) \in Nat
        /\ \A n \in 1..Len(q) : longer[n] = q[n]
        /\ longer[Len(q) + 1] = r
    BY AppendProperties, LenProperties
  <1>2. r.cpuID \in CPU
    BY DEF Request
  <1>3. Requesters(q) \in Seq(CPU) /\ Len(Requesters(q)) = Len(q)
        /\ \A n \in 1..Len(q) : Requesters(q)[n] = q[n].cpuID
    BY RequestersType, LenProperties
  <1>4. /\ ids \in Seq(CPU) /\ Len(ids) = Len(q) + 1
        /\ \A n \in 1..Len(q) : ids[n] = q[n].cpuID
        /\ ids[Len(q) + 1] = r.cpuID
    BY <1>2, <1>3, AppendProperties
  <1> HIDE DEF longer, ids
  <1>5. Requesters(longer) \in Seq(CPU) /\ Len(Requesters(longer)) = Len(q) + 1
        /\ \A n \in 1..Len(q) + 1 : Requesters(longer)[n] = longer[n].cpuID
    BY <1>1, RequestersType, LenProperties
  <1>6. \A n \in 1..Len(q) + 1 : Requesters(longer)[n] = ids[n]
    BY <1>1, <1>4, <1>5
  <1>7. Requesters(longer) = ids
    BY <1>1, <1>4, <1>5, <1>6, SeqEqual
  <1> QED  BY <1>7 DEF longer, ids

LEMMA RequestersSubsequence ==
    ASSUME NEW q \in Seq(Request), NEW kept \in SUBSET (DOMAIN q)
    PROVE  Requesters(Subsequence(q, kept)) = Subsequence(Requesters(q), kept)
  <1> DEFINE s == Subsequence(q, kept)
             c == Cardinality(kept)
  <1>1. /\ DOMAIN s = 1..c
        /\ \A n \in 1..c : Nth(kept, n) \in kept /\ s[n] = q[Nth(kept, n)]
    BY SubsequenceProperties
  <1>2. Subsequence(Requesters(q), kept) = [n \in 1..c |-> Requesters(q)[Nth(kept, n)]]
    BY DEF Subsequence
  <1> HIDE DEF s, c
  <1>3. \A n \in 1..c : s[n].cpuID = Requesters(q)[Nth(kept, n)]
    BY <1>1, RequestersType
  <1>4. Requesters(s) = [n \in 1..c |-> s[n].cpuID]
    BY <1>1 DEF Requesters
  <1> QED  BY <1>2, <1>3, <1>4 DEF s

LEMMA QueueWithoutProperties ==
    ASSUME memQueue \in Seq(Request), NEW p
    PROVE  /\ QueueWithout(p) \in Seq(Request)
           /\ Requesters(QueueWithout(p)) = Without(QueuedCPUs, p)
           /\ Elements(QueueWithout(p)) \subseteq Elements(memQueue)
  <1> DEFINE kept == {n \in DOMAIN memQueue : memQueue[n].cpuID # p}
  <1>1. kept = DOMAIN memQueue \ RequestsOf(p)
    BY DEF RequestsOf
  <1>2. kept = {n \in DOMAIN QueuedCPUs : QueuedCPUs[n] # p}
    BY RequestersType DEF QueuedCPUs
  <1>3. kept \in SUBSET (DOMAIN memQueue)
    OBVIOUS
  <1> HIDE DEF kept
  <1>4. QueueWithout(p) = Subsequence(memQueue, kept)
    BY <1>1 DEF QueueWithout
  <1>5. Without(QueuedCPUs, p) = Subsequence(QueuedCPUs, kept)
    BY <1>2 DEF Without
  <1>6. Elements(Subsequence(memQueue, kept)) = {memQueue[k] : k \in kept}
    BY <1>3, SubsequenceProperties
  <1>7. Subsequence(memQueue, kept) \in Seq(Request)
    BY <1>3, SubsequenceProperties
  <1>8. Elements(QueueWithout(p)) \subseteq Elements(memQueue)
    BY <1>3, <1>4, <1>6 DEF Elements
  <1>9. Requesters(QueueWithout(p)) = Without(QueuedCPUs, p)
    BY <1>3, <1>4, <1>5, RequestersSubsequence DEF QueuedCPUs
  <1> QED  BY <1>4, <1>7, <1>8, <1>9

\* A request that is performed is well formed, and writes a 0 if it writes.
LEMMA RequestOfProperties ==
    ASSUME memQueue \in Seq(Request), WritesAreZero, NEW p
    PROVE  LET r == RequestOf(p)
           IN  /\ r.isRead \in BOOLEAN /\ r.address \in Address /\ r.data \in Data
               /\ ~r.isRead => r.data = 0
  <1>1. CASE RequestsOf(p) = {}
    BY <1>1, SystemAssumption DEF RequestOf, NoRequest
  <1>2. CASE RequestsOf(p) # {}
    <2> DEFINE K == RequestsOf(p)
    <2>1. Len(memQueue) \in Nat /\ DOMAIN memQueue = 1..Len(memQueue)
      BY LenProperties
    <2>2. K \subseteq 0..Len(memQueue) /\ K \subseteq DOMAIN memQueue
      BY <2>1 DEF RequestsOf
    <2> HIDE DEF K
    <2>3. K \in SUBSET Nat /\ IsFiniteSet(K) /\ Cardinality(K) \in Nat
      BY <2>1, <2>2, BoundedIsFinite
    <2>4. Cardinality(K) # 0
      BY <2>3, <1>2, FS_EmptySet DEF K
    <2>5. 1 \in 1..Cardinality(K)
      BY <2>3, <2>4
    <2>6. Nth(K, 1) \in DOMAIN memQueue
      BY <2>1, <2>2, <2>3, <2>5, NthProperty
    <2>7. RequestOf(p) = memQueue[Nth(K, 1)]
      BY <1>2 DEF RequestOf, K
    <2>8. RequestOf(p) \in Request /\ (~RequestOf(p).isRead => RequestOf(p).data = 0)
      BY <2>1, <2>6, <2>7, ElementOfSeq DEF WritesAreZero
    <2> QED  BY <2>8 DEF Request
  <1> QED  BY <1>1, <1>2

-----------------------------------------------------------------------------
\* The memory and the caches.

LEMMA PerformProperties ==
    ASSUME ram \in UNION {[S -> Data] : S \in SUBSET Address}, MemoryStaysZero,
           NEW r, r.isRead \in BOOLEAN, r.address \in Address, r.data \in Data,
           ~r.isRead => r.data = 0, Perform(r)
    PROVE  ram' \in UNION {[S -> Data] : S \in SUBSET Address} /\ MemoryStaysZero'
  <1>1. CASE r.isRead
    BY <1>1 DEF Perform, MemoryStaysZero
  <1>2. CASE ~r.isRead
    <2> DEFINE dom == DOMAIN ram \cup {r.address}
    <2>1. ram' = [a \in dom |-> IF a = r.address THEN r.data ELSE ram[a]]
      BY <1>2 DEF Perform
    <2>2. DOMAIN ram \subseteq Address /\ \A a \in DOMAIN ram : ram[a] \in Data
      BY PartialFunction
    <2>3. dom \in SUBSET Address /\ ram' \in [dom -> Data]
      BY <2>1, <2>2
    <2>4. MemoryStaysZero'
      BY <1>2, <2>1 DEF MemoryStaysZero
    <2> HIDE DEF dom
    <2> QED  BY <2>3, <2>4
  <1> QED  BY <1>1, <1>2

\* Every cache is sound: what TypeOK and LruMatchesLines say of the caches.
AllSound == cache = [i \in CPU |-> cache[i]] /\ \A i \in CPU : Sound(cache[i], Address, Data)

LEMMA AllSoundIff ==
    AllSound <=> cache \in [CPU -> CacheOf(Address, Data)] /\ LruMatchesLines
  BY DEF AllSound, Sound, LruMatchesLines

LEMMA BroadcastProperties ==
    ASSUME AllSound, NEW i \in CPU, NEW a \in Address, NEW newState, NEW update,
           Broadcast(i, a, newState, update)
    PROVE  /\ AllSound'
           /\ GetCurrentState(cache[i], a)' = newState
           /\ \A j \in CPU \ {i} : GetCurrentState(cache[j], a)'
                                   \in SnoopedStates(update, GetCurrentState(cache[j], a))
           /\ \A j \in CPU : /\ OthersKept(cache[j], cache'[j], a)
                             /\ LinesKept(cache[j], cache'[j], a)
                             /\ a \in DOMAIN cache[j].data
                                   => cache'[j].data[a].data = cache[j].data[a].data
  <1>1. PICK s \in [CPU -> LineState] :
            /\ s[i] = newState
            /\ \A j \in CPU \ {i} : s[j] \in SnoopedStates(update, GetCurrentState(cache[j], a))
            /\ cache' = [j \in CPU |-> SetCurrentState(cache[j], a, s[j])]
    BY DEF Broadcast
  <1>2. \A j \in CPU : /\ Sound(cache'[j], Address, Data)
                       /\ GetCurrentState(cache'[j], a) = s[j]
                       /\ OthersKept(cache[j], cache'[j], a)
                       /\ LinesKept(cache[j], cache'[j], a)
                       /\ a \in DOMAIN cache[j].data
                             => cache'[j].data[a].data = cache[j].data[a].data
    BY <1>1, SetCurrentStateProperties, SystemAssumption DEF AllSound
  <1>3. GetCurrentState(cache[i], a)' = GetCurrentState(cache'[i], a)
        /\ \A j \in CPU : GetCurrentState(cache[j], a)' = GetCurrentState(cache'[j], a)
    OBVIOUS
  <1> QED  BY <1>1, <1>2, <1>3 DEF AllSound

-----------------------------------------------------------------------------
\* IInv is the conjunction of what it says of the caches, of the bus and of
\* the control.

BusSound ==
    /\ waitingForMemoryAccess \in [CPU -> BOOLEAN]
    /\ shareFlag \in [CPU -> BOOLEAN]
    /\ memQueue \in Seq(Request)
    /\ arbQueue \in Seq(CPU)
    /\ ram \in UNION {[S -> Data] : S \in SUBSET Address}
    /\ currentProcessorID \in CPU \cup {NoCPU}
    /\ QueuesAgree /\ OneRequestPerWaiter
    /\ WritesAreZero /\ MemoryStaysZero

ControlSound ==
    /\ pc \in {"access", "snoop", "update", "serve", "done"}
    /\ cpu \in 0..NumCPU /\ snooped \in 0..NumCPU
    /\ access \in Access
    /\ loopCnt \in 0..LoopMax + 1
    /\ Control

LEMMA IInvParts == IInv <=> AllSound /\ BusSound /\ ControlSound
  BY AllSoundIff DEF IInv, TypeOK, BusSound, ControlSound

LEMMA IInvNext == AllSound' /\ BusSound' /\ ControlSound' => IInv'
  <1>1. AllSound' => cache' \in [CPU -> CacheOf(Address, Data)] /\ LruMatchesLines'
    BY DEF AllSound, Sound, LruMatchesLines
  <1> QED  BY <1>1 DEF IInv, TypeOK, BusSound, ControlSound

LEMMA BusUnchanged ==
    ASSUME BusSound, UNCHANGED <<waitingForMemoryAccess, busVars>>,
           shareFlag' \in [CPU -> BOOLEAN]
    PROVE  BusSound'
  BY DEF BusSound, busVars, QueuesAgree, OneRequestPerWaiter, WritesAreZero,
         MemoryStaysZero, QueuedCPUs, Requesters

LEMMA QueueTypes ==
    ASSUME BusSound
    PROVE  /\ QueuedCPUs \in Seq(CPU) /\ Len(QueuedCPUs) = Len(memQueue)
           /\ DOMAIN QueuedCPUs = DOMAIN memQueue
           /\ \A n \in DOMAIN memQueue : QueuedCPUs[n] = memQueue[n].cpuID
  BY RequestersType DEF BusSound, QueuedCPUs

LEMMA CPUType == NumCPU \in Nat /\ NumCPU >= 1 /\ CPU \subseteq Nat /\ NoCPU \notin CPU
                 /\ LoopMax \in Nat /\ 0 \in Data /\ 0 \in Address
  BY SystemAssumption DEF CPU, NoCPU

\* A CPU that does not wait gets in line.
LEMMA AddRequestKeepsBus ==
    ASSUME BusSound, NEW p \in CPU, NEW isRead \in BOOLEAN, NEW a \in Address,
           NEW d \in Data, ~isRead => d = 0,
           ~waitingForMemoryAccess[p], currentProcessorID = NoCPU,
           AddRequest(p, isRead, a, d),
           waitingForMemoryAccess' = [waitingForMemoryAccess EXCEPT ![p] = TRUE],
           UNCHANGED <<shareFlag, ram, currentProcessorID>>
    PROVE  BusSound' /\ p \notin Elements(QueuedCPUs)
           /\ QueuedCPUs' = Append(QueuedCPUs, p)
  <1> DEFINE r == [cpuID |-> p, isRead |-> isRead, address |-> a, data |-> d]
  <1>1. r \in Request /\ r.cpuID = p /\ (~r.isRead => r.data = 0)
    BY DEF Request
  <1>2. memQueue' = Append(memQueue, r) /\ arbQueue' = Append(arbQueue, p)
    BY DEF AddRequest
  <1> HIDE DEF r
  <1>3. memQueue \in Seq(Request) /\ arbQueue \in Seq(CPU)
    BY DEF BusSound
  <1>4. /\ memQueue' \in Seq(Request) /\ arbQueue' \in Seq(CPU)
        /\ Len(memQueue') = Len(memQueue) + 1 /\ Len(memQueue) \in Nat
        /\ \A n \in 1..Len(memQueue) : memQueue'[n] = memQueue[n]
        /\ memQueue'[Len(memQueue) + 1] = r
        /\ DOMAIN memQueue = 1..Len(memQueue) /\ DOMAIN memQueue' = 1..Len(memQueue')
    BY <1>1, <1>2, <1>3, AppendProperties, LenProperties
  <1>5. QueuedCPUs' = Append(QueuedCPUs, p)
    BY <1>1, <1>2, <1>3, RequestersAppend DEF QueuedCPUs
  <1>6. QueuesAgree'
    BY <1>2, <1>5 DEF QueuesAgree, BusSound
  <1>7. p \notin Elements(QueuedCPUs)
    BY DEF BusSound, OneRequestPerWaiter
  <1>8. /\ QueuedCPUs' \in Seq(CPU) /\ DOMAIN QueuedCPUs' = 1..Len(QueuedCPUs) + 1
        /\ DOMAIN QueuedCPUs = 1..Len(QueuedCPUs) /\ Len(QueuedCPUs) \in Nat
        /\ \A n \in 1..Len(QueuedCPUs) : QueuedCPUs'[n] = QueuedCPUs[n]
        /\ QueuedCPUs'[Len(QueuedCPUs) + 1] = p
    BY <1>5, QueueTypes, AppendProperties, LenProperties
  <1>9. NoRepeats(QueuedCPUs')
    BY <1>7, <1>8 DEF NoRepeats, Elements, BusSound, OneRequestPerWaiter
  <1>10. ASSUME NEW i \in Elements(QueuedCPUs')
         PROVE  waitingForMemoryAccess'[i]
    <2>1. i \in Elements(QueuedCPUs) \/ i = p
      BY <1>8, <1>10 DEF Elements
    <2>2. i \in CPU
      BY <2>1, QueueTypes, <1>8 DEF Elements
    <2> QED  BY <2>1, <2>2 DEF BusSound, OneRequestPerWaiter
  <1>11. WritesAreZero'
    <2>1. ASSUME NEW n \in DOMAIN memQueue', ~memQueue'[n].isRead
          PROVE  memQueue'[n].data = 0
      <3>1. CASE n = Len(memQueue) + 1
        <4>1. memQueue'[n] = r
          BY <1>4, <3>1
        <4> QED  BY <4>1, <1>1, <2>1, Zenon
      <3>2. CASE n \in DOMAIN memQueue
        <4>1. memQueue'[n] = memQueue[n]
          BY <1>4, <3>2
        <4>2. ~memQueue[n].isRead => memQueue[n].data = 0
          BY <3>2, Zenon DEF WritesAreZero, BusSound
        <4> QED  BY <4>1, <4>2, <2>1, Zenon
      <3> QED  BY <1>4, <2>1, <3>1, <3>2
    <2> QED  BY <2>1, Zenon DEF WritesAreZero
  <1>12. OneRequestPerWaiter'
    BY <1>9, <1>10 DEF OneRequestPerWaiter
  <1>13. MemoryStaysZero'
    BY DEF BusSound, MemoryStaysZero
  <1> QED  BY <1>4, <1>5, <1>6, <1>7, <1>11, <1>12, <1>13 DEF BusSound

-----------------------------------------------------------------------------
\* The steps of an access.

LEMMA SkipWaitingKeeps ==
    ASSUME IInv, SkipWaiting
    PROVE  IInv'
  <1>1. AllSound'
    BY IInvParts DEF SkipWaiting, AllSound
  <1>2. BusSound'
    BY IInvParts, BusUnchanged DEF SkipWaiting, BusSound, flagVars
  <1>3. ControlSound'
    BY IInvParts, CPUType DEF SkipWaiting, ControlSound, Control, flagVars, busVars
  <1> QED  BY <1>1, <1>2, <1>3, IInvNext

LEMMA GoToUpdateKeeps ==
    ASSUME IInv, Ready, NEW isRead \in BOOLEAN, NEW isHit \in BOOLEAN,
           NEW a \in Address, NEW shared \in BOOLEAN,
           GoToUpdate(isRead, isHit, a, shared), UNCHANGED <<snooped, currentProcessorID>>
    PROVE  ControlSound'
  <1>1. ControlSound /\ cpu \in CPU
    BY IInvParts, CPUType DEF Ready, CPU, ControlSound
  <1>2. access' \in Access
    BY CPUType DEF GoToUpdate, Access
  <1> QED  BY <1>1, <1>2 DEF GoToUpdate, ControlSound, Control, Ready

LEMMA ResidentIfNotInvalid ==
    ASSUME NEW c, NEW a, GetCurrentState(c, a) # "INVALID"
    PROVE  a \in DOMAIN c.data
  BY DEF GetCurrentState

LEMMA ReadHitKeeps ==
    ASSUME IInv, NEW a \in Address, ReadHit(a)
    PROVE  IInv'
  <1>1. AllSound /\ BusSound /\ ControlSound /\ cpu \in CPU
    BY IInvParts, CPUType DEF ReadHit, Ready, ControlSound, CPU
  <1>2. cache' = [cache EXCEPT ![cpu] = ReadFromCache(cache[cpu], a)]
        /\ a \in DOMAIN cache[cpu].data
    BY ResidentIfNotInvalid DEF ReadHit
  <1>3. Sound(ReadFromCache(cache[cpu], a), Address, Data)
    BY <1>1, <1>2, ReadFromCacheProperties DEF AllSound
  <1>4. AllSound'
    BY <1>1, <1>2, <1>3 DEF AllSound
  <1>5. BusSound'
    BY <1>1, BusUnchanged DEF ReadHit, BusSound, flagVars
  <1>6. ControlSound'
    BY GoToUpdateKeeps DEF ReadHit, busVars
  <1> QED  BY <1>4, <1>5, <1>6, IInvNext

LEMMA WriteHitKeeps ==
    ASSUME IInv, NEW a \in Address, NEW d \in Data, WriteHit(a, d)
    PROVE  IInv'
  <1>1. AllSound /\ BusSound /\ ControlSound /\ cpu \in CPU
    BY IInvParts, CPUType DEF WriteHit, Ready, ControlSound, CPU
  <1>2. cache' = [cache EXCEPT ![cpu] = WriteToCache(cache[cpu], a, d)]
    BY DEF WriteHit
  <1>3. Sound(WriteToCache(cache[cpu], a, d), Address, Data)
    BY <1>1, WriteToCacheProperties DEF AllSound
  <1>4. AllSound'
    BY <1>1, <1>2, <1>3 DEF AllSound
  <1>5. BusSound'
    BY <1>1, BusUnchanged DEF WriteHit, BusSound, flagVars
  <1>6. ControlSound'
    BY GoToUpdateKeeps DEF WriteHit, busVars
  <1> QED  BY <1>4, <1>5, <1>6, IInvNext

\* The holder snoopRead picks is another CPU that has the line.
LEMMA FirstHolder ==
    ASSUME NEW i \in CPU, NEW a, Holders(i, a) # {}
    PROVE  LET h == Nth(Holders(i, a), 1)
           IN  h \in CPU /\ h # i /\ GetCurrentState(cache[h], a) \in Valid
  <1> DEFINE H == Holders(i, a)
  <1>1. H \subseteq CPU \ {i} /\ \A j \in H : GetCurrentState(cache[j], a) \in Valid
    BY DEF Holders
  <1>2. H \subseteq 0..NumCPU /\ NumCPU \in Nat
    BY <1>1, CPUType DEF CPU
  <1> HIDE DEF H
  <1>3. H \in SUBSET Nat /\ IsFiniteSet(H) /\ Cardinality(H) \in Nat
    BY <1>2, BoundedIsFinite
  <1>4. Cardinality(H) # 0
    BY <1>3, FS_EmptySet DEF H
  <1>5. 1 \in 1..Cardinality(H)
    BY <1>3, <1>4
  <1>6. Nth(H, 1) \in H
    BY <1>2, <1>3, <1>5, NthProperty
  <1> QED  BY <1>1, <1>6 DEF H

LEMMA ReadMissSharedKeeps ==
    ASSUME IInv, NEW a \in Address, ReadMissShared(a)
    PROVE  IInv'
  <1> DEFINE h == Nth(Holders(cpu, a), 1)
             v == ReadValue(cache[h], a)
  <1>1. AllSound /\ BusSound /\ ControlSound /\ cpu \in CPU
    BY IInvParts, CPUType DEF ReadMissShared, Ready, ControlSound, CPU
  <1>2. h \in CPU /\ h # cpu /\ GetCurrentState(cache[h], a) \in Valid
    BY <1>1, FirstHolder DEF ReadMissShared
  <1>3. cache' = [cache EXCEPT ![cpu] = WriteToCache(cache[cpu], a, v),
                               ![h] = ReadFromCache(cache[h], a)]
    BY <1>2 DEF ReadMissShared
  <1> HIDE DEF h
  <1>4. a \in DOMAIN cache[h].data
    BY <1>2, ResidentIfNotInvalid DEF Valid
  <1>5. Sound(ReadFromCache(cache[h], a), Address, Data) /\ v \in Data
    BY <1>1, <1>2, <1>4, ReadFromCacheProperties DEF AllSound
  <1>6. Sound(WriteToCache(cache[cpu], a, v), Address, Data)
    BY <1>1, <1>5, WriteToCacheProperties DEF AllSound
  <1> HIDE DEF v
  <1>7. AllSound'
    BY <1>1, <1>2, <1>3, <1>5, <1>6 DEF AllSound
  <1>8. BusSound'
    BY <1>1, BusUnchanged DEF ReadMissShared, BusSound
  <1>9. ControlSound'
    BY GoToUpdateKeeps DEF ReadMissShared, busVars
  <1> QED  BY <1>7, <1>8, <1>9, IInvNext

LEMMA ReadMissMemoryKeeps ==
    ASSUME IInv, NEW a \in Address, ReadMissMemory(a)
    PROVE  IInv'
  <1>1. AllSound /\ BusSound /\ ControlSound /\ cpu \in CPU
    BY IInvParts, CPUType DEF ReadMissMemory, Ready, ControlSound, CPU
  <1>2. AllSound'
    BY <1>1 DEF ReadMissMemory, AllSound
  <1>3. ~waitingForMemoryAccess[cpu] /\ currentProcessorID = NoCPU
    BY <1>1 DEF ReadMissMemory, Ready, ControlSound, Control
  <1>4. BusSound'
    BY <1>1, <1>3, AddRequestKeepsBus, CPUType DEF ReadMissMemory
  <1>5. ControlSound'
    BY GoToUpdateKeeps DEF ReadMissMemory
  <1> QED  BY <1>2, <1>4, <1>5, IInvNext

LEMMA WriteMissKeeps ==
    ASSUME IInv, NEW a \in Address, NEW d \in Data, WriteMiss(a, d)
    PROVE  IInv'
  <1>1. AllSound /\ BusSound /\ ControlSound /\ cpu \in CPU
    BY IInvParts, CPUType DEF WriteMiss, Ready, ControlSound, CPU
  <1>2. AllSound'
    BY <1>1 DEF WriteMiss, AllSound
  <1>3. BusSound'
    BY <1>1, BusUnchanged DEF WriteMiss, BusSound, flagVars
  <1>4. access' \in Access
    BY CPUType DEF WriteMiss, NoAccess, Access
  <1>5. ControlSound'
    BY <1>1, <1>4, CPUType DEF WriteMiss, Ready, ControlSound, Control, flagVars, busVars
  <1> QED  BY <1>2, <1>3, <1>5, IInvNext

LEMMA SnoopSkipKeeps ==
    ASSUME IInv, SnoopSkip
    PROVE  IInv'
  <1>1. AllSound'
    BY IInvParts DEF SnoopSkip, AllSound
  <1>2. BusSound'
    BY IInvParts, BusUnchanged DEF SnoopSkip, BusSound, flagVars
  <1>3. ControlSound'
    BY IInvParts, CPUType DEF SnoopSkip, ControlSound, Control, flagVars, busVars
  <1> QED  BY <1>1, <1>2, <1>3, IInvNext

LEMMA NextStateType ==
    ASSUME NEW state, NEW isRead, NEW isHit, NEW shared, state \in LineState
    PROVE  NextState(state, isRead, isHit, shared) \in LineState
  BY DEF NextState, LineState, CacheState

LEMMA CurrentStateType ==
    ASSUME NEW c \in CacheOf(Address, Data), NEW a
    PROVE  GetCurrentState(c, a) \in LineState
  BY CacheFields DEF GetCurrentState, LineOf, LineState, CacheState

\* A CPU leaves both queues.
LEMMA RemovalKeepsBus ==
    ASSUME BusSound, NEW p, currentProcessorID = NoCPU,
           NEW r, r.isRead \in BOOLEAN, r.address \in Address, r.data \in Data,
           ~r.isRead => r.data = 0, Perform(r),
           memQueue' = QueueWithout(p), arbQueue' = RemoveEntry(p),
           shareFlag' \in [CPU -> BOOLEAN],
           UNCHANGED <<waitingForMemoryAccess, currentProcessorID>>
    PROVE  BusSound' /\ QueuedCPUs' = Without(QueuedCPUs, p)
  <1>1. memQueue \in Seq(Request) /\ arbQueue \in Seq(CPU) /\ QueuedCPUs \in Seq(CPU)
        /\ QueuedCPUs = arbQueue /\ NoRepeats(QueuedCPUs)
    BY QueueTypes DEF BusSound, QueuesAgree, OneRequestPerWaiter
  <1>2. /\ memQueue' \in Seq(Request)
        /\ QueuedCPUs' = Without(QueuedCPUs, p)
        /\ Elements(memQueue') \subseteq Elements(memQueue)
    BY <1>1, QueueWithoutProperties DEF QueuedCPUs
  <1>3. arbQueue' = Without(arbQueue, p)
    BY DEF RemoveEntry
  <1>4. /\ arbQueue' \in Seq(CPU)
        /\ Elements(QueuedCPUs') \subseteq Elements(QueuedCPUs)
        /\ NoRepeats(QueuedCPUs')
    BY <1>1, <1>2, <1>3, WithoutProperties
  <1>5. QueuesAgree'
    BY <1>1, <1>2, <1>3 DEF QueuesAgree
  <1>6. OneRequestPerWaiter'
    BY <1>4 DEF OneRequestPerWaiter, BusSound
  <1>7. WritesAreZero'
    <2>1. ASSUME NEW n \in DOMAIN memQueue', ~memQueue'[n].isRead
          PROVE  memQueue'[n].data = 0
      <3>1. PICK m \in DOMAIN memQueue : memQueue'[n] = memQueue[m]
        BY <1>2 DEF Elements
      <3>2. ~memQueue[m].isRead => memQueue[m].data = 0
        BY Zenon DEF WritesAreZero, BusSound
      <3> QED  BY <2>1, <3>1, <3>2, Zenon
    <2> QED  BY <2>1, Zenon DEF WritesAreZero
  <1>8. ram' \in UNION {[S -> Data] : S \in SUBSET Address} /\ MemoryStaysZero'
    BY PerformProperties DEF BusSound
  <1> QED  BY <1>2, <1>4, <1>5, <1>6, <1>7, <1>8 DEF BusSound

LEMMA SnoopModifiedKeeps ==
    ASSUME IInv, SnoopModified
    PROVE  IInv'
  <1> DEFINE r == RequestOf(snooped)
             c == cache[snooped]
             newState == NextState(GetCurrentState(c, r.address), r.isRead, FALSE,
                                   shareFlag[snooped])
  <1>1. AllSound /\ BusSound /\ ControlSound /\ snooped \in CPU
    BY IInvParts, CPUType DEF SnoopModified, ControlSound, CPU
  <1>2. currentProcessorID = NoCPU
    BY <1>1 DEF SnoopModified, ControlSound, Control
  <1>3. /\ r.isRead \in BOOLEAN /\ r.address \in Address /\ r.data \in Data
        /\ ~r.isRead => r.data = 0
    BY <1>1, RequestOfProperties DEF BusSound
  <1>4. /\ Perform(r)
        /\ cache' = [cache EXCEPT ![snooped] = SetCurrentState(c, r.address, newState)]
        /\ shareFlag' = [shareFlag EXCEPT ![snooped] = FALSE]
    BY DEF SnoopModified
  <1> HIDE DEF r, newState
  <1>5. Sound(c, Address, Data) /\ c \in CacheOf(Address, Data)
    BY <1>1 DEF AllSound, Sound
  <1>6. newState \in LineState
    BY <1>5, CurrentStateType, NextStateType DEF newState
  <1>7. Sound(SetCurrentState(c, r.address, newState), Address, Data)
    BY <1>3, <1>5, <1>6, SetCurrentStateProperties, CPUType
  <1>8. AllSound'
    BY <1>1, <1>4, <1>7 DEF AllSound
  <1>9. shareFlag' \in [CPU -> BOOLEAN]
    BY <1>1, <1>4 DEF BusSound
  <1>10. BusSound'
    BY <1>1, <1>2, <1>3, <1>4, <1>9, RemovalKeepsBus DEF SnoopModified
  <1>11. ControlSound'
    BY <1>1, CPUType DEF SnoopModified, ControlSound, Control
  <1> QED  BY <1>8, <1>10, <1>11, IInvNext

LEMMA QueueWriteKeeps ==
    ASSUME IInv, QueueWrite
    PROVE  IInv'
  <1>1. AllSound /\ BusSound /\ ControlSound /\ cpu \in CPU /\ access \in Access
    BY IInvParts DEF QueueWrite, ControlSound, Control
  <1>2. ~waitingForMemoryAccess[cpu] /\ currentProcessorID = NoCPU
    BY <1>1 DEF QueueWrite, ControlSound, Control
  <1>3. access.address \in Address /\ access.data \in Data
    BY <1>1 DEF Access
  <1>4. AllSound'
    BY <1>1 DEF QueueWrite, AllSound
  <1>5. BusSound'
    BY <1>1, <1>2, <1>3, AddRequestKeepsBus DEF QueueWrite
  <1>6. access' \in Access
    BY <1>3, CPUType DEF QueueWrite, GoToUpdate, Access
  <1>7. ControlSound'
    BY <1>1, <1>2, <1>6, CPUType DEF QueueWrite, GoToUpdate, ControlSound, Control
  <1> QED  BY <1>4, <1>5, <1>7, IInvNext

LEMMA UpdateStateKeeps ==
    ASSUME IInv, UpdateState
    PROVE  IInv'
  <1>1. AllSound /\ BusSound /\ ControlSound /\ cpu \in CPU /\ access \in Access
    BY IInvParts DEF UpdateState, ControlSound, Control
  <1>2. access.address \in Address
    BY <1>1 DEF Access
  <1>3. AllSound'
    BY <1>1, <1>2, BroadcastProperties DEF UpdateState
  <1>4. BusSound'
    BY <1>1, BusUnchanged DEF UpdateState, BusSound, flagVars
  <1>5. NoAccess \in Access
    BY CPUType DEF NoAccess, Access
  <1>6. ControlSound'
    BY <1>1, <1>5, CPUType DEF UpdateState, ControlSound, Control, CPU, flagVars, busVars
  <1> QED  BY <1>3, <1>4, <1>6, IInvNext

-----------------------------------------------------------------------------
\* The steps that end a round.

LEMMA GrantBusKeeps ==
    ASSUME IInv, GrantBus
    PROVE  IInv'
  <1>1. AllSound /\ BusSound /\ ControlSound
    BY IInvParts
  <1>2. currentProcessorID = NoCPU /\ arbQueue # << >> /\ arbQueue \in Seq(CPU)
    BY <1>1 DEF GrantBus, ControlSound, Control, BusSound
  <1>3. currentProcessorID' = Head(arbQueue) /\ arbQueue' = Tail(arbQueue)
        /\ Head(arbQueue) \in CPU /\ Tail(arbQueue) \in Seq(CPU)
    BY <1>2, HeadTailProperties DEF GrantBus
  <1>4. arbQueue = <<Head(arbQueue)>> \o Tail(arbQueue)
    BY <1>2, <1>3
  <1>5. QueuedCPUs' = QueuedCPUs /\ QueuedCPUs = arbQueue
    BY <1>1, <1>2 DEF GrantBus, QueuedCPUs, Requesters, BusSound, QueuesAgree
  <1>6. QueuesAgree'
    BY <1>3, <1>4, <1>5, CPUType DEF QueuesAgree
  <1>7. OneRequestPerWaiter' /\ WritesAreZero' /\ MemoryStaysZero'
    BY <1>1, <1>5 DEF GrantBus, flagVars, OneRequestPerWaiter, WritesAreZero,
                      MemoryStaysZero, BusSound
  <1>8. BusSound'
    BY <1>1, <1>3, <1>6, <1>7 DEF GrantBus, flagVars, BusSound
  <1>9. AllSound'
    BY <1>1 DEF GrantBus, AllSound
  <1>10. ControlSound'
    BY <1>1, <1>3, CPUType DEF GrantBus, ControlSound, Control, flagVars
  <1> QED  BY <1>8, <1>9, <1>10, IInvNext

LEMMA EndRoundKeeps ==
    ASSUME ControlSound, pc \in {"access", "serve"}, EndRound,
           UNCHANGED <<snooped, access>>, currentProcessorID' = NoCPU
    PROVE  ControlSound'
  BY CPUType DEF EndRound, ControlSound, Control

LEMMA NoGrantKeeps ==
    ASSUME IInv, NoGrant
    PROVE  IInv'
  <1>1. AllSound /\ BusSound /\ ControlSound
    BY IInvParts
  <1>2. AllSound'
    BY <1>1 DEF NoGrant, AllSound
  <1>3. BusSound'
    BY <1>1, BusUnchanged DEF NoGrant, BusSound, flagVars
  <1>4. ControlSound'
    BY <1>1, EndRoundKeeps DEF NoGrant, ControlSound, Control, busVars
  <1> QED  BY <1>2, <1>3, <1>4, IInvNext

\* The CPU being served has the first request of the queue, and no other.
LEMMA HolderIsFirst ==
    ASSUME BusSound, currentProcessorID # NoCPU
    PROVE  LET p == currentProcessorID
           IN  /\ p \in CPU
               /\ memQueue # << >>
               /\ QueueWithout(p) = Tail(memQueue)
               /\ QueuedCPUs = <<p>> \o arbQueue
               /\ arbQueue = Tail(QueuedCPUs)
               /\ p \in Elements(QueuedCPUs)
               /\ p \notin Elements(Tail(QueuedCPUs))
  <1> DEFINE p == currentProcessorID
  <1>1. /\ p \in CPU /\ arbQueue \in Seq(CPU)
        /\ QueuedCPUs = <<p>> \o arbQueue
        /\ NoRepeats(QueuedCPUs)
        /\ memQueue \in Seq(Request)
    BY DEF BusSound, QueuesAgree, OneRequestPerWaiter
  <1>2. /\ QueuedCPUs \in Seq(CPU)
        /\ Len(QueuedCPUs) = Len(arbQueue) + 1 /\ Len(arbQueue) \in Nat
        /\ QueuedCPUs[1] = p
        /\ DOMAIN QueuedCPUs = 1..Len(QueuedCPUs)
        /\ QueuedCPUs # << >>
        /\ arbQueue = Tail(QueuedCPUs)
    BY <1>1
  <1>3. /\ Len(memQueue) = Len(QueuedCPUs)
        /\ DOMAIN memQueue = DOMAIN QueuedCPUs
        /\ \A n \in DOMAIN memQueue : QueuedCPUs[n] = memQueue[n].cpuID
    BY QueueTypes
  <1> HIDE DEF p
  <1>4. ASSUME NEW n \in DOMAIN memQueue PROVE memQueue[n].cpuID = p <=> n = 1
    <2>1. QueuedCPUs[n] = memQueue[n].cpuID /\ n \in DOMAIN QueuedCPUs /\ 1 \in DOMAIN QueuedCPUs
      BY <1>2, <1>3
    <2>2. QueuedCPUs[n] = QueuedCPUs[1] => n = 1
      BY <1>1, <2>1, Zenon DEF NoRepeats
    <2> QED  BY <1>2, <2>1, <2>2, Zenon
  <1>5. DOMAIN memQueue \ RequestsOf(p) = 2..Len(memQueue)
    <2>1. RequestsOf(p) = {1}
      BY <1>2, <1>3, <1>4 DEF RequestsOf
    <2>2. (1..Len(memQueue)) \ {1} = 2..Len(memQueue)
      BY <1>2, <1>3
    <2> QED  BY <2>1, <2>2, <1>2, <1>3
  <1>6. memQueue # << >>
    BY <1>1, <1>2, <1>3, EmptySeq
  <1>7. QueueWithout(p) = Tail(memQueue)
    BY <1>1, <1>5, <1>6, SubsequenceTail DEF QueueWithout
  <1>8. p \in Elements(QueuedCPUs)
    BY <1>2 DEF Elements
  <1>9. p \notin Elements(arbQueue)
    <2>1. ASSUME NEW n \in 1..Len(arbQueue) PROVE arbQueue[n] # p
      <3>1. n + 1 \in 1..Len(QueuedCPUs) /\ n + 1 # 1 /\ 1 \in 1..Len(QueuedCPUs)
        BY <1>2
      <3>2. QueuedCPUs[n + 1] = arbQueue[n]
        BY <1>1
      <3> QED  BY <3>1, <3>2, <1>1, <1>2 DEF NoRepeats
    <2> QED  BY <2>1, <1>1 DEF Elements
  <1> QED  BY <1>1, <1>2, <1>6, <1>7, <1>8, <1>9 DEF p

LEMMA ServeBusKeeps ==
    ASSUME IInv, ServeBus
    PROVE  IInv'
  <1> DEFINE p == currentProcessorID
             r == RequestOf(p)
  <1>1. AllSound /\ BusSound /\ ControlSound
    BY IInvParts
  <1>2. p # NoCPU
    BY <1>1 DEF ServeBus, ControlSound, Control
  <1>3. /\ p \in CPU /\ QueueWithout(p) = Tail(memQueue) /\ memQueue # << >>
        /\ QueuedCPUs = <<p>> \o arbQueue /\ arbQueue = Tail(QueuedCPUs)
        /\ p \notin Elements(Tail(QueuedCPUs))
    BY <1>1, <1>2, HolderIsFirst
  <1>4. /\ r.isRead \in BOOLEAN /\ r.address \in Address /\ r.data \in Data
        /\ ~r.isRead => r.data = 0
    BY <1>1, RequestOfProperties DEF BusSound
  <1>5. /\ Perform(r)
        /\ memQueue' = QueueWithout(p)
        /\ shareFlag' = [shareFlag EXCEPT ![p] = FALSE]
        /\ waitingForMemoryAccess' = [waitingForMemoryAccess EXCEPT ![p] = FALSE]
        /\ currentProcessorID' = NoCPU /\ arbQueue' = arbQueue
    BY DEF ServeBus
  <1>6. AllSound'
    BY <1>1, <1>3, <1>4, BroadcastProperties DEF ServeBus
  <1> HIDE DEF p, r
  <1>7. QueuedCPUs' = Without(QueuedCPUs, p) /\ memQueue' \in Seq(Request)
        /\ Elements(memQueue') \subseteq Elements(memQueue)
    BY <1>1, <1>5, QueueWithoutProperties DEF BusSound, QueuedCPUs
  <1>8. QueuedCPUs' = arbQueue'
    <2>1. QueuedCPUs \in Seq(CPU) /\ QueuedCPUs # << >> /\ DOMAIN QueuedCPUs = 1..Len(QueuedCPUs)
      BY <1>1, <1>3, QueueTypes DEF BusSound
    <2>2. Requesters(Tail(memQueue)) = Tail(Requesters(memQueue))
      <3>1. memQueue \in Seq(Request) /\ Tail(memQueue) \in Seq(Request)
            /\ Len(Tail(memQueue)) = Len(memQueue) - 1
        BY <1>1, <1>3, HeadTailProperties DEF BusSound
      <3>2. /\ Requesters(Tail(memQueue)) \in Seq(CPU)
            /\ Len(Requesters(Tail(memQueue))) = Len(memQueue) - 1
            /\ \A n \in 1..Len(memQueue) - 1 :
                  Requesters(Tail(memQueue))[n] = memQueue[n + 1].cpuID
        <4>1. DOMAIN Tail(memQueue) = 1..Len(memQueue) - 1
          BY <3>1
        <4>2. \A n \in 1..Len(memQueue) - 1 : Tail(memQueue)[n] = memQueue[n + 1]
          BY <3>1, <1>3, HeadTailProperties
        <4>3. \A n \in 1..Len(memQueue) - 1 :
                 Requesters(Tail(memQueue))[n] = Tail(memQueue)[n].cpuID
          BY <4>1 DEF Requesters
        <4>4. /\ Requesters(Tail(memQueue)) \in Seq(CPU)
              /\ Len(Requesters(Tail(memQueue))) = Len(Tail(memQueue))
          BY <3>1, RequestersType
        <4> QED  BY <3>1, <4>2, <4>3, <4>4
      <3>3. /\ Tail(QueuedCPUs) \in Seq(CPU)
            /\ Len(Tail(QueuedCPUs)) = Len(memQueue) - 1
            /\ \A n \in 1..Len(memQueue) - 1 : Tail(QueuedCPUs)[n] = QueuedCPUs[n + 1]
        BY <1>1, <2>1, QueueTypes, HeadTailProperties
      <3>4. \A n \in 1..Len(memQueue) - 1 : QueuedCPUs[n + 1] = memQueue[n + 1].cpuID
        BY <1>1, <3>1, QueueTypes
      <3>5. Requesters(Tail(memQueue)) = Tail(QueuedCPUs)
        BY <3>2, <3>3, <3>4, SeqEqual
      <3> QED  BY <3>5 DEF QueuedCPUs
    <2> QED  BY <1>3, <1>5, <2>2 DEF QueuedCPUs
  <1>9. QueuesAgree'
    BY <1>5, <1>8 DEF QueuesAgree
  <1>10. OneRequestPerWaiter'
    <2>1. NoRepeats(QueuedCPUs')
      BY <1>1, <1>7, QueueTypes, WithoutProperties DEF BusSound, OneRequestPerWaiter
    <2>2. Elements(QueuedCPUs') = Elements(QueuedCPUs) \ {p}
      BY <1>1, <1>7, QueueTypes, WithoutProperties
    <2>3. \A i \in Elements(QueuedCPUs') : waitingForMemoryAccess'[i]
      <3>1. Elements(QueuedCPUs) \subseteq CPU
        BY <1>1, QueueTypes DEF Elements
      <3> QED  BY <1>1, <1>5, <2>2, <3>1 DEF BusSound, OneRequestPerWaiter
    <2> QED  BY <2>1, <2>3 DEF OneRequestPerWaiter
  <1>11. WritesAreZero'
    <2>1. ASSUME NEW n \in DOMAIN memQueue', ~memQueue'[n].isRead
          PROVE  memQueue'[n].data = 0
      <3>1. PICK m \in DOMAIN memQueue : memQueue'[n] = memQueue[m]
        BY <1>7 DEF Elements
      <3>2. ~memQueue[m].isRead => memQueue[m].data = 0
        BY <1>1, Zenon DEF WritesAreZero, BusSound
      <3> QED  BY <2>1, <3>1, <3>2, Zenon
    <2> QED  BY <2>1, Zenon DEF WritesAreZero
  <1>12. ram' \in UNION {[S -> Data] : S \in SUBSET Address} /\ MemoryStaysZero'
    BY <1>1, <1>4, <1>5, PerformProperties DEF BusSound
  <1>13. BusSound'
    BY <1>1, <1>5, <1>7, <1>9, <1>10, <1>11, <1>12 DEF BusSound
  <1>14. ControlSound'
    BY <1>1, EndRoundKeeps DEF ServeBus
  <1> QED  BY <1>6, <1>13, <1>14, IInvNext

-----------------------------------------------------------------------------
\* The inductive invariant.

LEMMA InitIInv == Init => IInv
  <1> SUFFICES ASSUME Init PROVE IInv
    OBVIOUS
  <1>1. EmptyCache \in CacheOf(Address, Data) /\ LruMatches(EmptyCache)
    <2> DEFINE none == [a \in {} |-> [state |-> "INVALID", data |-> 0]]
    <2>1. none \in UNION {[S -> LineOf(Data)] : S \in SUBSET Address}
      BY PartialFunction
    <2>2. << >> \in Seq(Address) /\ Len(<< >>) = 0 /\ DOMAIN << >> = {}
      OBVIOUS
    <2>3. EmptyCache.data = none /\ EmptyCache.lru = << >> /\ DOMAIN none = {}
          /\ EmptyCache = [data |-> none, lru |-> << >>]
      BY DEF EmptyCache
    <2> HIDE DEF none
    <2>4. EmptyCache \in CacheOf(Address, Data)
      BY <2>1, <2>2, <2>3 DEF CacheOf
    <2>5. LruMatches(EmptyCache)
      BY <2>2, <2>3, CacheAssumption DEF LruMatches, NoRepeats, Elements
    <2> QED  BY <2>4, <2>5
  <1>2. AllSound
    BY <1>1 DEF Init, AllSound, Sound
  <1>3. QueuedCPUs = << >> /\ DOMAIN memQueue = {} /\ currentProcessorID = NoCPU
    BY DEF Init, QueuedCPUs, Requesters
  <1>4. QueuesAgree /\ OneRequestPerWaiter /\ WritesAreZero
    BY <1>3 DEF Init, QueuesAgree, OneRequestPerWaiter, NoRepeats, Elements, WritesAreZero
  <1>5. ram \in UNION {[S -> Data] : S \in SUBSET Address} /\ MemoryStaysZero
    BY PartialFunction DEF Init, MemoryStaysZero
  <1>6. BusSound
    BY <1>4, <1>5 DEF Init, BusSound
  <1>7. ControlSound
    BY CPUType DEF Init, ControlSound, Control, NoAccess, Access
  <1> QED  BY <1>2, <1>6, <1>7, IInvParts

LEMMA StutterKeeps ==
    ASSUME IInv, UNCHANGED vars
    PROVE  IInv'
  <1>1. AllSound'
    BY IInvParts DEF vars, AllSound
  <1>2. BusSound'
    BY IInvParts, BusUnchanged DEF vars, BusSound, flagVars
  <1>3. ControlSound'
    BY IInvParts DEF vars, ControlSound, Control, flagVars, busVars
  <1> QED  BY <1>1, <1>2, <1>3, IInvNext

LEMMA NextIInv == IInv /\ [Next]_vars => IInv'
  <1> SUFFICES ASSUME IInv, [Next]_vars PROVE IInv'
    OBVIOUS
  <1>1. ASSUME NEW a \in Address, ReadHit(a) \/ ReadMissShared(a) \/ ReadMissMemory(a)
        PROVE  IInv'
    BY <1>1, ReadHitKeeps, ReadMissSharedKeeps, ReadMissMemoryKeeps
  <1>2. ASSUME NEW a \in Address, NEW d \in Data, WriteHit(a, d) \/ WriteMiss(a, d)
        PROVE  IInv'
    BY <1>2, WriteHitKeeps, WriteMissKeeps
  <1>3. ASSUME SkipWaiting \/ SnoopSkip \/ SnoopModified \/ QueueWrite \/ UpdateState
        PROVE  IInv'
    BY <1>3, SkipWaitingKeeps, SnoopSkipKeeps, SnoopModifiedKeeps, QueueWriteKeeps,
       UpdateStateKeeps
  <1>4. ASSUME GrantBus \/ NoGrant \/ ServeBus
        PROVE  IInv'
    BY <1>4, GrantBusKeeps, NoGrantKeeps, ServeBusKeeps
  <1> QED  BY <1>1, <1>2, <1>3, <1>4, StutterKeeps DEF Next

\* Everything IInv says holds in every state of the simulator: the induction
\* from which the theorems below follow.
THEOREM SpecInvariant == Spec => []IInv
  BY InitIInv, NextIInv, PTL DEF Spec

\* The variables of the simulator keep their types.
THEOREM SpecTypeOK == Spec => []TypeOK
  <1>1. IInv => TypeOK
    BY DEF IInv
  <1> QED  BY <1>1, SpecInvariant, PTL

\* MemoryBus::requestQueue and BusArbiter::requestQueue hold the same CPUs in
\* the same order, but for the CPU that holds the bus.
THEOREM SpecQueuesAgree == Spec => []QueuesAgree
  <1>1. IInv => QueuesAgree
    BY DEF IInv
  <1> QED  BY <1>1, SpecInvariant, PTL

\* No CPU has two requests on the bus, and a CPU that has one waits.
THEOREM SpecOneRequestPerWaiter == Spec => []OneRequestPerWaiter
  <1>1. IInv => OneRequestPerWaiter
    BY DEF IInv
  <1> QED  BY <1>1, SpecInvariant, PTL

\* Cache::lruOrder and Cache::cacheData hold the same addresses, in every
\* cache and for every number of lines and addresses.
THEOREM SpecLruMatchesLines == Spec => []LruMatchesLines
  <1>1. IInv => LruMatchesLines
    BY DEF IInv
  <1> QED  BY <1>1, SpecInvariant, PTL

\* With isRead exchanged at both calls of addRequest, no write of any CPU
\* ever reaches main memory.
THEOREM SpecMemoryStaysZero == Spec => []MemoryStaysZero
  <1>1. IInv => MemoryStaysZero
    BY DEF IInv
  <1> QED  BY <1>1, SpecInvariant, PTL

=============================================================================
