------------------------- MODULE SnoopyOrder_proofs -------------------------
(***************************************************************************)
(* The properties of the steps of SnoopySystem: the bus implements         *)
(* BusService, a CPU whose request was taken away never resumes, only the  *)
(* loop of snoopWrite gives a line a second owner, and only a stale        *)
(* request makes a coherent line incoherent.                               *)
(***************************************************************************)
EXTENDS SnoopySystem_proofs

-----------------------------------------------------------------------------
\* The bus.

BusView == <<QueuedCPUs, currentProcessorID>>

LEMMA QueueIsLine ==
    ASSUME UNCHANGED memQueue
    PROVE  QueuedCPUs' = QueuedCPUs
  BY DEF QueuedCPUs, Requesters

LEMMA JoinStep ==
    ASSUME IInv, NEW p \in CPU, NEW isRead \in BOOLEAN, NEW a \in Address,
           NEW d \in Data, ~isRead => d = 0,
           ~waitingForMemoryAccess[p], pc \in {"access", "snoop"},
           AddRequest(p, isRead, a, d),
           waitingForMemoryAccess' = [waitingForMemoryAccess EXCEPT ![p] = TRUE],
           UNCHANGED <<shareFlag, ram, currentProcessorID>>
    PROVE  Bus!Join(p)
  <1>1. BusSound /\ currentProcessorID = NoCPU
    BY IInvParts DEF ControlSound, Control
  <1>2. p \notin Elements(QueuedCPUs) /\ QueuedCPUs' = Append(QueuedCPUs, p)
    BY <1>1, AddRequestKeepsBus
  <1> QED  BY <1>2 DEF Bus!Join, Bus!Elements, Elements

LEMMA AccessStep ==
    ASSUME IInv, NEW a \in Address, ReadMissMemory(a)
    PROVE  Bus!Join(cpu)
  <1>1. cpu \in CPU /\ ~waitingForMemoryAccess[cpu] /\ pc = "access"
    BY IInvParts, CPUType DEF ReadMissMemory, Ready, ControlSound, CPU
  <1> QED  BY <1>1, CPUType, JoinStep DEF ReadMissMemory

LEMMA QueueWriteStep ==
    ASSUME IInv, QueueWrite
    PROVE  Bus!Join(cpu)
  <1>1. cpu \in CPU /\ ~waitingForMemoryAccess[cpu] /\ pc = "snoop"
        /\ access.address \in Address /\ access.data \in Data
    BY IInvParts DEF QueueWrite, ControlSound, Control, Access
  <1> QED  BY <1>1, JoinStep DEF QueueWrite

LEMMA LeaveStep ==
    ASSUME IInv, SnoopModified
    PROVE  (\E c \in CPU : Bus!Leave(c)) \/ UNCHANGED BusView
  <1>1. BusSound /\ currentProcessorID = NoCPU /\ snooped \in CPU /\ snooped # NoCPU
    BY IInvParts, CPUType DEF SnoopModified, ControlSound, Control, CPU
  <1>2. QueuedCPUs' = Without(QueuedCPUs, snooped) /\ UNCHANGED currentProcessorID
    BY <1>1, QueueWithoutProperties DEF SnoopModified, BusSound, QueuedCPUs
  <1>3. CASE snooped \in Elements(QueuedCPUs)
    <2>1. Bus!Leave(snooped)
      BY <1>1, <1>2, <1>3 DEF Bus!Leave, Bus!Elements, Elements, Bus!Without, Without,
         Bus!Subsequence, Subsequence, Bus!Nth, Nth, Bus!Cardinality, Cardinality
    <2> QED  BY <1>1, <2>1
  <1>4. CASE snooped \notin Elements(QueuedCPUs)
    BY <1>1, <1>2, <1>4, QueueTypes, WithoutAbsent DEF BusView
  <1> QED  BY <1>3, <1>4

LEMMA GrantStep ==
    ASSUME IInv, GrantBus
    PROVE  Bus!Grant
  <1>1. currentProcessorID = NoCPU /\ QueuedCPUs = arbQueue
    BY IInvParts DEF GrantBus, ControlSound, Control, BusSound, QueuesAgree
  <1> QED  BY <1>1, QueueIsLine DEF GrantBus, Bus!Grant

LEMMA ServeStep ==
    ASSUME IInv, ServeBus
    PROVE  Bus!Serve
  <1> DEFINE p == currentProcessorID
  <1>1. BusSound /\ p # NoCPU
    BY IInvParts DEF ServeBus, ControlSound, Control
  <1>2. /\ arbQueue = Tail(QueuedCPUs)
        /\ UNCHANGED arbQueue /\ currentProcessorID' = NoCPU
    BY <1>1, HolderIsFirst DEF ServeBus
  <1>3. QueuesAgree'
    BY ServeBusKeeps DEF IInv
  <1>4. QueuedCPUs' = arbQueue'
    BY <1>2, <1>3 DEF QueuesAgree
  <1> QED  BY <1>1, <1>2, <1>4 DEF Bus!Serve

LEMMA BusStep == IInv /\ [Next]_vars => [Bus!Next]_BusView
  <1> SUFFICES ASSUME IInv, [Next]_vars PROVE Bus!Next \/ UNCHANGED BusView
    BY DEF BusView
  <1>1. cpu \in CPU \/ pc # "access" \/ cpu = NumCPU
    BY IInvParts, CPUType DEF ControlSound, CPU
  <1>2. ASSUME UNCHANGED <<memQueue, currentProcessorID>> PROVE UNCHANGED BusView
    BY <1>2, QueueIsLine DEF BusView
  <1>3. ASSUME NEW a \in Address, ReadMissMemory(a) PROVE Bus!Next
    <2>1. cpu \in CPU
      BY <1>3, IInvParts, CPUType DEF ReadMissMemory, Ready, ControlSound, CPU
    <2> QED  BY <1>3, <2>1, AccessStep DEF Bus!Next
  <1>4. ASSUME QueueWrite PROVE Bus!Next
    <2>1. cpu \in CPU
      BY <1>4, IInvParts DEF QueueWrite, ControlSound, Control
    <2> QED  BY <1>4, <2>1, QueueWriteStep DEF Bus!Next
  <1>5. ASSUME SnoopModified PROVE Bus!Next \/ UNCHANGED BusView
    BY <1>5, LeaveStep DEF Bus!Next
  <1>6. ASSUME GrantBus \/ ServeBus PROVE Bus!Next
    BY <1>6, GrantStep, ServeStep DEF Bus!Next
  <1>7. ASSUME NEW a \in Address, ReadHit(a) \/ ReadMissShared(a) PROVE UNCHANGED BusView
    BY <1>7, <1>2 DEF ReadHit, ReadMissShared, busVars
  <1>8. ASSUME NEW a \in Address, NEW d \in Data, WriteHit(a, d) \/ WriteMiss(a, d)
        PROVE  UNCHANGED BusView
    BY <1>8, <1>2 DEF WriteHit, WriteMiss, busVars
  <1>9. ASSUME SkipWaiting \/ SnoopSkip \/ UpdateState \/ NoGrant \/ UNCHANGED vars
        PROVE  UNCHANGED BusView
    BY <1>9, <1>2 DEF SkipWaiting, SnoopSkip, UpdateState, NoGrant, vars, busVars
  <1> QED  BY <1>3, <1>4, <1>5, <1>6, <1>7, <1>8, <1>9 DEF Next

\* The two queues and the grant implement one first come, first served line:
\* the safety of MemoryBus and BusArbiter together, for any number of CPUs.
THEOREM SpecFirstComeFirstServed == Spec => FirstComeFirstServed
  <1>1. Init => Bus!Init
    BY DEF Init, Bus!Init, QueuedCPUs, Requesters
  <1>2. IInv /\ [Next]_vars => [Bus!Next]_<<QueuedCPUs, currentProcessorID>>
    BY BusStep DEF BusView
  <1> QED  BY <1>1, <1>2, SpecInvariant, PTL DEF Spec, FirstComeFirstServed, Bus!Spec

-----------------------------------------------------------------------------
\* The CPUs that wait.

DroppedStays ==
    \A i \in CPU : waitingForMemoryAccess[i] /\ i \notin Elements(QueuedCPUs)
                     => waitingForMemoryAccess'[i]

LEMMA DroppedStep == IInv /\ [Next]_vars => DroppedStays
  <1> SUFFICES ASSUME IInv, [Next]_vars PROVE DroppedStays
    OBVIOUS
  <1>1. waitingForMemoryAccess \in [CPU -> BOOLEAN]
    BY IInvParts DEF BusSound
  <1>2. ASSUME UNCHANGED waitingForMemoryAccess PROVE DroppedStays
    BY <1>2 DEF DroppedStays
  <1>3. ASSUME waitingForMemoryAccess' = [waitingForMemoryAccess EXCEPT ![cpu] = TRUE]
        PROVE  DroppedStays
    BY <1>1, <1>3 DEF DroppedStays
  <1>4. ASSUME NEW a \in Address, ReadHit(a) \/ ReadMissShared(a) \/ ReadMissMemory(a)
        PROVE  DroppedStays
    BY <1>2, <1>3, <1>4 DEF ReadHit, ReadMissShared, ReadMissMemory, flagVars
  <1>5. ASSUME NEW a \in Address, NEW d \in Data, WriteHit(a, d) \/ WriteMiss(a, d)
        PROVE  DroppedStays
    BY <1>2, <1>5 DEF WriteHit, WriteMiss, flagVars
  <1>6. ASSUME QueueWrite PROVE DroppedStays
    BY <1>3, <1>6 DEF QueueWrite
  <1>7. ASSUME SkipWaiting \/ SnoopSkip \/ SnoopModified \/ UpdateState
               \/ GrantBus \/ NoGrant \/ UNCHANGED vars
        PROVE  DroppedStays
    BY <1>2, <1>7 DEF SkipWaiting, SnoopSkip, SnoopModified, UpdateState, GrantBus,
                      NoGrant, vars, flagVars
  <1>8. ASSUME ServeBus PROVE DroppedStays
    <2> DEFINE p == currentProcessorID
    <2>1. BusSound /\ p # NoCPU
      BY <1>8, IInvParts DEF ServeBus, ControlSound, Control
    <2>2. p \in CPU /\ p \in Elements(QueuedCPUs)
      BY <2>1, HolderIsFirst
    <2>3. waitingForMemoryAccess' = [waitingForMemoryAccess EXCEPT ![p] = FALSE]
      BY <1>8 DEF ServeBus
    <2> HIDE DEF p
    <2> QED  BY <1>1, <2>2, <2>3 DEF DroppedStays
  <1> QED  BY <1>4, <1>5, <1>6, <1>7, <1>8 DEF Next

\* The grant of the bus is all that ends a wait, and it finds only CPUs that
\* are queued: a CPU that snoopWrite took out of both queues stays waiting.
THEOREM SpecDroppedNeverResumes == Spec => DroppedNeverResumes
  <1>1. IInv /\ [Next]_vars =>
          [\A i \in CPU : waitingForMemoryAccess[i] /\ i \notin Elements(QueuedCPUs)
                            => waitingForMemoryAccess'[i]]_vars
    BY DroppedStep DEF DroppedStays
  <1> QED  BY <1>1, SpecInvariant, PTL DEF Spec, DroppedNeverResumes

-----------------------------------------------------------------------------
\* The owners of a line.

Owning == {"MODIFIED", "EXCLUSIVE"}

\* No CPU but i becomes an owner of a, and none becomes one of another line.
OwnersShrink ==
    \A a \in Address, j \in CPU : j \in Owners(a)' => j \in Owners(a)

LEMMA ShrinkKeepsOneOwner ==
    ASSUME OneOwner, OwnersShrink
    PROVE  OneOwner'
  BY DEF OneOwner, OwnersShrink

\* A CPU whose line of b keeps its state or loses it becomes no owner of b.
LEMMA NotOwnerNext ==
    ASSUME NEW b, NEW j \in CPU, j \in Owners(b)',
           GetCurrentState(cache'[j], b) \in {GetCurrentState(cache[j], b), "INVALID"}
    PROVE  j \in Owners(b)
  <1>1. GetCurrentState(cache'[j], b) \in Owning
    BY DEF Owners, Owning
  <1> QED  BY <1>1 DEF Owners, Owning

\* After a broadcast the CPU that made it is the only one that can own a, as
\* long as no uninitialized nextState happens to be an owning state.
LEMMA BroadcastKeepsOneOwner ==
    ASSUME UninitStates \cap Owning = {}, AllSound, OneOwner,
           NEW i \in CPU, NEW a \in Address, NEW newState, NEW update,
           Broadcast(i, a, newState, update)
    PROVE  OneOwner'
  <1>1. /\ \A j \in CPU \ {i} : GetCurrentState(cache'[j], a)
                                \in SnoopedStates(update, GetCurrentState(cache[j], a))
        /\ \A j \in CPU : OthersKept(cache[j], cache'[j], a)
    BY BroadcastProperties
  <1>2. \A state : SnoopedStates(update, state) \cap Owning = {}
    BY DEF SnoopedStates, Owning
  <1>3. Owners(a)' \subseteq {i}
    BY <1>1, <1>2 DEF Owners, Owning
  <1>4. ASSUME NEW b \in Address, b # a, NEW j \in CPU, j \in Owners(b)'
        PROVE  j \in Owners(b)
    BY <1>1, <1>4, NotOwnerNext DEF OthersKept
  <1> QED  BY <1>3, <1>4 DEF OneOwner

LEMMA OneCacheShrinks ==
    ASSUME cache' = [cache EXCEPT ![cpu] = cache'[cpu]], cpu \in CPU, AllSound,
           \A b \in Address : GetCurrentState(cache'[cpu], b)
                              \in {GetCurrentState(cache[cpu], b), "INVALID"}
    PROVE  OwnersShrink
  <1>1. \A j \in CPU, b \in Address :
           GetCurrentState(cache'[j], b) \in {GetCurrentState(cache[j], b), "INVALID"}
    BY DEF AllSound
  <1> QED  BY <1>1, NotOwnerNext DEF OwnersShrink

LEMMA SameCacheShrinks ==
    ASSUME UNCHANGED cache
    PROVE  OwnersShrink
  BY NotOwnerNext DEF OwnersShrink

LEMMA ReadHitShrinks ==
    ASSUME IInv, NEW a \in Address, ReadHit(a)
    PROVE  OwnersShrink
  <1> DEFINE u == ReadFromCache(cache[cpu], a)
  <1>1. AllSound /\ cpu \in CPU /\ a \in DOMAIN cache[cpu].data
    BY IInvParts, CPUType, ResidentIfNotInvalid DEF ReadHit, Ready, ControlSound, CPU
  <1>2. cache' = [cache EXCEPT ![cpu] = u]
    BY DEF ReadHit
  <1>3. GetCurrentState(u, a) = GetCurrentState(cache[cpu], a) /\ OthersKept(cache[cpu], u, a)
    BY <1>1, ReadFromCacheProperties DEF AllSound
  <1> HIDE DEF u
  <1>4. cache'[cpu] = u
    BY <1>1, <1>2 DEF AllSound
  <1> QED  BY <1>1, <1>2, <1>3, <1>4, OneCacheShrinks DEF OthersKept

LEMMA WriteHitShrinks ==
    ASSUME IInv, NEW a \in Address, NEW d \in Data, WriteHit(a, d)
    PROVE  OwnersShrink
  <1> DEFINE u == WriteToCache(cache[cpu], a, d)
  <1>1. AllSound /\ cpu \in CPU
    BY IInvParts, CPUType DEF WriteHit, Ready, ControlSound, CPU
  <1>2. cache' = [cache EXCEPT ![cpu] = u]
    BY DEF WriteHit
  <1>3. GetCurrentState(u, a) = GetCurrentState(cache[cpu], a) /\ OthersKept(cache[cpu], u, a)
    BY <1>1, WriteToCacheProperties DEF AllSound
  <1> HIDE DEF u
  <1>4. cache'[cpu] = u
    BY <1>1, <1>2 DEF AllSound
  <1> QED  BY <1>1, <1>2, <1>3, <1>4, OneCacheShrinks DEF OthersKept

LEMMA ReadMissSharedShrinks ==
    ASSUME IInv, NEW a \in Address, ReadMissShared(a)
    PROVE  OwnersShrink
  <1> DEFINE h == Nth(Holders(cpu, a), 1)
             v == ReadValue(cache[h], a)
             w == WriteToCache(cache[cpu], a, v)
             u == ReadFromCache(cache[h], a)
  <1>1. AllSound /\ cpu \in CPU
    BY IInvParts, CPUType DEF ReadMissShared, Ready, ControlSound, CPU
  <1>2. h \in CPU /\ h # cpu /\ GetCurrentState(cache[h], a) \in Valid
    BY <1>1, FirstHolder DEF ReadMissShared
  <1>3. cache' = [cache EXCEPT ![cpu] = w, ![h] = u]
    BY <1>2 DEF ReadMissShared
  <1>4. a \in DOMAIN cache[h].data
    BY <1>2, ResidentIfNotInvalid DEF Valid
  <1> HIDE DEF h
  <1>5. /\ GetCurrentState(u, a) = GetCurrentState(cache[h], a)
        /\ OthersKept(cache[h], u, a) /\ v \in Data
    BY <1>1, <1>2, <1>4, ReadFromCacheProperties DEF AllSound
  <1>6. /\ GetCurrentState(w, a) = GetCurrentState(cache[cpu], a)
        /\ OthersKept(cache[cpu], w, a)
    BY <1>1, <1>5, WriteToCacheProperties DEF AllSound
  <1> HIDE DEF u, v, w
  <1>7. \A j \in CPU : cache'[j] = IF j = cpu THEN w ELSE IF j = h THEN u ELSE cache[j]
    BY <1>1, <1>2, <1>3 DEF AllSound
  <1>8. \A j \in CPU, b \in Address :
           GetCurrentState(cache'[j], b) \in {GetCurrentState(cache[j], b), "INVALID"}
    BY <1>5, <1>6, <1>7 DEF OthersKept
  <1> QED  BY <1>8, NotOwnerNext DEF OwnersShrink

LEMMA OwnersStep ==
    ASSUME UninitStates \cap Owning = {}, IInv, [Next]_vars, OneOwner, pc # "snoop"
    PROVE  OneOwner'
  <1>1. ASSUME NEW a \in Address, ReadHit(a) \/ ReadMissShared(a) PROVE OneOwner'
    BY <1>1, ReadHitShrinks, ReadMissSharedShrinks, ShrinkKeepsOneOwner
  <1>2. ASSUME NEW a \in Address, NEW d \in Data, WriteHit(a, d) PROVE OneOwner'
    BY <1>2, WriteHitShrinks, ShrinkKeepsOneOwner
  <1>3. ASSUME UNCHANGED cache PROVE OneOwner'
    BY <1>3, SameCacheShrinks, ShrinkKeepsOneOwner
  <1>4. ASSUME NEW a \in Address, NEW d \in Data, ReadMissMemory(a) \/ WriteMiss(a, d)
        PROVE  UNCHANGED cache
    BY <1>4 DEF ReadMissMemory, WriteMiss
  <1>5. ASSUME SkipWaiting \/ GrantBus \/ NoGrant \/ UNCHANGED vars
        PROVE  UNCHANGED cache
    BY <1>5 DEF SkipWaiting, GrantBus, NoGrant, vars
  <1>6. ASSUME UpdateState PROVE OneOwner'
    <2>1. AllSound /\ cpu \in CPU /\ access.address \in Address
      BY <1>6, IInvParts DEF UpdateState, ControlSound, Control, Access
    <2> QED  BY <1>6, <2>1, BroadcastKeepsOneOwner DEF UpdateState
  <1>7. ASSUME ServeBus PROVE OneOwner'
    <2> DEFINE p == currentProcessorID
               r == RequestOf(p)
    <2>1. AllSound /\ BusSound /\ p # NoCPU
      BY <1>7, IInvParts DEF ServeBus, ControlSound, Control
    <2>2. p \in CPU /\ r.address \in Address
      BY <2>1, HolderIsFirst, RequestOfProperties DEF BusSound
    <2> QED  BY <1>7, <2>1, <2>2, BroadcastKeepsOneOwner DEF ServeBus
  <1>8. ~(SnoopSkip \/ SnoopModified \/ QueueWrite)
    BY DEF SnoopSkip, SnoopModified, QueueWrite
  <1>9. 0 \in Data
    BY CPUType
  <1> QED  BY <1>1, <1>2, <1>3, <1>4, <1>5, <1>6, <1>7, <1>8, <1>9 DEF Next

\* When a nextState that updateSnoopingState leaves uninitialized is not by
\* chance MODIFIED or EXCLUSIVE, the only step that can give a line a second
\* owner is handleBusRequest called from snoopWrite, which tells no one.
THEOREM SpecOnlySnoopMakesTwoOwners ==
    ASSUME UninitStates \cap Owning = {}
    PROVE  Spec => OnlySnoopMakesTwoOwners
  <1>1. IInv /\ [Next]_vars => [OneOwner /\ pc # "snoop" => OneOwner']_vars
    BY OwnersStep
  <1> QED  BY <1>1, SpecInvariant, PTL DEF Spec, OnlySnoopMakesTwoOwners

\* snoopWrite's step, with one address: the request it carries out is for the
\* line the holder owns, which so becomes INVALID.
LEMMA SnoopedHolderLeaves ==
    ASSUME Address = {0}, IInv, SnoopModified
    PROVE  OwnersShrink
  <1> DEFINE r == RequestOf(snooped)
             c == cache[snooped]
             newState == NextState(GetCurrentState(c, r.address), r.isRead, FALSE,
                                   shareFlag[snooped])
             u == SetCurrentState(c, r.address, newState)
  <1>1. AllSound /\ BusSound /\ ControlSound /\ snooped \in CPU /\ cpu \in CPU
    BY IInvParts, CPUType DEF SnoopModified, ControlSound, Control, CPU
  <1>2. r.address = 0 /\ access.address = 0
    BY <1>1, RequestOfProperties DEF BusSound, ControlSound, Access
  <1>3. GetCurrentState(c, r.address) = "MODIFIED"
    BY <1>2 DEF SnoopModified, SnoopHits
  <1>4. newState = "INVALID"
    BY <1>3 DEF NextState
  <1>5. cache' = [cache EXCEPT ![snooped] = u]
    BY DEF SnoopModified
  <1> HIDE DEF r, newState
  <1>6. GetCurrentState(u, 0) = "INVALID"
    <2>1. Sound(c, Address, Data) /\ r.address \in Address /\ 0 \in Data
      BY <1>1, <1>2, CPUType DEF AllSound
    <2>2. newState \in LineState
      BY <1>4 DEF LineState, CacheState
    <2> HIDE DEF c
    <2>3. GetCurrentState(u, r.address) = newState
      BY <2>1, <2>2, SetCurrentStateProperties
    <2> QED  BY <1>2, <1>4, <2>3
  <1> HIDE DEF u, c
  <1>7. \A j \in CPU, b \in Address :
           GetCurrentState(cache'[j], b) \in {GetCurrentState(cache[j], b), "INVALID"}
    BY <1>1, <1>5, <1>6 DEF AllSound
  <1> QED  BY <1>7, NotOwnerNext DEF OwnersShrink

\* With one address a line never has two owners, whatever the uninitialized
\* updates are, as long as no uninitialized nextState is an owning state: no
\* CPU can have a request for a line other than the one it owns.
THEOREM SpecOneOwner ==
    ASSUME Address = {0}, UninitStates \cap Owning = {}
    PROVE  Spec => []OneOwner
  <1>1. Init => OneOwner
    <2> SUFFICES ASSUME Init PROVE OneOwner
      OBVIOUS
    <2>1. \A i \in CPU, a \in Address : GetCurrentState(cache[i], a) = "INVALID"
      BY DEF Init, EmptyCache, GetCurrentState
    <2> QED  BY <2>1 DEF OneOwner, Owners
  <1>2. IInv /\ OneOwner /\ [Next]_vars => OneOwner'
    <2> SUFFICES ASSUME IInv, OneOwner, [Next]_vars, pc = "snoop" PROVE OneOwner'
      BY OwnersStep
    <2>1. SnoopModified \/ UNCHANGED cache
      BY DEF Next, SkipWaiting, ReadHit, ReadMissShared, ReadMissMemory, WriteHit,
             WriteMiss, Ready, SnoopSkip, QueueWrite, UpdateState, GrantBus, NoGrant,
             ServeBus, vars
    <2> QED  BY <2>1, SnoopedHolderLeaves, SameCacheShrinks, ShrinkKeepsOneOwner
  <1> QED  BY <1>1, <1>2, SpecInvariant, PTL DEF Spec

-----------------------------------------------------------------------------
\* The coherence of a line.

\* At CPU i the line of a is no longer valid, or it is in the same state with
\* the same datum, or with a datum that i is about to tell.
LineKept(i, a) ==
    \/ GetCurrentState(cache'[i], a) \notin Valid
    \/ /\ GetCurrentState(cache'[i], a) = GetCurrentState(cache[i], a)
       /\ cache'[i].data[a].data = cache[i].data[a].data \/ AboutToTell(i, a)'

LEMMA KeptStaysCoherent ==
    ASSUME NEW a \in Address, Coherent(a),
           \A i \in CPU : LineKept(i, a) /\ ~AboutToTell(i, a)
    PROVE  Coherent(a)'
  <1>1. \A i \in CPU : GetCurrentState(cache'[i], a) \in Valid =>
           /\ GetCurrentState(cache[i], a) = GetCurrentState(cache'[i], a)
           /\ cache'[i].data[a].data = cache[i].data[a].data \/ AboutToTell(i, a)'
    BY DEF LineKept
  <1>2. OwnedAlone(a)'
    BY <1>1 DEF OwnedAlone, Owners, Holders, Valid, Coherent
  <1>3. HoldersAgree(a)'
    BY <1>1 DEF HoldersAgree, Coherent
  <1> QED  BY <1>2, <1>3 DEF Coherent

\* What an operation on the line of a leaves of another line.
LEMMA OtherLineKept ==
    ASSUME NEW a, NEW b, b # a, NEW i \in CPU,
           OthersKept(cache[i], cache'[i], a), LinesKept(cache[i], cache'[i], a)
    PROVE  LineKept(i, b)
  <1>1. CASE GetCurrentState(cache'[i], b) \in Valid
    <2>1. b \in DOMAIN cache'[i].data
      BY <1>1 DEF GetCurrentState, Valid
    <2>2. cache'[i].data[b] = cache[i].data[b]
      BY <2>1 DEF LinesKept
    <2>3. GetCurrentState(cache'[i], b) = GetCurrentState(cache[i], b)
      BY <1>1 DEF OthersKept, Valid
    <2> QED  BY <2>2, <2>3 DEF LineKept
  <1> QED  BY <1>1 DEF LineKept

LEMMA SameLineKept ==
    ASSUME NEW a, NEW i \in CPU, cache'[i] = cache[i]
    PROVE  LineKept(i, a)
  BY DEF LineKept

LEMMA SameCachesStayCoherent ==
    ASSUME UNCHANGED cache, pc # "update", NEW a \in Address, Coherent(a)
    PROVE  Coherent(a)'
  <1>1. \A i \in CPU : LineKept(i, a) /\ ~AboutToTell(i, a)
    BY DEF LineKept, AboutToTell
  <1> QED  BY <1>1, KeptStaysCoherent

\* Whether the line that is being filled has come from another cache, or no
\* other cache has it.
Filled ==
    pc = "update" /\ access.isRead /\ ~access.isHit =>
        LET a == access.address
        IN  IF access.shared
            THEN /\ a \in DOMAIN cache[cpu].data
                 /\ \E h \in Holders(cpu, a) :
                       cache[cpu].data[a].data = cache[h].data[a].data
            ELSE Holders(cpu, a) = {}

LEMMA ReadHitStaysCoherent ==
    ASSUME IInv, NEW a \in Address, ReadHit(a), NEW b \in Address, Coherent(b)
    PROVE  Coherent(b)'
  <1> DEFINE u == ReadFromCache(cache[cpu], a)
  <1>1. AllSound /\ cpu \in CPU /\ a \in DOMAIN cache[cpu].data
    BY IInvParts, CPUType, ResidentIfNotInvalid DEF ReadHit, Ready, ControlSound, CPU
  <1>2. cache' = [cache EXCEPT ![cpu] = u]
    BY DEF ReadHit
  <1>3. /\ GetCurrentState(u, a) = GetCurrentState(cache[cpu], a)
        /\ u.data[a] = cache[cpu].data[a]
        /\ OthersKept(cache[cpu], u, a) /\ LinesKept(cache[cpu], u, a)
    BY <1>1, ReadFromCacheProperties DEF AllSound
  <1> HIDE DEF u
  <1>4. cache'[cpu] = u /\ \A i \in CPU \ {cpu} : cache'[i] = cache[i]
    BY <1>1, <1>2 DEF AllSound
  <1>5. LineKept(cpu, b)
    <2>1. LineKept(cpu, a)
      BY <1>3, <1>4 DEF LineKept
    <2> QED  BY <1>1, <1>3, <1>4, <2>1, OtherLineKept
  <1>6. \A i \in CPU : LineKept(i, b)
    BY <1>4, <1>5, SameLineKept
  <1>7. pc = "access" /\ pc' = "update" /\ access'.isHit
    BY DEF ReadHit, Ready, GoToUpdate
  <1>8. \A i \in CPU : ~AboutToTell(i, b)
    BY <1>7 DEF AboutToTell
  <1> QED  BY <1>6, <1>7, <1>8, KeptStaysCoherent

LEMMA WriteHitStaysCoherent ==
    ASSUME IInv, NEW a \in Address, NEW d \in Data, WriteHit(a, d),
           NEW b \in Address, Coherent(b)
    PROVE  Coherent(b)'
  <1> DEFINE u == WriteToCache(cache[cpu], a, d)
  <1>1. AllSound /\ cpu \in CPU
    BY IInvParts, CPUType DEF WriteHit, Ready, ControlSound, CPU
  <1>2. cache' = [cache EXCEPT ![cpu] = u]
    BY DEF WriteHit
  <1>3. /\ GetCurrentState(u, a) = GetCurrentState(cache[cpu], a)
        /\ OthersKept(cache[cpu], u, a) /\ LinesKept(cache[cpu], u, a)
    BY <1>1, WriteToCacheProperties DEF AllSound
  <1> HIDE DEF u
  <1>4. cache'[cpu] = u /\ \A i \in CPU \ {cpu} : cache'[i] = cache[i]
    BY <1>1, <1>2 DEF AllSound
  <1>5. /\ pc = "access" /\ pc' = "update" /\ cpu' = cpu
        /\ access'.isHit /\ ~access'.isRead /\ access'.address = a
    BY DEF WriteHit, Ready, GoToUpdate
  <1>6. AboutToTell(cpu, a)'
    BY <1>5 DEF AboutToTell
  <1>7. LineKept(cpu, b)
    <2>1. LineKept(cpu, a)
      BY <1>3, <1>4, <1>6 DEF LineKept
    <2> QED  BY <1>1, <1>3, <1>4, <2>1, OtherLineKept
  <1>8. \A i \in CPU : LineKept(i, b)
    BY <1>4, <1>7, SameLineKept
  <1>9. \A i \in CPU : ~AboutToTell(i, b)
    BY <1>5 DEF AboutToTell
  <1> QED  BY <1>5, <1>8, <1>9, KeptStaysCoherent

LEMMA ReadMissSharedFillsCoherently ==
    ASSUME IInv, NEW a \in Address, ReadMissShared(a)
    PROVE  Filled' /\ \A b \in Address : Coherent(b) => Coherent(b)'
  <1> DEFINE h == Nth(Holders(cpu, a), 1)
             v == ReadValue(cache[h], a)
             w == WriteToCache(cache[cpu], a, v)
             u == ReadFromCache(cache[h], a)
  <1>1. AllSound /\ cpu \in CPU
    BY IInvParts, CPUType DEF ReadMissShared, Ready, ControlSound, CPU
  <1>2. h \in CPU /\ h # cpu /\ GetCurrentState(cache[h], a) \in Valid
    BY <1>1, FirstHolder DEF ReadMissShared
  <1>3. cache' = [cache EXCEPT ![cpu] = w, ![h] = u]
    BY <1>2 DEF ReadMissShared
  <1>4. a \in DOMAIN cache[h].data /\ GetCurrentState(cache[cpu], a) = "INVALID"
    BY <1>2, ResidentIfNotInvalid DEF Valid, ReadMissShared
  <1> HIDE DEF h
  <1>5. /\ GetCurrentState(u, a) = GetCurrentState(cache[h], a)
        /\ u.data[a] = cache[h].data[a]
        /\ OthersKept(cache[h], u, a) /\ LinesKept(cache[h], u, a)
        /\ v \in Data /\ v = cache[h].data[a].data
    BY <1>1, <1>2, <1>4, ReadFromCacheProperties DEF AllSound
  <1> HIDE DEF v
  <1>6. /\ GetCurrentState(w, a) = GetCurrentState(cache[cpu], a)
        /\ a \in DOMAIN w.data /\ w.data[a].data = v
        /\ OthersKept(cache[cpu], w, a) /\ LinesKept(cache[cpu], w, a)
    BY <1>1, <1>5, WriteToCacheProperties DEF AllSound
  <1> HIDE DEF u, w
  <1>7. /\ cache'[cpu] = w /\ cache'[h] = u
        /\ \A i \in CPU \ {cpu, h} : cache'[i] = cache[i]
    BY <1>1, <1>2, <1>3 DEF AllSound
  <1>8. /\ pc = "access" /\ pc' = "update" /\ cpu' = cpu
        /\ access'.address = a /\ access'.shared
    BY DEF ReadMissShared, Ready, GoToUpdate
  <1>9. h \in Holders(cpu, a)'
    BY <1>2, <1>5, <1>7, <1>8 DEF Holders
  <1>10. Filled'
    BY <1>5, <1>6, <1>7, <1>8, <1>9 DEF Filled
  <1>11. ASSUME NEW b \in Address, Coherent(b) PROVE Coherent(b)'
    <2>1. LineKept(cpu, b)
      <3>1. LineKept(cpu, a)
        BY <1>4, <1>6, <1>7 DEF LineKept, Valid
      <3> QED  BY <1>1, <1>6, <1>7, <3>1, OtherLineKept
    <2>2. LineKept(h, b)
      <3>1. LineKept(h, a)
        BY <1>5, <1>7 DEF LineKept
      <3> QED  BY <1>2, <1>5, <1>7, <3>1, OtherLineKept
    <2>3. \A i \in CPU : LineKept(i, b)
      BY <1>7, <2>1, <2>2, SameLineKept
    <2>4. \A i \in CPU : ~AboutToTell(i, b)
      BY <1>8 DEF AboutToTell
    <2> QED  BY <1>11, <2>3, <2>4, KeptStaysCoherent
  <1> QED  BY <1>10, <1>11

\* After a broadcast the other caches that hold a validly held it before, and
\* share it since a read miss.
LEMMA BroadcastHolders ==
    ASSUME UninitStates \cap Valid = {}, AllSound,
           NEW i \in CPU, NEW a \in Address, NEW newState, NEW update,
           Broadcast(i, a, newState, update),
           NEW j \in CPU, j # i, GetCurrentState(cache'[j], a) \in Valid
    PROVE  /\ update = "READMISS" /\ j \in Holders(i, a)
           /\ GetCurrentState(cache'[j], a) = "SHARED"
           /\ cache'[j].data[a].data = cache[j].data[a].data
  <1>1. /\ GetCurrentState(cache'[j], a) \in SnoopedStates(update, GetCurrentState(cache[j], a))
        /\ a \in DOMAIN cache[j].data => cache'[j].data[a].data = cache[j].data[a].data
    BY BroadcastProperties
  <1>2. /\ update = "READMISS" /\ GetCurrentState(cache[j], a) \in Valid
        /\ GetCurrentState(cache'[j], a) = "SHARED"
    <2>1. "INVALID" \notin Valid
      BY DEF Valid
    <2>2. CASE update = "READMISS" /\ GetCurrentState(cache[j], a) \in Valid
      BY <1>1, <2>2 DEF SnoopedStates
    <2>3. CASE ~(update = "READMISS" /\ GetCurrentState(cache[j], a) \in Valid)
      <3>1. SnoopedStates(update, GetCurrentState(cache[j], a)) \cap Valid = {}
        BY <2>1, <2>3 DEF SnoopedStates
      <3> QED  BY <1>1, <3>1
    <2> QED  BY <2>2, <2>3
  <1>3. j \in Holders(i, a) /\ a \in DOMAIN cache[j].data
    BY <1>2 DEF Holders, GetCurrentState, Valid
  <1> QED  BY <1>1, <1>2, <1>3

LEMMA BroadcastStaysCoherent ==
    ASSUME UninitStates \cap Valid = {}, AllSound,
           NEW i \in CPU, NEW a \in Address, NEW newState, NEW update,
           Broadcast(i, a, newState, update),
           HoldersAgree(a), \A j \in CPU : j # i => ~AboutToTell(j, a),
           newState \in Valid /\ update = "READMISS" =>
               \A h \in Holders(i, a) :
                  /\ newState = "SHARED"
                  /\ cache'[i].data[a].data = cache[h].data[a].data
    PROVE  Coherent(a)'
  <1>1. GetCurrentState(cache'[i], a) = newState
    BY BroadcastProperties
  <1>2. \A j \in CPU \ {i} : GetCurrentState(cache'[j], a) \in Valid =>
           /\ update = "READMISS" /\ j \in Holders(i, a)
           /\ GetCurrentState(cache'[j], a) = "SHARED"
           /\ cache'[j].data[a].data = cache[j].data[a].data
    BY BroadcastHolders
  <1>3. OwnedAlone(a)'
    <2>1. SUFFICES ASSUME NEW o \in CPU, GetCurrentState(cache'[o], a) \in {"MODIFIED", "EXCLUSIVE"},
                          NEW j \in CPU \ {o}, GetCurrentState(cache'[j], a) \in Valid
                   PROVE  FALSE
      BY DEF OwnedAlone, Owners, Holders
    <2>2. o = i
      BY <1>2, <2>1 DEF Valid
    <2> QED  BY <1>1, <1>2, <2>1, <2>2 DEF Valid
  <1>4. \A j \in CPU \ {i} : j \in Holders(i, a) => GetCurrentState(cache[j], a) \in Valid
    BY DEF Holders
  <1>5. HoldersAgree(a)'
    <2>1. SUFFICES ASSUME NEW j \in CPU, NEW k \in CPU,
                          GetCurrentState(cache'[j], a) \in Valid,
                          GetCurrentState(cache'[k], a) \in Valid
                   PROVE  cache'[j].data[a].data = cache'[k].data[a].data
      BY DEF HoldersAgree
    <2>2. CASE j # i /\ k # i
      BY <1>2, <1>4, <2>1, <2>2 DEF HoldersAgree
    <2>3. CASE j = i \/ k = i
      BY <1>1, <1>2, <2>1, <2>3
    <2> QED  BY <2>2, <2>3
  <1> QED  BY <1>3, <1>5 DEF Coherent

LEMMA BroadcastElsewhereStaysCoherent ==
    ASSUME AllSound, NEW i \in CPU, NEW a \in Address, NEW newState, NEW update,
           Broadcast(i, a, newState, update),
           NEW b \in Address, b # a, Coherent(b), \A j \in CPU : ~AboutToTell(j, b)
    PROVE  Coherent(b)'
  <1>1. \A j \in CPU : OthersKept(cache[j], cache'[j], a) /\ LinesKept(cache[j], cache'[j], a)
    BY BroadcastProperties
  <1>2. \A j \in CPU : LineKept(j, b)
    BY <1>1, OtherLineKept
  <1> QED  BY <1>2, KeptStaysCoherent

LEMMA UpdateStateStaysCoherent ==
    ASSUME UninitStates \cap Valid = {}, IInv, Filled, UpdateState,
           NEW b \in Address, Coherent(b)
    PROVE  Coherent(b)'
  <1> DEFINE a == access.address
             state == GetCurrentState(cache[cpu], a)
             newState == NextState(state, access.isRead, access.isHit, access.shared)
  <1>1. AllSound /\ cpu \in CPU /\ a \in Address /\ pc = "update" /\ pc' = "access"
    BY IInvParts DEF UpdateState, ControlSound, Control, Access
  <1>2. PICK update \in SnoopingUpdates(state, access.isRead, access.isHit) :
           Broadcast(cpu, a, newState, update)
    BY DEF UpdateState
  <1>3. access.isRead \in BOOLEAN /\ access.isHit \in BOOLEAN /\ access.shared \in BOOLEAN
    BY IInvParts DEF ControlSound, Access
  <1>4. CASE b # a
    <2>1. \A j \in CPU : ~AboutToTell(j, b)
      BY <1>4 DEF AboutToTell
    <2> QED  BY <1>1, <1>2, <1>4, <2>1, BroadcastElsewhereStaysCoherent
  <1>5. CASE b = a
    <2>1. \A j \in CPU : j # cpu => ~AboutToTell(j, a)
      BY DEF AboutToTell
    <2>2. /\ a \in DOMAIN cache[cpu].data => cache'[cpu].data[a].data = cache[cpu].data[a].data
          /\ state \in Valid => a \in DOMAIN cache[cpu].data
      <3>1. state \in Valid => a \in DOMAIN cache[cpu].data
        BY DEF GetCurrentState, Valid
      <3> QED  BY <1>1, <1>2, <3>1, BroadcastProperties
    <2>3. OwnedAlone(a) /\ HoldersAgree(a)
      BY <1>5 DEF Coherent
    <2>4. state \in {"MODIFIED", "EXCLUSIVE"} => Holders(cpu, a) = {}
      BY <1>1, <2>3 DEF OwnedAlone, Owners
    <2> SUFFICES ASSUME newState \in Valid, update = "READMISS", NEW h \in Holders(cpu, a)
                 PROVE  newState = "SHARED" /\ cache'[cpu].data[a].data = cache[h].data[a].data
      BY <1>1, <1>2, <1>5, <2>1, <2>3, BroadcastStaysCoherent
    <2>5. h \in CPU /\ h # cpu /\ GetCurrentState(cache[h], a) \in Valid
      BY DEF Holders
    <2>6. state \notin {"MODIFIED", "EXCLUSIVE"}
      BY <2>4
    <2>7. CASE access.isHit
      <3>1. state = "SHARED" /\ access.isRead
        BY <1>2, <1>3, <2>6, <2>7 DEF NextState, SnoopingUpdates, Valid
      <3>2. newState = "SHARED"
        BY <2>7, <3>1 DEF NextState
      <3>3. ~AboutToTell(cpu, a) /\ ~AboutToTell(h, a)
        BY <3>1 DEF AboutToTell
      <3>4. cache[cpu].data[a].data = cache[h].data[a].data
        BY <1>1, <2>3, <2>5, <3>1, <3>3 DEF HoldersAgree, Valid
      <3> QED  BY <2>2, <3>1, <3>2, <3>4 DEF Valid
    <2>8. CASE ~access.isHit
      <3>1. state = "INVALID" /\ access.isRead
        BY <1>2, <1>3, <2>6, <2>8 DEF NextState, SnoopingUpdates, Valid
      <3>2. /\ access.shared /\ a \in DOMAIN cache[cpu].data
            /\ \E k \in Holders(cpu, a) :
                  cache[cpu].data[a].data = cache[k].data[a].data
        BY <1>1, <2>8, <3>1 DEF Filled
      <3>3. newState = "SHARED"
        BY <2>8, <3>1, <3>2 DEF NextState
      <3>4. PICK k \in Holders(cpu, a) : cache[cpu].data[a].data = cache[k].data[a].data
        BY <3>2
      <3>5. k \in CPU /\ GetCurrentState(cache[k], a) \in Valid
        BY DEF Holders
      <3>6. ~AboutToTell(k, a) /\ ~AboutToTell(h, a)
        BY <2>8 DEF AboutToTell
      <3>7. cache[k].data[a].data = cache[h].data[a].data
        BY <2>3, <2>5, <3>5, <3>6 DEF HoldersAgree
      <3> QED  BY <2>2, <3>2, <3>3, <3>4, <3>7
    <2> QED  BY <1>3, <2>7, <2>8
  <1> QED  BY <1>4, <1>5

LEMMA ServeBusStaysCoherent ==
    ASSUME UninitStates \cap Valid = {}, IInv, ServeBus,
           NEW b \in Address, Coherent(b), ~ServesStale(b)
    PROVE  Coherent(b)'
  <1> DEFINE p == currentProcessorID
             r == RequestOf(p)
             a == r.address
             state == GetCurrentState(cache[p], a)
             newState == NextState(state, r.isRead, FALSE, shareFlag[p])
  <1>1. AllSound /\ BusSound /\ p # NoCPU /\ pc = "serve"
    BY IInvParts DEF ServeBus, ControlSound, Control
  <1>2. p \in CPU /\ a \in Address /\ r.isRead \in BOOLEAN
    BY <1>1, HolderIsFirst, RequestOfProperties DEF BusSound
  <1>3. PICK update \in SnoopingUpdates(state, r.isRead, FALSE) :
           Broadcast(p, a, newState, update)
    BY DEF ServeBus
  <1>4. \A j \in CPU : ~AboutToTell(j, b)
    BY <1>1 DEF AboutToTell
  <1>5. CASE b # a
    BY <1>1, <1>2, <1>3, <1>4, <1>5, BroadcastElsewhereStaysCoherent
  <1>6. CASE b = a
    <2>1. ~(state = "INVALID" /\ r.isRead /\ Holders(p, a) # {})
      BY <1>1, <1>6 DEF ServesStale, IsStale
    <2>2. newState \in Valid /\ update = "READMISS" => Holders(p, a) = {}
      <3>1. newState \in Valid => state = "INVALID"
        BY DEF NextState, Valid
      <3>2. state = "INVALID" /\ update = "READMISS" => r.isRead
        BY <1>2, <1>3 DEF SnoopingUpdates
      <3> QED  BY <2>1, <3>1, <3>2
    <2> QED  BY <1>1, <1>2, <1>3, <1>4, <1>6, <2>2, BroadcastStaysCoherent DEF Coherent
  <1> QED  BY <1>5, <1>6

LEMMA StateSet ==
    ASSUME NEW c, Sound(c, Address, Data), NEW a \in Address,
           NEW newState \in LineState
    PROVE  /\ GetCurrentState(SetCurrentState(c, a, newState), a) = newState
           /\ OthersKept(c, SetCurrentState(c, a, newState), a)
           /\ LinesKept(c, SetCurrentState(c, a, newState), a)
  <1>1. 0 \in Data
    BY SystemAssumption
  <1> DEFINE u == SetCurrentState(c, a, newState)
  <1> HIDE DEF u
  <1>2. u = SetCurrentState(c, a, newState)
    BY DEF u
  <1>3. GetCurrentState(u, a) = newState
    BY <1>1, <1>2, SetCurrentStateProperties
  <1>4. OthersKept(c, u, a)
    BY <1>1, <1>2, SetCurrentStateProperties
  <1>5. LinesKept(c, u, a)
    BY <1>1, <1>2, SetCurrentStateProperties
  <1> QED  BY <1>2, <1>3, <1>4, <1>5

LEMMA SnoopModifiedStaysCoherent ==
    ASSUME IInv, SnoopModified, NEW b \in Address, Coherent(b), ~ServesStale(b)
    PROVE  Coherent(b)'
  <1> DEFINE p == snooped
             r == RequestOf(p)
             a == r.address
             state == GetCurrentState(cache[p], a)
             newState == NextState(state, r.isRead, FALSE, shareFlag[p])
             u == SetCurrentState(cache[p], a, newState)
  <1>1. AllSound /\ BusSound /\ p \in CPU /\ pc = "snoop"
    BY IInvParts, CPUType DEF SnoopModified, ControlSound, CPU
  <1>2. a \in Address
    BY <1>1, RequestOfProperties DEF BusSound
  <1>3. cache' = [cache EXCEPT ![p] = u]
    BY DEF SnoopModified
  <1>4. newState \in LineState
    BY <1>1, CurrentStateType, NextStateType DEF AllSound, Sound
  <1>5. ~(a = b /\ state = "INVALID" /\ Holders(p, a) # {})
    BY DEF SnoopModified, ServesStale, IsStale
  <1>6. newState \in Valid => state = "INVALID"
    BY DEF NextState, Valid
  <1> HIDE DEF newState
  <1>7. Sound(cache[p], Address, Data) /\ 0 \in Data
    BY <1>1, CPUType, SystemAssumption DEF AllSound
  <1>8. /\ GetCurrentState(u, a) = newState
        /\ OthersKept(cache[p], u, a) /\ LinesKept(cache[p], u, a)
    BY <1>2, <1>4, <1>7, StateSet
  <1> HIDE DEF u
  <1>9. cache'[p] = u /\ \A i \in CPU \ {p} : cache'[i] = cache[i]
    BY <1>1, <1>3 DEF AllSound
  <1>10. \A i \in CPU : ~AboutToTell(i, b)
    BY <1>1 DEF AboutToTell
  <1>11. \A i \in CPU \ {p} : LineKept(i, b)
    BY <1>9, SameLineKept
  <1>12. CASE b # a \/ newState \notin Valid
    <2>1. LineKept(p, b)
      <3>1. CASE b # a
        BY <1>1, <1>8, <1>9, <3>1, OtherLineKept
      <3>2. CASE b = a /\ newState \notin Valid
        BY <1>8, <1>9, <3>2 DEF LineKept
      <3> QED  BY <1>12, <3>1, <3>2
    <2> QED  BY <1>10, <1>11, <2>1, KeptStaysCoherent
  <1>13. CASE b = a /\ newState \in Valid
    <2>1. Holders(p, b) = {}
      BY <1>5, <1>6, <1>13
    <2>2. \A i \in CPU : GetCurrentState(cache'[i], b) \in Valid => i = p
      BY <1>9, <2>1 DEF Holders
    <2>3. OwnedAlone(b)' /\ HoldersAgree(b)'
      BY <2>2 DEF OwnedAlone, Owners, Holders, HoldersAgree, Valid
    <2> QED  BY <2>3 DEF Coherent
  <1> QED  BY <1>12, <1>13

\* Filled holds because nothing happens between an access and its update.
LEMMA InitFilled == Init => Filled
  BY DEF Init, Filled

LEMMA NextFilled ==
    ASSUME IInv, Filled, [Next]_vars
    PROVE  Filled'
  <1>1. ASSUME NEW a \in Address, ReadHit(a) PROVE Filled'
    BY <1>1 DEF ReadHit, GoToUpdate, Filled
  <1>2. ASSUME NEW a \in Address, NEW d \in Data, WriteHit(a, d) \/ WriteMiss(a, d)
        PROVE  Filled'
    BY <1>2 DEF WriteHit, WriteMiss, GoToUpdate, Filled
  <1>3. ASSUME NEW a \in Address, ReadMissShared(a) PROVE Filled'
    BY <1>3, ReadMissSharedFillsCoherently
  <1>4. ASSUME NEW a \in Address, ReadMissMemory(a) PROVE Filled'
    BY <1>4 DEF ReadMissMemory, GoToUpdate, Filled, Holders
  <1>5. ASSUME SkipWaiting \/ SnoopSkip \/ SnoopModified \/ GrantBus \/ NoGrant \/ ServeBus
               \/ UpdateState
        PROVE  Filled'
    BY <1>5 DEF SkipWaiting, SnoopSkip, SnoopModified, GrantBus, NoGrant, ServeBus, EndRound,
                UpdateState, Filled
  <1>6. ASSUME QueueWrite PROVE Filled'
    BY <1>6 DEF QueueWrite, GoToUpdate, Filled
  <1>7. ASSUME UNCHANGED vars PROVE Filled'
    BY <1>7 DEF vars, Filled, Holders
  <1> QED  BY <1>1, <1>2, <1>3, <1>4, <1>5, <1>6, <1>7 DEF Next

LEMMA CoherentStep ==
    ASSUME UninitStates \cap Valid = {}, IInv, Filled, [Next]_vars,
           NEW b \in Address, Coherent(b), ~ServesStale(b)
    PROVE  Coherent(b)'
  <1>1. ASSUME NEW a \in Address, ReadHit(a) \/ ReadMissShared(a) PROVE Coherent(b)'
    BY <1>1, ReadHitStaysCoherent, ReadMissSharedFillsCoherently
  <1>2. ASSUME NEW a \in Address, NEW d \in Data, WriteHit(a, d) PROVE Coherent(b)'
    BY <1>2, WriteHitStaysCoherent
  <1>3. ASSUME NEW a \in Address, NEW d \in Data, ReadMissMemory(a) \/ WriteMiss(a, d)
        PROVE  UNCHANGED cache /\ pc # "update"
    BY <1>3 DEF ReadMissMemory, WriteMiss, Ready
  <1>4. ASSUME SkipWaiting \/ SnoopSkip \/ QueueWrite \/ GrantBus \/ NoGrant
        PROVE  UNCHANGED cache /\ pc # "update"
    BY <1>4 DEF SkipWaiting, SnoopSkip, QueueWrite, GrantBus, NoGrant
  <1>5. ASSUME UNCHANGED vars PROVE Coherent(b)'
    BY <1>5 DEF vars, Coherent, OwnedAlone, HoldersAgree, Owners, Holders, AboutToTell
  <1>6. ASSUME UpdateState \/ ServeBus \/ SnoopModified PROVE Coherent(b)'
    BY <1>6, UpdateStateStaysCoherent, ServeBusStaysCoherent, SnoopModifiedStaysCoherent
  <1>7. 0 \in Data
    BY CPUType
  <1> QED  BY <1>1, <1>2, <1>3, <1>4, <1>5, <1>6, <1>7, SameCachesStayCoherent DEF Next

\* When an uninitialized nextState is by no chance one of the valid states, a
\* coherent line stays coherent until handleBusRequest carries out a stale
\* request for it, for any number of caches, of lines in them, of addresses
\* and of data, and whatever the uninitialized updates are.
THEOREM SpecOnlyStaleRequestsBreakCoherence ==
    ASSUME UninitStates \cap Valid = {}
    PROVE  Spec => OnlyStaleRequestsBreakCoherence
  <1>1. Spec => [](IInv /\ Filled)
    <2>1. IInv /\ Filled /\ [Next]_vars => Filled'
      BY NextFilled
    <2> QED  BY <2>1, InitFilled, SpecInvariant, PTL DEF Spec
  <1>2. IInv /\ Filled /\ [Next]_vars =>
          [\A a \in Address : Coherent(a) /\ ~ServesStale(a) => Coherent(a)']_vars
    BY CoherentStep
  <1> QED  BY <1>1, <1>2, PTL DEF Spec, OnlyStaleRequestsBreakCoherence

=============================================================================
