---------------------------- MODULE SnoopySystem ----------------------------
(***************************************************************************)
(* The snooping multiprocessor of src/HW5: the simulation loop with its    *)
(* caches, the snoopy controller, the memory bus and the bus arbiter.      *)
(*                                                                         *)
(* The program is one thread.  A round of the loop lets every CPU that is  *)
(* not waiting make one access, in the order of their numbers, and then    *)
(* grants the bus to the CPU at the head of the arbiter's queue.  pc names *)
(* the part of the round being executed:                                   *)
(*                                                                         *)
(*   access   CPU number cpu is about to make its access (or, when cpu is  *)
(*            NumCPU, the bus is about to be granted)                      *)
(*   snoop    the loop of snoopWrite, at cache number snooped              *)
(*   update   updateState and the broadcast to the other caches            *)
(*   serve    the bus is held by currentProcessorID                        *)
(*   done     the loop has ended                                           *)
(***************************************************************************)
EXTENDS MesiCache

CONSTANTS
    NumCPU,      \* numCPU of runSimulation
    LoopMax,     \* loopMax of runSimulation
    Address,     \* the addresses the CPUs use
    Data         \* the values they write

CPU == 0..NumCPU - 1
NoCPU == -1

ASSUME SystemAssumption ==
    /\ NumCPU \in Nat \ {0}
    /\ LoopMax \in Nat
    /\ Address \subseteq Nat /\ 0 \in Address
    /\ Data \subseteq Nat /\ 0 \in Data

VARIABLES
    cache,                  \* Cache::cacheData and lruOrder, one record per CPU
    waitingForMemoryAccess, \* Cache::waitingForMemoryAccess
    shareFlag,              \* Cache::shareFlag
    memQueue,               \* MemoryBus::requestQueue
    arbQueue,               \* BusArbiter::requestQueue
    ram,                    \* Ram::memoryData, the addresses written so far
    currentProcessorID,     \* the CPU that holds the bus; busInUse iff # NoCPU
    pc, cpu, snooped,       \* control: see above
    access,                 \* the access being made: runSimulation's locals
    loopCnt                 \* loopCnt of runSimulation

busVars == <<memQueue, arbQueue, ram, currentProcessorID>>
flagVars == <<waitingForMemoryAccess, shareFlag>>
vars == <<cache, flagVars, busVars, pc, cpu, snooped, access, loopCnt>>

Request == [cpuID : CPU, isRead : BOOLEAN, address : Address, data : Data]
Access == [isRead : BOOLEAN, isHit : BOOLEAN, address : Address,
           data : Data, shared : BOOLEAN]

\* The value access keeps between two accesses.
NoAccess == [isRead |-> FALSE, isHit |-> FALSE, address |-> 0,
             data |-> 0, shared |-> FALSE]

\* What getRequestByCPUID returns when the CPU has no request.
NoRequest == [cpuID |-> NoCPU, isRead |-> FALSE, address |-> 0, data |-> 0]

-----------------------------------------------------------------------------
\* The constructors set neither flag of a cache: it may hold either value.
Init ==
    /\ cache = [i \in CPU |-> EmptyCache]
    /\ waitingForMemoryAccess \in [CPU -> BOOLEAN]
    /\ shareFlag \in [CPU -> BOOLEAN]
    /\ memQueue = << >>
    /\ arbQueue = << >>
    /\ ram = [a \in {} |-> 0]
    /\ currentProcessorID = NoCPU
    /\ pc = "access" /\ cpu = 0 /\ snooped = 0
    /\ access = NoAccess
    /\ loopCnt = 0

\* MemoryBus::getRequestByCPUID: the first request of CPU p, and the queue
\* without any request of p.
RequestsOf(p) == {n \in DOMAIN memQueue : memQueue[n].cpuID = p}
RequestOf(p) ==
    IF RequestsOf(p) = {} THEN NoRequest ELSE memQueue[Nth(RequestsOf(p), 1)]
QueueUnchanged(p) == memQueue    \* (mutation: the found request is not removed)
QueueWithout(p) == Subsequence(memQueue, DOMAIN memQueue \ RequestsOf(p))

\* BusArbiter::removeEntry.
EntryKept(p) == arbQueue         \* (mutation: the entry stays)
RemoveEntry(p) == Without(arbQueue, p)

\* Cache::handleBusRequest, the memory part: a read changes nothing, and the
\* value it returns is dropped.
Perform(request) ==
    ram' = IF request.isRead THEN ram
           ELSE [a \in DOMAIN ram \cup {request.address} |->
                   IF a = request.address THEN request.data ELSE ram[a]]

\* (Mutations: the flag is taken to mean a write; the arbiter is a stack.)
AddRequestFlipped(p, isRead, a, d) ==
    /\ memQueue' = Append(memQueue, [cpuID |-> p, isRead |-> ~isRead,
                                     address |-> a, data |-> d])
    /\ arbQueue' = Append(arbQueue, p)
AddRequestAtFront(p, isRead, a, d) ==
    /\ memQueue' = <<[cpuID |-> p, isRead |-> isRead,
                     address |-> a, data |-> d]>> \o memQueue
    /\ arbQueue' = <<p>> \o arbQueue

\* MemoryBus::addRequest, which also queues the CPU at the arbiter.
AddRequest(p, isRead, a, d) ==
    /\ memQueue' = Append(memQueue, [cpuID |-> p, isRead |-> isRead,
                                     address |-> a, data |-> d])
    /\ arbQueue' = Append(arbQueue, p)

\* The loop that follows an updateState: CPU i moves its line to newState and
\* every other cache applies update to its own.
Broadcast(i, a, newState, update) ==
    \E s \in [CPU -> LineState] :
        /\ s[i] = newState
        /\ \A j \in CPU \ {i} :
              s[j] \in SnoopedStates(update, GetCurrentState(cache[j], a))
        /\ cache' = [j \in CPU |-> SetCurrentState(cache[j], a, s[j])]

\* The caches, other than i's, that hold a in a valid state.
Holders(i, a) == {j \in CPU \ {i} : GetCurrentState(cache[j], a) \in Valid}

-----------------------------------------------------------------------------
\* The access of one CPU.

\* (Mutation: isWaiting is not consulted.)
ReadyUnasked == pc = "access" /\ cpu < NumCPU

Ready == pc = "access" /\ cpu < NumCPU /\ ~waitingForMemoryAccess[cpu]

SkipWaiting ==
    /\ pc = "access" /\ cpu < NumCPU /\ waitingForMemoryAccess[cpu]
    /\ cpu' = cpu + 1
    /\ UNCHANGED <<cache, flagVars, busVars, pc, snooped, access, loopCnt>>

GoToUpdate(isRead, isHit, a, shared) ==
    /\ pc' = "update"
    /\ access' = [isRead |-> isRead, isHit |-> isHit, address |-> a,
                  data |-> 0, shared |-> shared]
    /\ UNCHANGED <<cpu, loopCnt>>

ReadHit(a) ==
    /\ Ready /\ GetCurrentState(cache[cpu], a) # "INVALID"
    /\ cache' = [cache EXCEPT ![cpu] = ReadFromCache(@, a)]
    /\ GoToUpdate(TRUE, TRUE, a, FALSE)
    /\ UNCHANGED <<flagVars, busVars, snooped>>

WriteHit(a, d) ==
    /\ Ready /\ GetCurrentState(cache[cpu], a) # "INVALID"
    /\ cache' = [cache EXCEPT ![cpu] = WriteToCache(@, a, d)]
    /\ GoToUpdate(FALSE, TRUE, a, FALSE)
    /\ UNCHANGED <<flagVars, busVars, snooped>>

\* Snoopy::snoopRead finds a holder: its value is copied to the caller.
ReadMissShared(a) ==
    /\ Ready /\ GetCurrentState(cache[cpu], a) = "INVALID" /\ Holders(cpu, a) # {}
    /\ LET h == Nth(Holders(cpu, a), 1)
       IN  cache' = [cache EXCEPT ![cpu] = WriteToCache(@, a, ReadValue(cache[h], a)),
                                  ![h]   = ReadFromCache(@, a)]
    /\ shareFlag' = [shareFlag EXCEPT ![cpu] = TRUE]
    /\ GoToUpdate(TRUE, FALSE, a, TRUE)
    /\ UNCHANGED <<waitingForMemoryAccess, busVars, snooped>>

\* snoopRead finds none.  The call passes isRead = 0: see MemoryBus.h.
ReadMissMemory(a) ==
    /\ Ready /\ GetCurrentState(cache[cpu], a) = "INVALID" /\ Holders(cpu, a) = {}
    /\ waitingForMemoryAccess' = [waitingForMemoryAccess EXCEPT ![cpu] = TRUE]
    /\ AddRequest(cpu, FALSE, a, 0)
    /\ GoToUpdate(TRUE, FALSE, a, FALSE)
    /\ UNCHANGED <<cache, shareFlag, ram, currentProcessorID, snooped>>

\* A write miss enters the loop of snoopWrite.
WriteMiss(a, d) ==
    /\ Ready /\ GetCurrentState(cache[cpu], a) = "INVALID"
    /\ pc' = "snoop" /\ snooped' = 0
    /\ access' = [isRead |-> FALSE, isHit |-> FALSE, address |-> a,
                  data |-> d, shared |-> FALSE]
    /\ UNCHANGED <<cache, flagVars, busVars, cpu, loopCnt>>

SnoopHits ==
    /\ snooped # cpu
    /\ GetCurrentState(cache[snooped], access.address) = "MODIFIED"

SnoopSkip ==
    /\ pc = "snoop" /\ snooped < NumCPU /\ ~SnoopHits
    /\ snooped' = snooped + 1
    /\ UNCHANGED <<cache, flagVars, busVars, pc, cpu, access, loopCnt>>

\* Snoopy::snoopWrite at a MODIFIED line: the holder handles the request it
\* has pending (handleBusRequest), whatever its address, and the arbiter
\* forgets the holder.  The value updateState returns is dropped.
SnoopModified ==
    /\ pc = "snoop" /\ snooped < NumCPU /\ SnoopHits
    /\ LET r == RequestOf(snooped)
       IN  /\ Perform(r)
           /\ cache' = [cache EXCEPT ![snooped] =
                SetCurrentState(@, r.address,
                    NextState(GetCurrentState(@, r.address), r.isRead, FALSE,
                              shareFlag[snooped]))]
    /\ memQueue' = QueueWithout(snooped)
    /\ arbQueue' = RemoveEntry(snooped)
    /\ shareFlag' = [shareFlag EXCEPT ![snooped] = FALSE]
    /\ snooped' = snooped + 1
    /\ UNCHANGED <<waitingForMemoryAccess, currentProcessorID, pc, cpu, access, loopCnt>>

\* The end of a write miss.  The call passes isRead = 1.
QueueWrite ==
    /\ pc = "snoop" /\ snooped = NumCPU
    /\ waitingForMemoryAccess' = [waitingForMemoryAccess EXCEPT ![cpu] = TRUE]
    /\ AddRequest(cpu, TRUE, access.address, access.data)
    /\ GoToUpdate(FALSE, FALSE, access.address, FALSE)
    /\ snooped' = 0
    /\ UNCHANGED <<cache, shareFlag, ram, currentProcessorID>>

\* The end of every access: updateState and the broadcast to the others.
UpdateState ==
    /\ pc = "update"
    /\ LET a == access.address
           state == GetCurrentState(cache[cpu], a)
       IN  \E update \in SnoopingUpdates(state, access.isRead, access.isHit) :
             Broadcast(cpu, a,
                       NextState(state, access.isRead, access.isHit, access.shared),
                       update)
    /\ pc' = "access" /\ cpu' = cpu + 1 /\ access' = NoAccess
    /\ UNCHANGED <<flagVars, busVars, snooped, loopCnt>>

-----------------------------------------------------------------------------
\* The bus operations that end a round.

\* (Mutation: the round is not counted.)
EndRoundUncounted == cpu' = 0 /\ pc' = "access" /\ UNCHANGED loopCnt

EndRound ==
    /\ cpu' = 0 /\ loopCnt' = loopCnt + 1
    /\ pc' = IF loopCnt = LoopMax THEN "done" ELSE "access"

\* BusArbiter::grantAccess and MemoryBus::requestBusAccess.
GrantBus ==
    /\ pc = "access" /\ cpu = NumCPU /\ arbQueue # << >>
    /\ arbQueue' = Tail(arbQueue)
    /\ currentProcessorID' = IF currentProcessorID = NoCPU THEN Head(arbQueue)
                             ELSE currentProcessorID
    /\ pc' = "serve"
    /\ UNCHANGED <<cache, flagVars, memQueue, ram, cpu, snooped, access, loopCnt>>

NoGrant ==
    /\ pc = "access" /\ cpu = NumCPU /\ arbQueue = << >>
    /\ EndRound
    /\ UNCHANGED <<cache, flagVars, busVars, snooped, access>>

\* The granted CPU handles its request, the others apply the snoop update,
\* and the bus is released.
ServeBus ==
    /\ pc = "serve"
    /\ LET p == currentProcessorID
           r == RequestOf(p)
           state == GetCurrentState(cache[p], r.address)
       IN  /\ Perform(r)
           /\ memQueue' = QueueWithout(p)
           /\ \E update \in SnoopingUpdates(state, r.isRead, FALSE) :
                Broadcast(p, r.address,
                          NextState(state, r.isRead, FALSE, shareFlag[p]), update)
           /\ shareFlag' = [shareFlag EXCEPT ![p] = FALSE]
           /\ waitingForMemoryAccess' = [waitingForMemoryAccess EXCEPT ![p] = FALSE]
    /\ currentProcessorID' = NoCPU
    /\ EndRound
    /\ UNCHANGED <<arbQueue, snooped, access>>

Next ==
    \/ SkipWaiting
    \/ \E a \in Address : ReadHit(a) \/ ReadMissShared(a) \/ ReadMissMemory(a)
    \/ \E a \in Address, d \in Data : WriteHit(a, d) \/ WriteMiss(a, d)
    \/ SnoopSkip \/ SnoopModified \/ QueueWrite \/ UpdateState
    \/ GrantBus \/ NoGrant \/ ServeBus

\* The loop is one thread that never blocks: it takes its next step while
\* it has one.
Spec == Init /\ [][Next]_vars /\ WF_vars(Next)

-----------------------------------------------------------------------------
\* Type correctness: in particular a hit reads a datum somebody wrote, never
\* the -1 of a line that is not resident, and every request has its CPU.
TypeOK ==
    /\ cache \in [CPU -> CacheOf(Address, Data)]
    /\ waitingForMemoryAccess \in [CPU -> BOOLEAN]
    /\ shareFlag \in [CPU -> BOOLEAN]
    /\ memQueue \in Seq(Request)
    /\ arbQueue \in Seq(CPU)
    /\ ram \in UNION {[S -> Data] : S \in SUBSET Address}
    /\ currentProcessorID \in CPU \cup {NoCPU}
    /\ pc \in {"access", "snoop", "update", "serve", "done"}
    /\ cpu \in 0..NumCPU /\ snooped \in 0..NumCPU
    /\ access \in Access
    /\ loopCnt \in 0..LoopMax + 1

-----------------------------------------------------------------------------
\* The two queues of the bus.

\* The CPUs of the memory bus's queue, in its order.
Requesters(queue) == [n \in DOMAIN queue |-> queue[n].cpuID]
QueuedCPUs == Requesters(memQueue)

\* The arbiter's queue holds the CPUs of the memory bus's queue, in the same
\* order, but for the CPU that has just been granted the bus and whose
\* request is about to be taken: grantAccess never finds a CPU that has no
\* request, and getRequestByCPUID never falls through for it.
QueuesAgree ==
    QueuedCPUs = IF currentProcessorID = NoCPU THEN arbQueue
            ELSE <<currentProcessorID>> \o arbQueue

\* A CPU has at most one request on the bus, and it waits while it has one.
OneRequestPerWaiter ==
    /\ NoRepeats(QueuedCPUs)
    /\ \A i \in Elements(QueuedCPUs) : waitingForMemoryAccess[i]

\* The bus serves the CPUs first come, first served; only a CPU whose
\* modified line another CPU's write miss finds leaves the line early.
Bus == INSTANCE BusService WITH Customer <- CPU, Nobody <- NoCPU,
                                line <- QueuedCPUs, holder <- currentProcessorID
FirstComeFirstServed == Bus!Spec

\* A CPU whose request snoopWrite took away keeps its wait flag for good: it
\* is in no queue, so no grant will ever clear it.
DroppedNeverResumes ==
    [][\A i \in CPU : waitingForMemoryAccess[i] /\ i \notin Elements(QueuedCPUs)
                        => waitingForMemoryAccess'[i]]_vars

\* Every write request carries isRead = TRUE and every read request the datum
\* 0, so that whatever the CPUs write, main memory never holds anything else.
MemoryStaysZero == \A a \in DOMAIN ram : ram[a] = 0

\* The program ends: no CPU, waiting for ever or not, stops the rounds.
Terminates == <>(pc = "done")

-----------------------------------------------------------------------------
\* The lines.

\* The LRU list of a cache names exactly the resident lines, once each, and
\* no more than the cache may hold, through hits, fills, and the lines that
\* broadcasts emplace.
LruMatchesLines == \A i \in CPU : LruMatches(cache[i])

\* The caches that own a: the ones that may write it without telling anyone.
Owners(a) == {i \in CPU : GetCurrentState(cache[i], a) \in {"MODIFIED", "EXCLUSIVE"}}
OneOwner == \A a \in Address, i, j \in CPU : {i, j} \subseteq Owners(a) => i = j

\* Every step but the one of snoopWrite keeps a line from having two owners:
\* that one makes a holder handle a request without telling the others.
OnlySnoopMakesTwoOwners == [][OneOwner /\ pc # "snoop" => OneOwner']_vars

\* A line is coherent when an owner of it holds it alone, and the caches that
\* hold it agree on its datum, but for one that has written it and is about to
\* tell the others.
OwnedAlone(a) == \A i \in Owners(a) : Holders(i, a) = {}
AboutToTell(i, a) ==
    /\ pc = "update" /\ access.isHit /\ ~access.isRead
    /\ i = cpu /\ a = access.address
HoldersAgree(a) ==
    \A i, j \in CPU :
        /\ {GetCurrentState(cache[i], a), GetCurrentState(cache[j], a)} \subseteq Valid
        /\ ~AboutToTell(i, a) /\ ~AboutToTell(j, a)
        => cache[i].data[a].data = cache[j].data[a].data
Coherent(a) == OwnedAlone(a) /\ HoldersAgree(a)

\* handleBusRequest is about to carry out a request for a whose CPU has lost
\* the line since it asked, while another cache holds it: at the service of
\* what was a write miss (isRead is inverted), or inside snoopWrite.
IsStale(p, a) ==
    /\ RequestOf(p).address = a
    /\ GetCurrentState(cache[p], a) = "INVALID" /\ Holders(p, a) # {}
ServesStale(a) ==
    \/ /\ pc = "serve" /\ IsStale(currentProcessorID, a)
       /\ RequestOf(currentProcessorID).isRead
    \/ /\ pc = "snoop" /\ snooped < NumCPU /\ SnoopHits
       /\ IsStale(snooped, a)

\* A coherent line stays coherent, through hits, fills, evictions, broadcasts
\* and services, whatever happens to the other lines, until a stale request
\* for it is carried out.
OnlyStaleRequestsBreakCoherence ==
    [][\A a \in Address : Coherent(a) /\ ~ServesStale(a) => Coherent(a)']_vars

-----------------------------------------------------------------------------
\* What comments of the code say, and the code does not do.

\* snoopy.cpp:33: when a write miss finds another cache's MODIFIED line, that
\* line is written to main memory.
SnoopWritesBack ==
    [][pc = "snoop" /\ snooped < NumCPU /\ SnoopHits =>
         /\ access.address \in DOMAIN ram'
         /\ ram'[access.address] = cache[snooped].data[access.address].data]_vars

-----------------------------------------------------------------------------
\* What makes the invariants above inductive.

Control ==
    /\ pc \in {"snoop", "update"} => cpu \in CPU
    /\ pc = "snoop" => ~waitingForMemoryAccess[cpu]
    /\ pc = "serve" <=> currentProcessorID # NoCPU
    /\ pc # "done" => loopCnt \in 0..LoopMax

\* A request that will write to memory writes a 0.
WritesAreZero ==
    \A n \in DOMAIN memQueue : ~memQueue[n].isRead => memQueue[n].data = 0

IInv ==
    /\ TypeOK /\ LruMatchesLines /\ Control
    /\ QueuesAgree /\ OneRequestPerWaiter
    /\ WritesAreZero /\ MemoryStaysZero

=============================================================================
