--------------------------- MODULE DirectorySystem ---------------------------
(***************************************************************************)
(* The directory multiprocessor of src/HW5-2: the caches, the directories, *)
(* the network between them and the accesses of the CPUs.                  *)
(*                                                                         *)
(* A message is a call: Network::sendMessage runs the handler of the       *)
(* receiver, which may send further messages, before it returns.  A whole  *)
(* access is therefore one step, and a handler is an operator from the     *)
(* caches before a message to the caches after it.                         *)
(*                                                                         *)
(* A DataWriteBack is never sent, so main memory keeps what Ram's          *)
(* constructor puts there; the tag of an entry is written only by member   *)
(* functions of Directory that nothing calls.  Both are left out.          *)
(***************************************************************************)
EXTENDS Integers

CONSTANTS
    NumCPU,      \* numCPU of runSimulation
    NumEntries,  \* numEntries of every Directory
    RamSize,     \* the number of addresses Ram() fills
    Address,     \* the addresses the CPUs use
    Data         \* the values they write

CPU == 0..NumCPU - 1

ASSUME DirectoryAssumption ==
    /\ NumCPU \in Nat \ {0}
    /\ NumEntries \in Nat \ {0}
    /\ RamSize \in Nat
    /\ Address \subseteq Nat
    /\ Data \subseteq Nat

CacheState == {"INVALID", "SHARED", "MODIFIED"}
DirectoryState == {"SHARED", "EXCLUSIVE", "UNCACHED"}

\* Ram::read: the constructor fills RamSize addresses with 0, and any other
\* address reads as the error value 1.
RamReadMinusOne(a) == IF a < RamSize THEN 0 ELSE -1   \* (mutation: HW5's value)
RamRead(a) == IF a < RamSize THEN 0 ELSE 1

Datum == Data \cup {0, 1}
NoDatum == -1    \* a CPU whose callback has not been called yet

Line == [state : CacheState, data : Datum]
Entry == [state : DirectoryState, sharers : SUBSET CPU]
Index == 0..NumEntries - 1

VARIABLES
    cacheData,      \* Cache::cacheData, a map from resident addresses to lines
    pendingReads,   \* the addresses of Cache::pendingReads
    entries,        \* Directory::entries
    received        \* the datum each CPU's callback got last

vars == <<cacheData, pendingReads, entries, received>>

Init ==
    /\ cacheData = [i \in CPU |-> [a \in {} |-> [state |-> "INVALID", data |-> 0]]]
    /\ pendingReads = [i \in CPU |-> {}]
    /\ entries = [i \in CPU |-> [n \in Index |-> [state |-> "UNCACHED", sharers |-> {}]]]
    /\ received = [i \in CPU |-> NoDatum]

-----------------------------------------------------------------------------
\* One cache: lines is the map of its resident addresses.

GetCurrentState(lines, a) == IF a \in DOMAIN lines THEN lines[a].state ELSE "INVALID"

PutLine(lines, a, line) ==
    [b \in DOMAIN lines \cup {a} |-> IF b = a THEN line ELSE lines[b]]

SetCurrentState(lines, a, newState) ==
    IF a \in DOMAIN lines
    THEN PutLine(lines, a, [state |-> newState, data |-> lines[a].data])
    ELSE lines

Message(type, a, d, sourceID, destID) ==
    [type |-> type, address |-> a, data |-> d, sourceID |-> sourceID, destID |-> destID]

\* Cache::handleNetworkMessage for the messages routeMessage gives a cache.
\* A Fetch of a MODIFIED line is answered to message.destID, the very cache
\* that got it; the other fetches are ignored.
HandleNetworkMessage(lines, m) ==
    CASE m.type = "DataValueReply" ->
            PutLine(lines, m.address, [state |-> "SHARED", data |-> m.data])
      [] m.type = "Invalidate" -> SetCurrentState(lines, m.address, "INVALID")
      [] m.type = "Fetch" ->
            IF GetCurrentState(lines, m.address) = "MODIFIED"
            THEN PutLine(lines, m.address,
                         [state |-> "SHARED", data |-> lines[m.address].data])
            ELSE lines

\* (Mutation: every node on the network gets the message.)
RouteMessageToAll(caches, m) == [i \in CPU |-> HandleNetworkMessage(caches[i], m)]

\* Network::routeMessage for those messages: the node destID, if there is one.
RouteMessage(caches, m) ==
    [i \in CPU |-> IF i = m.destID THEN HandleNetworkMessage(caches[i], m) ELSE caches[i]]

-----------------------------------------------------------------------------
\* Directory::receiveMessage of node id: the entry and the caches after it.

EntryOf(id, a) == entries[id][a % NumEntries]

\* A ReadMiss is answered from memory unless the entry is EXCLUSIVE; then the
\* requester itself is asked for the line.
ReadMissEntry(entry, m) ==
    CASE entry.state = "UNCACHED" -> [state |-> "SHARED", sharers |-> {m.sourceID}]
      [] entry.state = "SHARED" ->
            [state |-> "SHARED", sharers |-> entry.sharers \cup {m.sourceID}]
      [] entry.state = "EXCLUSIVE" -> entry

\* (Mutation: an EXCLUSIVE entry is answered from memory too.)
ReadMissCachesFromMemory(caches, id, entry, m) ==
    RouteMessage(caches, Message("DataValueReply", m.address, RamRead(m.address),
                                 id, m.sourceID))
ReadMissCaches(caches, id, entry, m) ==
    RouteMessage(caches,
        IF entry.state = "EXCLUSIVE"
        THEN Message("Fetch", m.address, 0, id, m.sourceID)
        ELSE Message("DataValueReply", m.address, RamRead(m.address), id, m.sourceID))

\* (Mutation: a written block of several sharers stays SHARED.)
WriteMissEntryStillShared(entry, m) ==
    IF entry.state = "SHARED" THEN entry
    ELSE [state |-> "EXCLUSIVE", sharers |-> {m.sourceID}]
WriteMissEntry(entry, m) == [state |-> "EXCLUSIVE", sharers |-> {m.sourceID}]

\* A WriteMiss of a SHARED entry sends one Invalidate for every other sharer,
\* from that sharer to the directory's own node; all of them do the same.
\* Then the datum of the message is sent back to the requester.
Invalidated(caches, id, entry, m) ==
    IF entry.state = "SHARED" /\ entry.sharers \ {m.sourceID} # {}
    THEN RouteMessage(caches, Message("Invalidate", m.address, 0,
                                      CHOOSE s \in entry.sharers : s # m.sourceID, id))
    ELSE caches

WriteMissCaches(caches, id, entry, m) ==
    RouteMessage(Invalidated(caches, id, entry, m),
                 Message("DataValueReply", m.address, m.data, id, m.sourceID))

-----------------------------------------------------------------------------
\* The accesses.  A cache sends its misses from its own id to its own id.

\* Cache::readFromCache, a hit: the callback gets the datum at once.
ReadHit(i, a) ==
    /\ GetCurrentState(cacheData[i], a) # "INVALID"
    /\ received' = [received EXCEPT ![i] = cacheData[i][a].data]
    /\ UNCHANGED <<cacheData, pendingReads, entries>>

\* A miss: the callback is stored after the message has been dealt with.
ReadMiss(i, a) ==
    /\ GetCurrentState(cacheData[i], a) = "INVALID"
    /\ LET m == Message("ReadMiss", a, 0, i, i)
           entry == EntryOf(m.destID, a)
       IN  /\ entries' = [entries EXCEPT ![m.destID] =
                            [@ EXCEPT ![a % NumEntries] = ReadMissEntry(entry, m)]]
           /\ cacheData' = ReadMissCaches(cacheData, m.destID, entry, m)
    /\ pendingReads' = [pendingReads EXCEPT ![i] = @ \cup {a}]
    /\ UNCHANGED received

\* Cache::writeToCache.
WriteHit(i, a, d) ==
    /\ GetCurrentState(cacheData[i], a) = "MODIFIED"
    /\ cacheData' = [cacheData EXCEPT ![i] =
                        PutLine(@, a, [state |-> "MODIFIED", data |-> d])]
    /\ UNCHANGED <<pendingReads, entries, received>>

WriteMiss(i, a, d) ==
    /\ GetCurrentState(cacheData[i], a) # "MODIFIED"
    /\ LET m == Message("WriteMiss", a, d, i, i)
           entry == EntryOf(m.destID, a)
           after == WriteMissCaches(cacheData, m.destID, entry, m)
       IN  /\ entries' = [entries EXCEPT ![m.destID] =
                            [@ EXCEPT ![a % NumEntries] = WriteMissEntry(entry, m)]]
           /\ cacheData' = [after EXCEPT ![i] = SetCurrentState(@, a, "MODIFIED")]
    /\ UNCHANGED <<pendingReads, received>>

Read(i, a) == ReadHit(i, a) \/ ReadMiss(i, a)
Write(i, a, d) == WriteHit(i, a, d) \/ WriteMiss(i, a, d)

Next == \E i \in CPU, a \in Address : Read(i, a) \/ \E d \in Data : Write(i, a, d)

Spec == Init /\ [][Next]_vars

-----------------------------------------------------------------------------
\* Every line, entry and answer has the type the code's declarations give it:
\* in particular a callback gets a datum somebody wrote, or what RAM holds.
TypeOK ==
    /\ cacheData \in [CPU -> UNION {[S -> Line] : S \in SUBSET Address}]
    /\ pendingReads \in [CPU -> SUBSET Address]
    /\ entries \in [CPU -> [Index -> Entry]]
    /\ received \in [CPU -> Datum \cup {NoDatum}]

\* The lines of CPU i that share the directory entry n.
LinesOf(i, n) == {a \in DOMAIN cacheData[i] : a % NumEntries = n}

\* An entry knows what its own cache has, and nothing else: it is EXCLUSIVE
\* when that cache has a MODIFIED line of it, SHARED when it has only SHARED
\* ones, UNCACHED when it has none, and its only sharer is its own CPU.
DirectoryAgrees ==
    \A i \in CPU, n \in Index :
        LET entry == entries[i][n]
            states == {cacheData[i][a].state : a \in LinesOf(i, n)}
        IN  /\ entry.state = IF "MODIFIED" \in states THEN "EXCLUSIVE"
                             ELSE IF states # {} THEN "SHARED" ELSE "UNCACHED"
            /\ entry.sharers = IF states = {} THEN {} ELSE {i}
            /\ "INVALID" \notin states

\* Whatever the caches and directories do, a CPU loads what its own array
\* holds, and an access of a CPU changes no array but its own, and there only
\* the address accessed: no CPU ever sees a store of another one.
Private == INSTANCE PrivateMemory WITH
    Initial <- RamRead, None <- NoDatum,
    mem <- [i \in CPU |-> [a \in Address |->
               IF a \in DOMAIN cacheData[i] THEN cacheData[i][a].data ELSE RamRead(a)]]
NodesAreIsolated == Private!Spec

\* Two addresses that share an entry: when the entry has become EXCLUSIVE for
\* the one, no read of the other ever gets its datum; only a write makes the
\* other resident.
AliasedReadsStarve ==
    [][\A i \in CPU, a \in Address :
         /\ a \notin DOMAIN cacheData[i]
         /\ EntryOf(i, a).state = "EXCLUSIVE"
         /\ a \in DOMAIN cacheData'[i]
         => cacheData'[i][a].state = "MODIFIED"]_vars

-----------------------------------------------------------------------------
\* What comments of the code say, and the code does not do.

\* cache.h: a pending read's callback is called when its datum is available.
AwaitedIsUnavailable ==
    \A i \in CPU : \A a \in pendingReads[i] :
        GetCurrentState(cacheData[i], a) = "INVALID"

\* directory.cpp:81: a write miss sends invalidations to all the other sharers,
\* so that a block EXCLUSIVE to one cache (directorystate.h:7) is in no other.
ExclusiveIsAlone ==
    \A i, j \in CPU : \A a \in DOMAIN cacheData[i] \cap DOMAIN cacheData[j] :
        i # j /\ cacheData[i][a].state = "MODIFIED" => cacheData[j][a].state = "INVALID"

=============================================================================
