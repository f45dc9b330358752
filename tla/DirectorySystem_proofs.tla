----------------------- MODULE DirectorySystem_proofs -----------------------
(***************************************************************************)
(* The directory simulator of src/HW5-2, for every number of CPUs, entries *)
(* and addresses: its directories know exactly what their own caches hold, *)
(* and it implements a multiprocessor without shared memory.               *)
(***************************************************************************)
EXTENDS DirectorySystem, TLAPS

IInv == TypeOK /\ DirectoryAgrees

-----------------------------------------------------------------------------
\* The maps of lines.

Lines == UNION {[S -> Line] : S \in SUBSET Address}

LEMMA LinesIff ==
    ASSUME NEW f
    PROVE  f \in Lines <=> /\ f = [a \in DOMAIN f |-> f[a]]
                           /\ DOMAIN f \subseteq Address
                           /\ \A a \in DOMAIN f : f[a] \in Line
  BY DEF Lines

LEMMA PutLineProperties ==
    ASSUME NEW lines \in Lines, NEW a \in Address, NEW line \in Line
    PROVE  /\ PutLine(lines, a, line) \in Lines
           /\ DOMAIN PutLine(lines, a, line) = DOMAIN lines \cup {a}
           /\ PutLine(lines, a, line)[a] = line
           /\ \A b \in DOMAIN lines : b # a => PutLine(lines, a, line)[b] = lines[b]
  <1> DEFINE u == PutLine(lines, a, line)
  <1>1. /\ DOMAIN u = DOMAIN lines \cup {a}
        /\ u[a] = line
        /\ \A b \in DOMAIN lines : b # a => u[b] = lines[b]
        /\ u = [b \in DOMAIN u |-> u[b]]
    BY DEF PutLine
  <1>2. DOMAIN lines \subseteq Address /\ \A b \in DOMAIN lines : lines[b] \in Line
    BY LinesIff
  <1> HIDE DEF u
  <1>3. \A b \in DOMAIN u : u[b] \in Line
    BY <1>1, <1>2
  <1>4. u \in Lines
    BY <1>1, <1>2, <1>3, LinesIff
  <1> QED  BY <1>1, <1>4 DEF u

LEMMA EntryType ==
    ASSUME TypeOK, NEW i \in CPU, NEW a \in Address
    PROVE  /\ a % NumEntries \in Index
           /\ EntryOf(i, a) = entries[i][a % NumEntries]
           /\ EntryOf(i, a) \in Entry
           /\ RamRead(a) \in Datum
           /\ cacheData[i] \in Lines
  <1>1. a % NumEntries \in Index
    BY DirectoryAssumption DEF Index
  <1>2. RamRead(a) \in Datum
    BY DEF RamRead, Datum
  <1> QED  BY <1>1, <1>2 DEF EntryOf, TypeOK, Lines

-----------------------------------------------------------------------------
\* What a miss does, given that an entry knows its own cache only.

\* No line is INVALID, so that a read miss finds no line.
LEMMA MissIsAbsent ==
    ASSUME IInv, NEW i \in CPU, NEW a \in Address,
           GetCurrentState(cacheData[i], a) = "INVALID"
    PROVE  a \notin DOMAIN cacheData[i]
  <1> SUFFICES ASSUME a \in DOMAIN cacheData[i] PROVE FALSE
    OBVIOUS
  <1>1. cacheData[i][a].state = "INVALID"
    BY DEF GetCurrentState
  <1>2. a \in LinesOf(i, a % NumEntries) /\ a % NumEntries \in Index
    BY EntryType DEF IInv, LinesOf
  <1>3. "INVALID" \in {cacheData[i][b].state : b \in LinesOf(i, a % NumEntries)}
    BY <1>1, <1>2
  <1> QED  BY <1>2, <1>3 DEF IInv, DirectoryAgrees

LEMMA ReplyStep ==
    ASSUME TypeOK, NEW i \in CPU, NEW a \in Address, NEW d \in Datum, NEW id
    PROVE  RouteMessage(cacheData, Message("DataValueReply", a, d, id, i))
           = [cacheData EXCEPT ![i] = PutLine(@, a, [state |-> "SHARED", data |-> d])]
  <1> DEFINE m == Message("DataValueReply", a, d, id, i)
  <1>1. m.type = "DataValueReply" /\ m.address = a /\ m.data = d /\ m.destID = i
    BY DEF Message
  <1> HIDE DEF m
  <1>2. HandleNetworkMessage(cacheData[i], m)
        = PutLine(cacheData[i], a, [state |-> "SHARED", data |-> d])
    BY <1>1, Zenon DEF HandleNetworkMessage
  <1>3. cacheData = [j \in CPU |-> cacheData[j]]
    BY DEF TypeOK
  <1>4. RouteMessage(cacheData, m)
        = [cacheData EXCEPT ![i] = PutLine(@, a, [state |-> "SHARED", data |-> d])]
    BY <1>1, <1>2, <1>3 DEF RouteMessage
  <1> QED  BY <1>4 DEF m

\* A Fetch only ever asks for a line that the requester has not got.
LEMMA FetchStep ==
    ASSUME TypeOK, NEW i \in CPU, NEW a \in Address, NEW id,
           GetCurrentState(cacheData[i], a) # "MODIFIED"
    PROVE  RouteMessage(cacheData, Message("Fetch", a, 0, id, i)) = cacheData
  <1> DEFINE m == Message("Fetch", a, 0, id, i)
  <1>1. m.type = "Fetch" /\ m.address = a /\ m.destID = i
    BY DEF Message
  <1> HIDE DEF m
  <1>2. HandleNetworkMessage(cacheData[i], m) = cacheData[i]
    BY <1>1, Zenon DEF HandleNetworkMessage
  <1>3. cacheData = [j \in CPU |-> cacheData[j]]
    BY DEF TypeOK
  <1>4. RouteMessage(cacheData, m) = cacheData
    BY <1>1, <1>2, <1>3 DEF RouteMessage
  <1> QED  BY <1>4 DEF m

\* CPU i's line of a becomes line, and the entry of a's index entry.
Settle(i, a, line, entry) ==
    /\ cacheData' = [cacheData EXCEPT ![i] = PutLine(@, a, line)]
    /\ entries' = [entries EXCEPT ![i] = [@ EXCEPT ![a % NumEntries] = entry]]

LEMMA ReadMissEffect ==
    ASSUME IInv, NEW i \in CPU, NEW a \in Address, ReadMiss(i, a)
    PROVE  /\ a \notin DOMAIN cacheData[i]
           /\ \/ EntryOf(i, a).state = "EXCLUSIVE" /\ UNCHANGED <<cacheData, entries>>
              \/ /\ EntryOf(i, a).state # "EXCLUSIVE"
                 /\ Settle(i, a, [state |-> "SHARED", data |-> RamRead(a)],
                              [state |-> "SHARED", sharers |-> {i}])
  <1> DEFINE m == Message("ReadMiss", a, 0, i, i)
             entry == EntryOf(i, a)
             n == a % NumEntries
  <1>1. TypeOK /\ n \in Index /\ entry = entries[i][n] /\ entry \in Entry
        /\ RamRead(a) \in Datum
    BY EntryType DEF IInv
  <1>2. m.address = a /\ m.sourceID = i /\ m.destID = i
    BY DEF Message
  <1>3. /\ entries' = [entries EXCEPT ![i] = [@ EXCEPT ![n] = ReadMissEntry(entry, m)]]
        /\ cacheData' = ReadMissCaches(cacheData, i, entry, m)
        /\ GetCurrentState(cacheData[i], a) = "INVALID"
    BY <1>2 DEF ReadMiss
  <1>4. a \notin DOMAIN cacheData[i]
    BY <1>3, MissIsAbsent
  <1>5. entry.sharers \subseteq {i} /\ entry.state \in DirectoryState
        /\ entries \in [CPU -> [Index -> Entry]]
    BY <1>1 DEF IInv, DirectoryAgrees, Entry, TypeOK
  <1> HIDE DEF m, entry, n
  <1>6. CASE entry.state = "EXCLUSIVE"
    <2>1. ReadMissEntry(entry, m) = entry
      BY <1>6, Zenon DEF ReadMissEntry
    <2>2. entries' = entries
      BY <1>1, <1>3, <1>5, <2>1
    <2>3. cacheData' = cacheData
      BY <1>1, <1>2, <1>3, <1>6, FetchStep DEF ReadMissCaches
    <2> QED  BY <1>4, <1>6, <2>2, <2>3 DEF entry
  <1>7. CASE entry.state # "EXCLUSIVE"
    <2>1. ReadMissEntry(entry, m) = [state |-> "SHARED", sharers |-> {i}]
      <3>1. CASE entry.state = "UNCACHED"
        BY <1>2, <3>1, Zenon DEF ReadMissEntry
      <3>2. CASE entry.state = "SHARED"
        <4>1. entry.sharers \cup {m.sourceID} = {i}
          BY <1>2, <1>5
        <4> QED  BY <3>2, <4>1, Zenon DEF ReadMissEntry
      <3> QED  BY <1>5, <1>7, <3>1, <3>2 DEF DirectoryState
    <2>2. cacheData' = [cacheData EXCEPT ![i] =
                          PutLine(@, a, [state |-> "SHARED", data |-> RamRead(a)])]
      BY <1>1, <1>2, <1>3, <1>7, ReplyStep DEF ReadMissCaches
    <2> QED  BY <1>3, <1>4, <1>7, <2>1, <2>2 DEF Settle, entry, n
  <1> QED  BY <1>6, <1>7

LEMMA WriteMissEffect ==
    ASSUME IInv, NEW i \in CPU, NEW a \in Address, NEW d \in Data, WriteMiss(i, a, d)
    PROVE  Settle(i, a, [state |-> "MODIFIED", data |-> d],
                        [state |-> "EXCLUSIVE", sharers |-> {i}])
  <1> DEFINE m == Message("WriteMiss", a, d, i, i)
             entry == EntryOf(i, a)
             n == a % NumEntries
             after == WriteMissCaches(cacheData, i, entry, m)
             shared == [state |-> "SHARED", data |-> d]
             owned == [state |-> "MODIFIED", data |-> d]
  <1>1. TypeOK /\ n \in Index /\ entry = entries[i][n] /\ entry \in Entry
        /\ cacheData[i] \in Lines /\ d \in Datum
    BY EntryType DEF IInv, Datum
  <1>2. m.address = a /\ m.sourceID = i /\ m.destID = i /\ m.data = d
    BY DEF Message
  <1>3. /\ entries' = [entries EXCEPT ![i] = [@ EXCEPT ![n] = WriteMissEntry(entry, m)]]
        /\ cacheData' = [after EXCEPT ![i] = SetCurrentState(@, a, "MODIFIED")]
    BY <1>2 DEF WriteMiss
  <1>4. entry.sharers \ {m.sourceID} = {}
    BY <1>1, <1>2 DEF IInv, DirectoryAgrees
  <1>5. shared \in Line /\ owned \in Line /\ shared.data = d
    BY <1>1 DEF Line, CacheState
  <1> HIDE DEF m, entry, n, shared
  <1>6. after = [cacheData EXCEPT ![i] = PutLine(@, a, shared)]
    BY <1>1, <1>2, <1>4, ReplyStep DEF WriteMissCaches, Invalidated, shared
  <1> HIDE DEF after, owned
  <1>7. cacheData \in [CPU -> Lines]
    BY <1>1 DEF TypeOK, Lines
  <1>8. cacheData' = [cacheData EXCEPT ![i] =
                        SetCurrentState(PutLine(cacheData[i], a, shared), a, "MODIFIED")]
    BY <1>3, <1>6, <1>7
  <1>9. SetCurrentState(PutLine(cacheData[i], a, shared), a, "MODIFIED")
        = PutLine(PutLine(cacheData[i], a, shared), a, owned)
    <2> DEFINE u == PutLine(cacheData[i], a, shared)
    <2>1. a \in DOMAIN u /\ u[a] = shared
      BY DEF PutLine
    <2> HIDE DEF u
    <2>2. SetCurrentState(u, a, "MODIFIED") = PutLine(u, a, [state |-> "MODIFIED", data |-> u[a].data])
      BY <2>1, Zenon DEF SetCurrentState
    <2>3. u[a].data = d
      BY <1>5, <2>1
    <2>4. SetCurrentState(u, a, "MODIFIED") = PutLine(u, a, owned)
      BY <2>2, <2>3, Zenon DEF owned
    <2> QED  BY <2>4 DEF u
  <1>10. PutLine(PutLine(cacheData[i], a, shared), a, owned) = PutLine(cacheData[i], a, owned)
    BY DEF PutLine
  <1>11. cacheData' = [cacheData EXCEPT ![i] = PutLine(@, a, owned)]
    BY <1>8, <1>9, <1>10
  <1>12. WriteMissEntry(entry, m) = [state |-> "EXCLUSIVE", sharers |-> {i}]
    BY <1>2 DEF WriteMissEntry
  <1> QED  BY <1>3, <1>11, <1>12 DEF Settle, owned, n

-----------------------------------------------------------------------------
\* The inductive invariant.

States(i, n) == {cacheData[i][a].state : a \in LinesOf(i, n)}

EntryAgrees(entry, states, i) ==
    /\ entry.state = IF "MODIFIED" \in states THEN "EXCLUSIVE"
                     ELSE IF states # {} THEN "SHARED" ELSE "UNCACHED"
    /\ entry.sharers = IF states = {} THEN {} ELSE {i}
    /\ "INVALID" \notin states

LEMMA AgreesIff ==
    DirectoryAgrees <=> \A i \in CPU, n \in Index : EntryAgrees(entries[i][n], States(i, n), i)
  BY DEF DirectoryAgrees, EntryAgrees, States

LEMMA AgreesNext ==
    (\A i \in CPU, n \in Index : EntryAgrees(entries'[i][n], States(i, n)', i))
    => DirectoryAgrees'
  BY DEF DirectoryAgrees, EntryAgrees, States

\* After Settle(i, a, ..) the lines of a's entry have the states they had,
\* but for a itself, which has the new one; no other entry notices.
LEMMA SettleStates ==
    ASSUME TypeOK, NEW i \in CPU, NEW a \in Address, NEW line \in Line, NEW entry \in Entry,
           Settle(i, a, line, entry)
    PROVE  /\ cacheData' \in [CPU -> Lines]
           /\ entries' \in [CPU -> [Index -> Entry]]
           /\ entries'[i][a % NumEntries] = entry
           /\ States(i, a % NumEntries)' \subseteq States(i, a % NumEntries) \cup {line.state}
           /\ line.state \in States(i, a % NumEntries)'
           /\ \A j \in CPU, n \in Index :
                 j # i \/ n # a % NumEntries =>
                    entries'[j][n] = entries[j][n] /\ States(j, n)' = States(j, n)
  <1> DEFINE k == a % NumEntries
             u == PutLine(cacheData[i], a, line)
  <1>1. k \in Index /\ cacheData[i] \in Lines /\ cacheData \in [CPU -> Lines]
        /\ entries \in [CPU -> [Index -> Entry]]
    BY EntryType DEF TypeOK, Lines
  <1>2. /\ u \in Lines
        /\ DOMAIN u = DOMAIN cacheData[i] \cup {a}
        /\ u[a] = line
        /\ \A b \in DOMAIN cacheData[i] : b # a => u[b] = cacheData[i][b]
    BY <1>1, PutLineProperties
  <1>3. cacheData' = [cacheData EXCEPT ![i] = u]
        /\ entries' = [entries EXCEPT ![i] = [@ EXCEPT ![k] = entry]]
    BY DEF Settle
  <1>4. cacheData'[i] = u /\ \A j \in CPU : j # i => cacheData'[j] = cacheData[j]
    BY <1>1, <1>3
  <1>5. /\ cacheData' \in [CPU -> Lines]
        /\ entries' \in [CPU -> [Index -> Entry]]
        /\ entries'[i][k] = entry
        /\ \A j \in CPU, n \in Index : j # i \/ n # k => entries'[j][n] = entries[j][n]
    BY <1>1, <1>2, <1>3
  <1>6. ASSUME NEW n \in Index
        PROVE  LinesOf(i, n)' = {b \in DOMAIN u : b % NumEntries = n}
    BY <1>4 DEF LinesOf
  <1>7. ASSUME NEW n \in Index
        PROVE  States(i, n)' = {u[b].state : b \in {c \in DOMAIN u : c % NumEntries = n}}
    BY <1>4, <1>6 DEF States
  <1>8. ASSUME NEW j \in CPU, NEW n \in Index, j # i \/ n # k
        PROVE  States(j, n)' = States(j, n)
    <2>1. CASE j # i
      BY <1>4, <2>1 DEF States, LinesOf
    <2>2. CASE j = i
      <3>1. n # k
        BY <1>8, <2>2
      <3>2. {c \in DOMAIN u : c % NumEntries = n} = LinesOf(i, n) /\ a \notin LinesOf(i, n)
        BY <1>2, <3>1 DEF LinesOf
      <3>3. \A b \in LinesOf(i, n) : u[b] = cacheData[i][b]
        BY <1>2, <3>2 DEF LinesOf
      <3>4. States(i, n)' = {u[b].state : b \in LinesOf(i, n)}
        BY <1>7, <3>2
      <3>5. States(i, n)' = States(i, n)
        BY <3>3, <3>4 DEF States
      <3> QED  BY <2>2, <3>5
    <2> QED  BY <2>1, <2>2
  <1>9. ASSUME NEW s \in States(i, k)'
        PROVE  s \in States(i, k) \cup {line.state}
    <2>1. PICK b \in DOMAIN u : b % NumEntries = k /\ s = u[b].state
      BY <1>1, <1>7, <1>9
    <2>2. CASE b = a
      BY <1>2, <2>1, <2>2
    <2>3. CASE b # a
      BY <1>2, <2>1, <2>3 DEF States, LinesOf
    <2> QED  BY <2>2, <2>3
  <1>10. line.state \in States(i, k)'
    BY <1>1, <1>2, <1>7
  <1> HIDE DEF k, u
  <1>11. States(i, k)' \subseteq States(i, k) \cup {line.state}
    BY <1>9
  <1> QED  BY <1>5, <1>8, <1>10, <1>11 DEF k

LEMMA TypeNext ==
    ASSUME cacheData' \in [CPU -> Lines], entries' \in [CPU -> [Index -> Entry]],
           pendingReads' \in [CPU -> SUBSET Address], received' \in [CPU -> Datum \cup {NoDatum}]
    PROVE  TypeOK'
  BY DEF TypeOK, Lines

LEMMA ReadHitKeeps ==
    ASSUME IInv, NEW i \in CPU, NEW a \in Address, ReadHit(i, a)
    PROVE  IInv'
  <1>1. TypeOK /\ DirectoryAgrees /\ cacheData[i] \in Lines
    BY EntryType DEF IInv
  <1>2. a \in DOMAIN cacheData[i]
    BY DEF ReadHit, GetCurrentState
  <1>3. cacheData[i][a] \in Line
    BY <1>1, <1>2, LinesIff
  <1>4. cacheData[i][a].data \in Datum
    BY <1>3 DEF Line
  <1>5. TypeOK'
    BY <1>1, <1>4 DEF ReadHit, TypeOK
  <1>6. DirectoryAgrees'
    BY <1>1, AgreesIff, AgreesNext DEF ReadHit, States, LinesOf
  <1> QED  BY <1>5, <1>6 DEF IInv

LEMMA ReadMissKeeps ==
    ASSUME IInv, NEW i \in CPU, NEW a \in Address, ReadMiss(i, a)
    PROVE  IInv'
  <1> DEFINE k == a % NumEntries
             line == [state |-> "SHARED", data |-> RamRead(a)]
             entry == [state |-> "SHARED", sharers |-> {i}]
  <1>1. TypeOK /\ DirectoryAgrees /\ k \in Index /\ EntryOf(i, a) = entries[i][k]
        /\ RamRead(a) \in Datum
    BY EntryType DEF IInv
  <1>2. pendingReads' \in [CPU -> SUBSET Address] /\ received' \in [CPU -> Datum \cup {NoDatum}]
    BY <1>1 DEF ReadMiss, TypeOK
  <1>3. CASE UNCHANGED <<cacheData, entries>>
    <2>1. TypeOK'
      BY <1>1, <1>2, <1>3 DEF TypeOK
    <2>2. DirectoryAgrees'
      BY <1>1, <1>3, AgreesIff, AgreesNext DEF States, LinesOf
    <2> QED  BY <2>1, <2>2 DEF IInv
  <1>4. CASE EntryOf(i, a).state # "EXCLUSIVE" /\ Settle(i, a, line, entry)
    <2>1. line \in Line /\ line.state = "SHARED"
          /\ entry \in Entry /\ entry.state = "SHARED" /\ entry.sharers = {i}
      BY <1>1 DEF Line, CacheState, Entry, DirectoryState
    <2> HIDE DEF line, entry
    <2>2. /\ cacheData' \in [CPU -> Lines]
          /\ entries' \in [CPU -> [Index -> Entry]]
          /\ entries'[i][k] = entry
          /\ States(i, k)' \subseteq States(i, k) \cup {"SHARED"}
          /\ "SHARED" \in States(i, k)'
          /\ \A j \in CPU, n \in Index :
                j # i \/ n # k => entries'[j][n] = entries[j][n] /\ States(j, n)' = States(j, n)
      BY <1>1, <1>4, <2>1, SettleStates
    <2>3. "MODIFIED" \notin States(i, k) /\ "INVALID" \notin States(i, k)
      BY <1>1, <1>4, AgreesIff DEF EntryAgrees
    <2>4. "MODIFIED" \notin States(i, k)' /\ "INVALID" \notin States(i, k)' /\ States(i, k)' # {}
      BY <2>2, <2>3
    <2>5. EntryAgrees(entries'[i][k], States(i, k)', i)
      BY <2>1, <2>2, <2>4 DEF EntryAgrees
    <2>6. DirectoryAgrees'
      BY <1>1, <2>2, <2>5, AgreesIff, AgreesNext
    <2> QED  BY <1>2, <2>2, <2>6, TypeNext DEF IInv
  <1> QED  BY <1>3, <1>4, ReadMissEffect

\* A write hit settles the line and leaves the entry, EXCLUSIVE already.
LEMMA WriteHitEffect ==
    ASSUME IInv, NEW i \in CPU, NEW a \in Address, NEW d \in Data, WriteHit(i, a, d)
    PROVE  Settle(i, a, [state |-> "MODIFIED", data |-> d],
                        [state |-> "EXCLUSIVE", sharers |-> {i}])
  <1> DEFINE k == a % NumEntries
             entry == [state |-> "EXCLUSIVE", sharers |-> {i}]
  <1>1. TypeOK /\ DirectoryAgrees /\ k \in Index /\ entries[i][k] \in Entry
        /\ EntryOf(i, a) = entries[i][k]
        /\ entries \in [CPU -> [Index -> Entry]]
    BY EntryType DEF IInv, TypeOK
  <1>2. "MODIFIED" \in States(i, k)
    <2>1. a \in DOMAIN cacheData[i] /\ cacheData[i][a].state = "MODIFIED"
      BY DEF WriteHit, GetCurrentState
    <2> QED  BY <2>1 DEF States, LinesOf
  <1>3. EntryAgrees(entries[i][k], States(i, k), i)
    BY <1>1, AgreesIff
  <1>4. entries[i][k].state = "EXCLUSIVE" /\ entries[i][k].sharers = {i}
    BY <1>2, <1>3 DEF EntryAgrees
  <1>5. entries[i][k] = entry
    BY <1>1, <1>4 DEF Entry
  <1> HIDE DEF k, entry
  <1>6. entries = [entries EXCEPT ![i] = [@ EXCEPT ![k] = entry]]
    BY <1>1, <1>5
  <1> QED  BY <1>6 DEF WriteHit, Settle, k, entry

LEMMA WriteKeeps ==
    ASSUME IInv, NEW i \in CPU, NEW a \in Address, NEW d \in Data,
           Settle(i, a, [state |-> "MODIFIED", data |-> d],
                        [state |-> "EXCLUSIVE", sharers |-> {i}]),
           UNCHANGED <<pendingReads, received>>
    PROVE  IInv'
  <1> DEFINE k == a % NumEntries
             line == [state |-> "MODIFIED", data |-> d]
             entry == [state |-> "EXCLUSIVE", sharers |-> {i}]
  <1>1. TypeOK /\ DirectoryAgrees /\ k \in Index
    BY EntryType DEF IInv
  <1>2. pendingReads' \in [CPU -> SUBSET Address] /\ received' \in [CPU -> Datum \cup {NoDatum}]
    BY <1>1 DEF TypeOK
  <1>3. line \in Line /\ line.state = "MODIFIED"
        /\ entry \in Entry /\ entry.state = "EXCLUSIVE" /\ entry.sharers = {i}
    BY DEF Line, CacheState, Datum, Entry, DirectoryState
  <1>4. Settle(i, a, line, entry)
    OBVIOUS
  <1> HIDE DEF line, entry
  <1>5. /\ cacheData' \in [CPU -> Lines]
        /\ entries' \in [CPU -> [Index -> Entry]]
        /\ entries'[i][k] = entry
        /\ States(i, k)' \subseteq States(i, k) \cup {"MODIFIED"}
        /\ "MODIFIED" \in States(i, k)'
        /\ \A j \in CPU, n \in Index :
              j # i \/ n # k => entries'[j][n] = entries[j][n] /\ States(j, n)' = States(j, n)
    BY <1>1, <1>3, <1>4, SettleStates
  <1>6. "INVALID" \notin States(i, k)
    BY <1>1, AgreesIff DEF EntryAgrees
  <1>7. EntryAgrees(entries'[i][k], States(i, k)', i)
    BY <1>3, <1>5, <1>6 DEF EntryAgrees
  <1>8. DirectoryAgrees'
    BY <1>1, <1>5, <1>7, AgreesIff, AgreesNext
  <1> QED  BY <1>2, <1>5, <1>8, TypeNext DEF IInv

LEMMA InitIInv == Init => IInv
  <1> SUFFICES ASSUME Init PROVE IInv
    OBVIOUS
  <1> DEFINE none == [a \in {} |-> [state |-> "INVALID", data |-> 0]]
             entry == [state |-> "UNCACHED", sharers |-> {}]
  <1>1. none \in Lines /\ DOMAIN none = {}
    BY LinesIff
  <1>2. entry \in Entry /\ entry.state = "UNCACHED" /\ entry.sharers = {}
    BY DEF Entry, DirectoryState
  <1>3. cacheData = [i \in CPU |-> none] /\ entries = [i \in CPU |-> [n \in Index |-> entry]]
    BY DEF Init
  <1> HIDE DEF none, entry
  <1>4. TypeOK
    <2>1. cacheData \in [CPU -> Lines] /\ entries \in [CPU -> [Index -> Entry]]
      BY <1>1, <1>2, <1>3
    <2>2. pendingReads \in [CPU -> SUBSET Address] /\ received \in [CPU -> Datum \cup {NoDatum}]
      BY DEF Init
    <2> QED  BY <2>1, <2>2 DEF TypeOK, Lines
  <1>5. ASSUME NEW i \in CPU, NEW n \in Index
        PROVE  EntryAgrees(entries[i][n], States(i, n), i)
    <2>1. States(i, n) = {}
      BY <1>1, <1>3 DEF States, LinesOf
    <2> QED  BY <1>2, <1>3, <2>1 DEF EntryAgrees
  <1> QED  BY <1>4, <1>5, AgreesIff DEF IInv

LEMMA NextIInv == IInv /\ [Next]_vars => IInv'
  <1> SUFFICES ASSUME IInv, [Next]_vars PROVE IInv'
    OBVIOUS
  <1>1. CASE UNCHANGED vars
    BY <1>1, AgreesIff, AgreesNext DEF vars, IInv, TypeOK, States, LinesOf
  <1>2. ASSUME NEW i \in CPU, NEW a \in Address, Read(i, a)
        PROVE  IInv'
    BY <1>2, ReadHitKeeps, ReadMissKeeps DEF Read
  <1>3. ASSUME NEW i \in CPU, NEW a \in Address, NEW d \in Data, Write(i, a, d)
        PROVE  IInv'
    <2>1. CASE WriteHit(i, a, d)
      BY <2>1, WriteHitEffect, WriteKeeps DEF WriteHit
    <2>2. CASE WriteMiss(i, a, d)
      BY <2>2, WriteMissEffect, WriteKeeps DEF WriteMiss
    <2> QED  BY <1>3, <2>1, <2>2 DEF Write
  <1> QED  BY <1>1, <1>2, <1>3 DEF Next

\* What follows rests on this induction.
THEOREM SpecInvariant == Spec => []IInv
  BY InitIInv, NextIInv, PTL DEF Spec

\* The caches, entries and callbacks keep their types.
THEOREM SpecTypeOK == Spec => []TypeOK
  <1>1. IInv => TypeOK
    BY DEF IInv
  <1> QED  BY <1>1, SpecInvariant, PTL

\* A directory entry describes the lines of its own node's cache exactly, and
\* has no sharer but its own CPU: so no Invalidate is ever sent, and no line
\* is ever INVALID.
THEOREM SpecDirectoryAgrees == Spec => []DirectoryAgrees
  <1>1. IInv => DirectoryAgrees
    BY DEF IInv
  <1> QED  BY <1>1, SpecInvariant, PTL

-----------------------------------------------------------------------------
\* The refinement of PrivateMemory.

Value(i, a) == IF a \in DOMAIN cacheData[i] THEN cacheData[i][a].data ELSE RamRead(a)
Memory == [i \in CPU |-> [a \in Address |-> Value(i, a)]]

\* Settling a line changes the value of that address for that CPU only.
LEMMA SettleValue ==
    ASSUME TypeOK, NEW i \in CPU, NEW a \in Address, NEW line \in Line, NEW entry,
           Settle(i, a, line, entry)
    PROVE  Memory' = [j \in CPU |-> [b \in Address |->
                        IF j = i /\ b = a THEN line.data ELSE Memory[j][b]]]
  <1> DEFINE u == PutLine(cacheData[i], a, line)
  <1>1. cacheData[i] \in Lines /\ cacheData \in [CPU -> Lines]
    BY DEF TypeOK, Lines
  <1>2. /\ DOMAIN u = DOMAIN cacheData[i] \cup {a}
        /\ u[a] = line
        /\ \A b \in DOMAIN cacheData[i] : b # a => u[b] = cacheData[i][b]
    BY <1>1, PutLineProperties
  <1>3. cacheData' = [cacheData EXCEPT ![i] = u]
    BY DEF Settle
  <1> HIDE DEF u
  <1>4. cacheData'[i] = u /\ \A j \in CPU : j # i => cacheData'[j] = cacheData[j]
    BY <1>1, <1>3
  <1>5. ASSUME NEW j \in CPU, NEW b \in Address
        PROVE  Value(j, b)' = IF j = i /\ b = a THEN line.data ELSE Value(j, b)
    BY <1>2, <1>4 DEF Value
  <1> QED  BY <1>5 DEF Memory

LEMMA RefinementStep ==
    ASSUME IInv, [Next]_vars
    PROVE  Private!Next \/ UNCHANGED <<Memory, received>>
  <1>1. CASE UNCHANGED vars
    BY <1>1 DEF vars, Memory, Value
  <1>2. ASSUME NEW i \in CPU, NEW a \in Address, ReadHit(i, a)
        PROVE  Private!Load(i, a)
    <2>1. Memory' = Memory
      BY <1>2 DEF ReadHit, Memory, Value
    <2>2. Memory[i][a] = cacheData[i][a].data
      BY <1>2 DEF ReadHit, GetCurrentState, Memory, Value
    <2>3. received' = [j \in CPU |-> IF j = i THEN Memory[i][a] ELSE received[j]]
      BY <1>2, <2>2 DEF ReadHit, IInv, TypeOK
    <2> QED  BY <2>1, <2>3 DEF Private!Load, Memory, Value
  <1>3. ASSUME NEW i \in CPU, NEW a \in Address, ReadMiss(i, a)
        PROVE  UNCHANGED <<Memory, received>>
    <2> DEFINE line == [state |-> "SHARED", data |-> RamRead(a)]
    <2>1. CASE UNCHANGED <<cacheData, entries>>
      BY <1>3, <2>1 DEF ReadMiss, Memory, Value
    <2>2. CASE /\ a \notin DOMAIN cacheData[i]
               /\ Settle(i, a, line, [state |-> "SHARED", sharers |-> {i}])
      <3>1. line \in Line /\ line.data = RamRead(a)
        BY EntryType DEF IInv, Line, CacheState
      <3>2. Memory[i][a] = RamRead(a)
        BY <2>2 DEF Memory, Value
      <3> HIDE DEF line
      <3>3. Memory' = [j \in CPU |-> [b \in Address |->
                          IF j = i /\ b = a THEN RamRead(a) ELSE Memory[j][b]]]
        BY <2>2, <3>1, SettleValue DEF IInv
      <3>4. \A j \in CPU, b \in Address :
               (IF j = i /\ b = a THEN RamRead(a) ELSE Memory[j][b]) = Memory[j][b]
        BY <3>2
      <3>5. Memory' = [j \in CPU |-> [b \in Address |-> Memory[j][b]]]
        BY <3>3, <3>4
      <3>6. Memory = [j \in CPU |-> [b \in Address |-> Memory[j][b]]]
        BY DEF Memory
      <3> QED  BY <1>3, <3>5, <3>6 DEF ReadMiss
    <2> QED  BY <1>3, <2>1, <2>2, ReadMissEffect
  <1>4. ASSUME NEW i \in CPU, NEW a \in Address, NEW d \in Data, Write(i, a, d)
        PROVE  Private!Store(i, a, d)
    <2> DEFINE line == [state |-> "MODIFIED", data |-> d]
               entry == [state |-> "EXCLUSIVE", sharers |-> {i}]
    <2>1. Settle(i, a, line, entry) /\ UNCHANGED received
      BY <1>4, WriteHitEffect, WriteMissEffect DEF Write, WriteHit, WriteMiss
    <2>2. line \in Line /\ line.data = d
      BY DEF Line, CacheState, Datum
    <2> HIDE DEF line, entry
    <2>3. Memory' = [j \in CPU |-> [b \in Address |->
                        IF j = i /\ b = a THEN d ELSE Memory[j][b]]]
      BY <2>1, <2>2, SettleValue DEF IInv
    <2> QED  BY <2>1, <2>3 DEF Private!Store, Memory, Value
  <1>5. Data \subseteq Datum
    BY DEF Datum
  <1> QED  BY <1>1, <1>2, <1>3, <1>4, <1>5 DEF Next, Read, Private!Next

\* The simulator implements a multiprocessor whose CPUs share nothing: every
\* load returns what that CPU itself stored last.
THEOREM SpecNodesAreIsolated == Spec => NodesAreIsolated
  <1>1. Init => Private!Init
    <2>1. Init => Memory = [i \in CPU |-> [a \in Address |-> RamRead(a)]]
      BY DEF Init, Memory, Value
    <2> QED  BY <2>1 DEF Init, Private!Init, Memory, Value
  <1>2. IInv /\ [Next]_vars => [Private!Next]_<<Memory, received>>
    BY RefinementStep
  <1>3. QED
    BY <1>1, <1>2, SpecInvariant, PTL DEF Spec, NodesAreIsolated, Private!Spec, Memory, Value

-----------------------------------------------------------------------------
\* Two addresses that share an entry.

\* Once an entry is EXCLUSIVE for one address, a read miss of another address
\* of it is answered by nobody.
THEOREM SpecAliasedReadsStarve == Spec => AliasedReadsStarve
  <1> DEFINE Starved(i, a) == /\ a \notin DOMAIN cacheData[i]
                              /\ EntryOf(i, a).state = "EXCLUSIVE"
                              /\ a \in DOMAIN cacheData'[i]
  <1>1. ASSUME IInv, [Next]_vars, NEW i \in CPU, NEW a \in Address, Starved(i, a)
        PROVE  cacheData'[i][a].state = "MODIFIED"
    <2>1. cacheData' # cacheData
      BY <1>1
    <2>2. ~UNCHANGED vars /\ \A j \in CPU, b \in Address : ~ReadHit(j, b)
      BY <2>1 DEF vars, ReadHit
    <2>3. ASSUME NEW j \in CPU, NEW b \in Address, NEW line, NEW entry,
                 Settle(j, b, line, entry)
          PROVE  i = j /\ a = b /\ cacheData'[i][a] = line
      <3>1. cacheData \in [CPU -> Lines]
        BY <1>1 DEF IInv, TypeOK, Lines
      <3>2. cacheData' = [cacheData EXCEPT ![j] = PutLine(cacheData[j], b, line)]
        BY <2>3 DEF Settle
      <3>3. i = j
        BY <1>1, <3>1, <3>2
      <3>4. cacheData'[i] = PutLine(cacheData[i], b, line)
        BY <3>1, <3>2, <3>3
      <3>5. a = b
        BY <1>1, <3>4 DEF PutLine
      <3> QED  BY <3>3, <3>4, <3>5 DEF PutLine
    <2>4. ASSUME NEW j \in CPU, NEW b \in Address, ReadMiss(j, b) PROVE FALSE
      <3>1. /\ EntryOf(j, b).state # "EXCLUSIVE"
            /\ Settle(j, b, [state |-> "SHARED", data |-> RamRead(b)],
                            [state |-> "SHARED", sharers |-> {j}])
        BY <1>1, <2>1, <2>4, ReadMissEffect
      <3>2. i = j /\ a = b
        BY <3>1, <2>3
      <3> QED  BY <1>1, <3>1, <3>2
    <2>5. ASSUME NEW j \in CPU, NEW b \in Address, NEW d \in Data, Write(j, b, d)
          PROVE  cacheData'[i][a].state = "MODIFIED"
      <3>1. Settle(j, b, [state |-> "MODIFIED", data |-> d],
                         [state |-> "EXCLUSIVE", sharers |-> {j}])
        BY <1>1, <2>5, WriteHitEffect, WriteMissEffect DEF Write
      <3>2. cacheData'[i][a] = [state |-> "MODIFIED", data |-> d]
        BY <3>1, <2>3
      <3> QED  BY <3>2
    <2> QED  BY <1>1, <2>2, <2>4, <2>5 DEF Next, Read
  <1>2. IInv /\ [Next]_vars =>
          [\A i \in CPU, a \in Address :
             /\ a \notin DOMAIN cacheData[i]
             /\ EntryOf(i, a).state = "EXCLUSIVE"
             /\ a \in DOMAIN cacheData'[i]
             => cacheData'[i][a].state = "MODIFIED"]_vars
    BY <1>1
  <1> QED  BY <1>2, SpecInvariant, PTL DEF Spec, AliasedReadsStarve

=============================================================================
