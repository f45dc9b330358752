-------------------------- MODULE EventQueue_proofs ---------------------------
(***************************************************************************)
(* Theorems of EventQueue, for every number of events, every delay of      *)
(* their follow-ups and every bound on the events processed.               *)
(***************************************************************************)
EXTENDS EventQueue, FiniteSetTheorems, TLAPS

USE EventAssumption, QueueAssumption

Positions == 1..NumEvents

-----------------------------------------------------------------------------
\* insertionSort's condition is the opposite of a total order, and a
\* follow-up is not earlier than the event it follows.

LEMMA EventFields == \A e \in Event : e.first \in Int /\ e.second \in Int
<1> SUFFICES ASSUME NEW e \in Event PROVE e.first \in Int /\ e.second \in Int
  OBVIOUS
<1>1. e.first \in Nat /\ e.second \in V
  BY DEF Event
<1>2. \A v \in V : v \in Int
  OBVIOUS
<1>3. e.second \in Int
  BY <1>1, <1>2, Zenon
<1> QED
  BY <1>1, <1>3

LEMMA OrderIsTotal ==
    \A a, b \in Event : /\ NotLater(a, a)
                        /\ NotLater(a, b) \/ NotLater(b, a)
                        /\ Later(a, b) => NotLater(b, a)
BY EventFields DEF NotLater, Later

LEMMA OrderIsTransitive ==
    \A a, b, c \in Event : NotLater(a, b) /\ NotLater(b, c) => NotLater(a, c)
BY EventFields DEF NotLater, Later

LEMMA OrderIsAntisymmetric ==
    \A a, b \in Event : NotLater(a, b) /\ NotLater(b, a) => a = b
<1> SUFFICES ASSUME NEW a \in Event, NEW b \in Event, NotLater(a, b), NotLater(b, a)
             PROVE  a = b
  OBVIOUS
<1>1. a.first = b.first /\ a.second = b.second
  BY EventFields DEF NotLater, Later
<1> QED
  BY <1>1 DEF Event

LEMMA FollowUps ==
    \A e \in Event : /\ FollowUp(e) \in Event /\ NotLater(e, FollowUp(e))
                     /\ Delay[e.second] = 0 => FollowUp(e) = e
<1> SUFFICES ASSUME NEW e \in Event
             PROVE  /\ FollowUp(e) \in Event /\ NotLater(e, FollowUp(e))
                    /\ Delay[e.second] = 0 => FollowUp(e) = e
  OBVIOUS
<1>1. e.first \in Nat /\ e.second \in V /\ e.second \in Int /\ Delay[e.second] \in Nat
  BY DEF Event
<1>2. /\ FollowUp(e) \in Event
      /\ FollowUp(e).first = e.first + Delay[e.second]
      /\ FollowUp(e).second = e.second
  BY <1>1 DEF FollowUp, Event
<1>3. NotLater(e, FollowUp(e))
  BY <1>1, <1>2 DEF NotLater, Later
<1>4. Delay[e.second] = 0 => FollowUp(e) = e
  BY <1>1 DEF FollowUp, Event
<1> QED
  BY <1>2, <1>3, <1>4

-----------------------------------------------------------------------------
\* What the steps do to the pending events.

LEMMA PendingType ==
    ASSUME TypeOK
    PROVE  Pending \in [Positions -> Event]
BY DEF TypeOK, Pending, Positions

\* Taking an event out and putting it back changes nothing.
LEMMA PickKeepsPending ==
    ASSUME TypeOK, Pick
    PROVE  Pending' = Pending
<1>1. CASE j <= Len(events)
  <2>1. events' = events /\ pc = "pick" /\ pc' = "shift" /\ temp' = events[j] /\ i' + 1 = j
    BY <1>1 DEF Pick, TypeOK
  <2>2. Len(events) = NumEvents
    BY DEF TypeOK
  <2>3. [events EXCEPT ![j] = events[j]] = events
    BY <1>1, <2>2 DEF TypeOK
  <2> QED
    BY <2>1, <2>3 DEF Pending
<1>2. CASE ~(j <= Len(events))
  BY <1>2 DEF Pick, Pending
<1> QED
  BY <1>1, <1>2

LEMMA InsertKeepsPending ==
    ASSUME Insert
    PROVE  Pending' = Pending
BY DEF Insert, Pending

\* An iteration of the inner loop swaps two pending events.
LEMMA ShiftSwaps ==
    ASSUME TypeOK, Shift
    PROVE  /\ i \in Positions /\ i + 1 \in Positions
           /\ Pending' = [n \in Positions |->
                             IF n = i THEN Pending[i + 1]
                             ELSE IF n = i + 1 THEN Pending[i] ELSE Pending[n]]
           /\ Pending[i] = events[i] /\ Pending[i + 1] = temp
<1>1. i \in Positions /\ i + 1 \in Positions
  BY DEF TypeOK, Shift, Shifts, Positions
<1>2. events \in [Positions -> Event]
  BY DEF TypeOK, Positions
<1>3. Pending = [events EXCEPT ![i + 1] = temp]
  BY DEF Shift, Pending
<1>4. Pending' = [[events EXCEPT ![i + 1] = events[i]] EXCEPT ![i] = temp]
  <2>1. i' + 1 = i
    BY <1>1 DEF Shift, Positions
  <2> QED
    BY <2>1 DEF Shift, Pending
<1>5. i \in Int /\ i # i + 1
  BY <1>1 DEF Positions
<1>6. /\ Pending = [n \in Positions |-> IF n = i + 1 THEN temp ELSE events[n]]
      /\ Pending' = [n \in Positions |-> IF n = i THEN temp
                                         ELSE IF n = i + 1 THEN events[i] ELSE events[n]]
  BY <1>2, <1>3, <1>4
<1>7. Pending[i] = events[i] /\ Pending[i + 1] = temp
  BY <1>1, <1>5, <1>6
<1> QED
  BY <1>1, <1>6, <1>7

LEMMA ProcessAppends ==
    ASSUME TypeOK, Process
    PROVE  /\ Pending = events
           /\ 1 \in Positions /\ 2 \in Positions
           /\ Pending' = [n \in Positions |-> IF n = NumEvents THEN FollowUp(Pending[2])
                                              ELSE Pending[n + 1]]
           /\ processed' = Append(processed, Pending[1])
<1>1. 1 \in Positions /\ 2 \in Positions
  BY DEF Positions
<1>2. events \in Seq(Event) /\ Len(events) = NumEvents
  BY DEF TypeOK
<1>3. Head(events) = events[1] /\ Head(Tail(events)) = events[2]
  BY <1>2
<1>4. Tail(events) \in Seq(Event) /\ Len(Tail(events)) = NumEvents - 1
        /\ \A n \in 1..NumEvents - 1 : Tail(events)[n] = events[n + 1]
  BY <1>2
<1>5. events[2] \in Event
  BY <1>2
<1>6. events' = [n \in Positions |-> IF n = NumEvents THEN FollowUp(events[2])
                                     ELSE events[n + 1]]
  <2>1. events' = Append(Tail(events), FollowUp(events[2])) /\ FollowUp(events[2]) \in Event
    BY <1>3, <1>5, FollowUps DEF Process
  <2> QED
    BY <1>4, <2>1 DEF Positions
<1>7. Pending = events /\ Pending' = events'
  BY DEF Process, Pending
<1>8. processed' = Append(processed, events[1])
  BY <1>3 DEF Process
<1> QED
  BY <1>1, <1>6, <1>7, <1>8

-----------------------------------------------------------------------------
\* The inductive invariant, a part at a time.

LEMMA InitIInv == Init => IInv
<1> SUFFICES ASSUME Init PROVE IInv
  OBVIOUS
<1>1. events \in [1..NumEvents -> Event] /\ 1 \in 1..NumEvents
  <2>1. [first : StartTimes, second : V] \subseteq Event
    BY DEF Event
  <2> QED
    BY <2>1 DEF Init
<1>2. TypeOK
  BY <1>1 DEF Init, TypeOK
<1>3. Sorted
  BY DEF Init, Sorted
<1>4. Len(processed) = 0
  BY DEF Init
<1>5. ProcessedInOrder /\ TimeFreezes /\ NothingEarlier /\ FollowUpIsPending /\ LastIsPending
  BY <1>4 DEF ProcessedInOrder, TimeFreezes, NothingEarlier, FollowUpIsPending, LastIsPending
<1> QED
  BY <1>2, <1>3, <1>5 DEF IInv

LEMMA TypePreserved ==
    ASSUME TypeOK, Next
    PROVE  TypeOK'
<1> USE DEF TypeOK
<1>0. events \in Seq(Event) /\ Len(events) = NumEvents
  OBVIOUS
<1>1. CASE Pick
  <2>1. CASE j <= Len(events)
    <3>1. j \in 1..NumEvents /\ events[j] \in Event
      BY <1>0, <2>1
    <3> QED
      BY <1>1, <2>1, <3>1 DEF Pick
  <2>2. CASE ~(j <= Len(events))
    BY <1>1, <2>2 DEF Pick
  <2> QED
    BY <2>1, <2>2
<1>2. CASE Shift
  <2>1. i \in 1..NumEvents /\ i + 1 \in 1..NumEvents
    BY <1>2, ShiftSwaps DEF Positions
  <2> QED
    BY <1>2, <2>1 DEF Shift
<1>3. CASE Insert
  <2>1. i + 1 \in 1..NumEvents
    BY <1>3 DEF Insert
  <2> QED
    BY <1>3, <2>1 DEF Insert
<1>4. CASE Process
  <2>1. /\ Pending' = [n \in Positions |-> IF n = NumEvents THEN FollowUp(Pending[2])
                                             ELSE Pending[n + 1]]
        /\ processed' = Append(processed, Pending[1])
        /\ 1 \in Positions /\ 2 \in Positions
    BY <1>4, ProcessAppends
  <2>2. \A n \in Positions : Pending[n] \in Event
    BY PendingType
  <2>3. FollowUp(Pending[2]) \in Event
    BY <2>1, <2>2, FollowUps
  <2>4. events' = Pending'
    BY <1>4 DEF Process, Pending
  <2>5. \A n \in Positions : n # NumEvents => n + 1 \in Positions
    BY DEF Positions
  <2>6. Pending' \in [Positions -> Event]
    BY <2>1, <2>2, <2>3, <2>5
  <2>7. events' \in [1..NumEvents -> Event]
    BY <2>4, <2>6 DEF Positions
  <2>8. processed' \in Seq(Event)
    BY <2>1, <2>2
  <2> QED
    BY <1>4, <2>7, <2>8 DEF Process
<1> QED
  BY <1>1, <1>2, <1>3, <1>4 DEF Next

\* insertionSort sorts.
LEMMA SortedPreserved ==
    ASSUME TypeOK, Sorted, Next
    PROVE  Sorted'
<1>0. \A n \in Positions : Pending[n] \in Event
  BY PendingType
<1>1. CASE Pick
  <2>1. \A m, n \in Positions : m < n /\ n < j => NotLater(Pending[m], Pending[n])
    BY <1>1 DEF Pick, Sorted, Positions
  <2>2. CASE j <= Len(events)
    <3>1. pc' = "shift" /\ j' = j /\ i' + 1 = j
      BY <1>1, <2>2 DEF Pick, TypeOK
    <3>2. \A n \in Positions : n <= j /\ n # j => n < j
      BY DEF TypeOK, Positions
    <3> QED
      BY <1>1, <2>1, <3>1, <3>2, PickKeepsPending DEF Sorted, Positions
  <2>3. CASE ~(j <= Len(events))
    <3>1. pc' = "process"
      BY <1>1, <2>3 DEF Pick
    <3>2. \A n \in Positions : n < j
      BY <2>3 DEF TypeOK, Positions
    <3> QED
      BY <1>1, <2>1, <3>1, <3>2, PickKeepsPending DEF Sorted, Positions
  <2> QED
    BY <2>2, <2>3
<1>2. CASE Shift
  <2>1. pc = "shift" /\ pc' = "shift" /\ j' = j /\ i' + 1 = i
    BY <1>2, ShiftSwaps DEF Shift, Positions
  <2>2. \A m, n \in Positions : m < n /\ n <= j /\ n # i + 1
                                => NotLater(Pending[m], Pending[n])
    BY <2>1 DEF Sorted, Positions
  <2>3. NotLater(Pending[i + 1], Pending[i])
    BY <1>0, <1>2, ShiftSwaps, OrderIsTotal DEF Shift, Shifts
  <2>4. \A m, n \in Positions : m < n /\ n <= j /\ n # i
                                => NotLater(Pending'[m], Pending'[n])
    <3> SUFFICES ASSUME NEW m \in Positions, NEW n \in Positions, m < n, n <= j, n # i
                 PROVE  NotLater(Pending'[m], Pending'[n])
      OBVIOUS
    <3> USE DEF Positions
    <3>0. i \in Int /\ i < j /\ j \in Int
      BY <2>1 DEF TypeOK
    <3>1. CASE n = i + 1 /\ m = i
      BY <1>2, <2>3, <3>0, <3>1, ShiftSwaps
    <3>2. CASE n = i + 1 /\ m # i
      <4>1. m < i /\ Pending'[m] = Pending[m] /\ Pending'[n] = Pending[i]
        BY <1>2, <3>0, <3>2, ShiftSwaps
      <4> QED
        BY <1>2, <2>2, <3>0, <4>1, ShiftSwaps
    <3>3. CASE n # i + 1
      <4>1. Pending'[n] = Pending[n]
        BY <1>2, <3>3, ShiftSwaps
      <4>2. PICK k \in Positions : k < n /\ Pending'[m] = Pending[k]
        <5>1. CASE m = i
          BY <1>2, <3>0, <3>3, <5>1, ShiftSwaps
        <5>2. CASE m = i + 1
          BY <1>2, <3>0, <5>2, ShiftSwaps
        <5>3. CASE m # i /\ m # i + 1
          BY <1>2, <5>3, ShiftSwaps
        <5> QED
          BY <5>1, <5>2, <5>3
      <4> QED
        BY <2>2, <3>3, <4>1, <4>2
    <3> QED
      BY <3>1, <3>2, <3>3
  <2> QED
    BY <2>1, <2>4 DEF Sorted, Positions
<1>3. CASE Insert
  <2>1. pc = "shift" /\ pc' = "pick" /\ j' = j + 1 /\ i + 1 <= j /\ i + 1 \in Positions
    BY <1>3 DEF Insert, TypeOK, Positions
  <2>2. \A m, n \in Positions : m < n /\ n <= j /\ n # i + 1
                                => NotLater(Pending[m], Pending[n])
    BY <2>1 DEF Sorted, Positions
  <2>3. \A m \in Positions : m < i + 1 => NotLater(Pending[m], Pending[i + 1])
    <3> SUFFICES ASSUME NEW m \in Positions, m < i + 1
                 PROVE  NotLater(Pending[m], Pending[i + 1])
      OBVIOUS
    <3>1. i \in Positions /\ m <= i /\ i >= 1 /\ i # i + 1
      BY <2>1 DEF TypeOK, Positions
    <3>2. Pending[i] = events[i] /\ Pending[i + 1] = temp
      BY <2>1, <3>1 DEF Pending, TypeOK, Positions
    <3>3. NotLater(Pending[i], Pending[i + 1])
      BY <1>3, <3>1, <3>2 DEF Insert, Shifts, NotLater
    <3>4. CASE m = i
      BY <3>3, <3>4
    <3>5. CASE m # i
      <4>1. m < i /\ i <= j
        BY <2>1, <3>1, <3>5 DEF TypeOK, Positions
      <4>2. NotLater(Pending[m], Pending[i])
        BY <2>2, <3>1, <4>1
      <4> QED
        BY <1>0, <2>1, <3>1, <3>3, <4>2, OrderIsTransitive
    <3> QED
      BY <3>4, <3>5
  <2>4. \A n \in Positions : n < j + 1 => n <= j
    BY DEF TypeOK, Positions
  <2> QED
    BY <1>3, <2>1, <2>2, <2>3, <2>4, InsertKeepsPending DEF Sorted, Positions
<1>4. CASE Process
  <2>1. pc' = "pick" /\ j' = 2
    BY <1>4 DEF Process
  <2> QED
    BY <2>1 DEF Sorted
<1> QED
  BY <1>1, <1>2, <1>3, <1>4 DEF Next

\* The other parts do not depend on the order of the pending events.
LEMMA OrderDoesNotMatter ==
    ASSUME NEW s \in [Positions -> Positions], \A n \in Positions : s[s[n]] = n,
           Pending' = [n \in Positions |-> Pending[s[n]]], processed' = processed,
           ProcessedInOrder, TimeFreezes, NothingEarlier, FollowUpIsPending, LastIsPending
    PROVE  /\ ProcessedInOrder' /\ TimeFreezes'
           /\ NothingEarlier' /\ FollowUpIsPending' /\ LastIsPending'
<1>1. ProcessedInOrder' /\ TimeFreezes'
  BY DEF ProcessedInOrder, TimeFreezes
<1>2. \A n \in Positions : s[n] \in Positions /\ Pending'[n] = Pending[s[n]]
                             /\ Pending'[s[n]] = Pending[n]
  OBVIOUS
<1>3. NothingEarlier'
  BY <1>2 DEF NothingEarlier, Positions
<1>4. FollowUpIsPending'
  <2> SUFFICES ASSUME Len(processed) >= 1
               PROVE  \E m, n \in Positions :
                          m # n /\ IsEarliest(m)' /\ Pending'[n] = FollowUp(Pending'[m])
    BY DEF FollowUpIsPending, Positions
  <2>1. PICK m, n \in Positions :
            m # n /\ IsEarliest(m) /\ Pending[n] = FollowUp(Pending[m])
    BY DEF FollowUpIsPending, Positions
  <2>2. IsEarliest(s[m])'
    BY <1>2, <2>1 DEF IsEarliest, Positions
  <2>3. s[m] # s[n] /\ Pending'[s[n]] = FollowUp(Pending'[s[m]])
    BY <1>2, <2>1
  <2> QED
    BY <1>2, <2>2, <2>3
<1>5. LastIsPending'
  BY <1>2 DEF LastIsPending, Positions
<1> QED
  BY <1>1, <1>3, <1>4, <1>5

LEMMA ProcessPreserves ==
    ASSUME IInv, Process
    PROVE  /\ ProcessedInOrder' /\ TimeFreezes'
           /\ NothingEarlier' /\ FollowUpIsPending' /\ LastIsPending'
<1> DEFINE L == Len(processed)
           e == Pending[1]
<1>1. /\ Pending' = [n \in Positions |-> IF n = NumEvents THEN FollowUp(Pending[2])
                                           ELSE Pending[n + 1]]
      /\ processed' = Append(processed, e)
      /\ 1 \in Positions /\ 2 \in Positions
  BY ProcessAppends DEF IInv
<1>2. \A n \in Positions : Pending[n] \in Event
  BY PendingType DEF IInv
<1>3. /\ L \in Nat /\ Len(processed') = L + 1 /\ processed'[L + 1] = e
      /\ \A k \in 1..L : processed[k] \in Event /\ processed'[k] = processed[k]
  BY <1>1, <1>2 DEF IInv, TypeOK
<1>4. \A m, n \in Positions : m <= n => NotLater(Pending[m], Pending[n])
  <2>1. \A m, n \in Positions : m < n => NotLater(Pending[m], Pending[n])
    BY DEF Process, IInv, Sorted, Positions
  <2> QED
    BY <1>2, <2>1, OrderIsTotal DEF Positions
<1>5. \A n \in Positions : NotLater(e, Pending[n])
  BY <1>1, <1>4 DEF Positions
<1>6. \A n \in Positions : \/ Pending'[n] = FollowUp(Pending[2])
                           \/ n + 1 \in Positions /\ Pending'[n] = Pending[n + 1]
  BY <1>1 DEF Positions
<1>7. FollowUp(Pending[2]) \in Event /\ NotLater(Pending[2], FollowUp(Pending[2]))
  BY <1>1, <1>2, FollowUps
<1>8. \A a \in Event : (\A n \in Positions : NotLater(a, Pending[n]))
                        => (\A n \in Positions : NotLater(a, Pending'[n]))
  BY <1>1, <1>2, <1>6, <1>7, OrderIsTransitive
<1>9. \A m \in 1..L, n \in Positions : NotLater(processed[m], Pending[n])
  BY DEF IInv, NothingEarlier, Positions
<1>10. ProcessedInOrder'
  <2> SUFFICES ASSUME NEW m \in 1..L + 1, NEW n \in 1..L + 1, m <= n
               PROVE  NotLater(processed'[m], processed'[n])
    BY <1>3 DEF ProcessedInOrder
  <2>1. CASE n # L + 1
    BY <1>3, <2>1 DEF IInv, ProcessedInOrder
  <2>2. CASE n = L + 1 /\ m # L + 1
    BY <1>1, <1>3, <1>9, <2>2
  <2>3. CASE n = L + 1 /\ m = L + 1
    BY <1>1, <1>2, <1>3, <2>3, OrderIsTotal
  <2> QED
    BY <2>1, <2>2, <2>3
<1>11. NothingEarlier'
  <2> SUFFICES ASSUME NEW m \in 1..L + 1, NEW n \in Positions
               PROVE  NotLater(processed'[m], Pending'[n])
    BY <1>3 DEF NothingEarlier, Positions
  <2>1. CASE m = L + 1
    BY <1>1, <1>2, <1>3, <1>5, <1>8, <2>1
  <2>2. CASE m # L + 1
    <3>1. m \in 1..L
      BY <1>3, <2>2
    <3> QED
      BY <1>3, <1>8, <1>9, <3>1
  <2> QED
    BY <2>1, <2>2
<1>12. FollowUpIsPending'
  <2>1. NumEvents \in Positions /\ 1 # NumEvents
    BY DEF Positions
  <2>2. Pending'[1] = Pending[2] /\ Pending'[NumEvents] = FollowUp(Pending[2])
    BY <1>1, <2>1
  <2>3. \A n \in Positions : NotLater(Pending[2], Pending'[n])
    <3> SUFFICES ASSUME NEW n \in Positions, n + 1 \in Positions
                 PROVE  NotLater(Pending[2], Pending[n + 1])
      BY <1>6, <1>7
    <3> QED
      BY <1>1, <1>4 DEF Positions
  <2>4. IsEarliest(1)'
    BY <2>2, <2>3 DEF IsEarliest, Positions
  <2> QED
    BY <1>1, <2>1, <2>2, <2>4 DEF FollowUpIsPending, Positions
<1>13. LastIsPending'
  <2> SUFFICES ASSUME L >= 1, Delay[e.second] = 0
               PROVE  \E n \in Positions : Pending'[n] = e
    BY <1>3 DEF LastIsPending, Positions
  <2>1. PICK m, n \in Positions :
            m # n /\ IsEarliest(m) /\ Pending[n] = FollowUp(Pending[m])
    BY DEF IInv, FollowUpIsPending, Positions
  <2>2. NotLater(Pending[m], e)
    BY <1>1, <2>1 DEF IsEarliest, Positions
  <2>3. Pending[m] = e
    BY <1>1, <1>2, <1>5, <2>2, OrderIsAntisymmetric
  <2>4. Pending[n] = e
    BY <1>1, <1>2, <2>1, <2>3, FollowUps
  <2>5. PICK k \in Positions : k # 1 /\ Pending[k] = e
    BY <2>1, <2>3, <2>4
  <2>6. k - 1 \in Positions /\ k - 1 # NumEvents /\ (k - 1) + 1 = k
    BY <2>5 DEF Positions
  <2> QED
    BY <1>1, <2>5, <2>6
<1>14. TimeFreezes'
  <2> SUFFICES ASSUME NEW m \in 2..L + 1, NEW n \in 2..L + 1, m <= n,
                      Delay[processed'[m].second] = 0
               PROVE  processed'[n] = processed'[m]
    BY <1>3 DEF TimeFreezes
  <2>1. CASE n # L + 1
    BY <1>3, <2>1 DEF IInv, TimeFreezes
  <2>2. CASE m = L + 1
    BY <2>2
  <2>3. CASE n = L + 1 /\ m # L + 1
    <3>1. L \in 2..L /\ m \in 2..L /\ m <= L /\ L \in 1..L /\ m \in 1..L
      BY <1>3, <2>3
    <3>2. processed[L] = processed[m]
      BY <1>3, <3>1 DEF IInv, TimeFreezes
    <3>3. PICK k \in Positions : Pending[k] = processed[L]
      BY <1>3, <3>1, <3>2 DEF IInv, LastIsPending, Positions
    <3>4. e = processed[L]
      BY <1>1, <1>2, <1>3, <1>5, <1>9, <3>1, <3>3, OrderIsAntisymmetric
    <3> QED
      BY <1>3, <2>3, <3>1, <3>2, <3>4
  <2> QED
    BY <2>1, <2>2, <2>3
<1> QED
  BY <1>10, <1>11, <1>12, <1>13, <1>14

LEMMA SpecIInv == Spec => []IInv
<1>1. IInv /\ [Next]_vars => IInv'
  <2> SUFFICES ASSUME IInv, [Next]_vars PROVE IInv'
    OBVIOUS
  <2> DEFINE Rest == /\ ProcessedInOrder /\ TimeFreezes
                     /\ NothingEarlier /\ FollowUpIsPending /\ LastIsPending
             same == [n \in Positions |-> n]
             swap == [n \in Positions |-> IF n = i THEN i + 1
                                         ELSE IF n = i + 1 THEN i ELSE n]
  <2>1. CASE Next
    <3>1. TypeOK' /\ Sorted'
      BY <2>1, TypePreserved, SortedPreserved DEF IInv
    <3>2. CASE Pick \/ Insert
      <4>1. Pending' = Pending /\ processed' = processed
        BY <3>2, PickKeepsPending, InsertKeepsPending DEF IInv, Pick, Insert
      <4>2. same \in [Positions -> Positions] /\ \A n \in Positions : same[same[n]] = n
        OBVIOUS
      <4>3. Pending' = [n \in Positions |-> Pending[same[n]]]
        BY <4>1, PendingType DEF IInv
      <4>4. Rest'
        BY <4>1, <4>2, <4>3, OrderDoesNotMatter DEF IInv
      <4> QED
        BY <3>1, <4>4 DEF IInv
    <3>3. CASE Shift
      <4>1. /\ i \in Positions /\ i + 1 \in Positions
            /\ Pending' = [n \in Positions |-> IF n = i THEN Pending[i + 1]
                                ELSE IF n = i + 1 THEN Pending[i] ELSE Pending[n]]
            /\ processed' = processed
        BY <3>3, ShiftSwaps DEF IInv, Shift
      <4>2. swap \in [Positions -> Positions] /\ \A n \in Positions : swap[swap[n]] = n
        BY <4>1 DEF Positions
      <4>3. Pending' = [n \in Positions |-> Pending[swap[n]]]
        BY <4>1 DEF Positions
      <4>4. Rest'
        BY <4>1, <4>2, <4>3, OrderDoesNotMatter DEF IInv
      <4> QED
        BY <3>1, <4>4 DEF IInv
    <3>4. CASE Process
      BY <3>1, <3>4, ProcessPreserves DEF IInv
    <3> QED
      BY <2>1, <3>2, <3>3, <3>4 DEF Next
  <2>2. CASE UNCHANGED vars
    BY <2>2 DEF vars, IInv, TypeOK, ProcessedInOrder, TimeFreezes, Sorted, NothingEarlier,
                FollowUpIsPending, LastIsPending, IsEarliest, Pending
  <2> QED
    BY <2>1, <2>2
<1> QED
  BY InitIInv, <1>1, PTL DEF Spec

-----------------------------------------------------------------------------
\* The variables have their types: the vector keeps its length.
THEOREM SpecTypeOK == Spec => []TypeOK
<1>1. IInv => TypeOK
  BY DEF IInv
<1> QED
  BY SpecIInv, <1>1, PTL

\* The in-place sort and the appended follow-ups keep the events in order.
THEOREM SpecProcessedInOrder == Spec => []ProcessedInOrder
<1>1. IInv => ProcessedInOrder
  BY DEF IInv
<1> QED
  BY SpecIInv, <1>1, PTL

\* An event whose follow-ups have no delay is the last one the loop of main
\* ever sees, unless it is the first.
THEOREM SpecTimeFreezes == Spec => []TimeFreezes
<1>1. IInv => TimeFreezes
  BY DEF IInv
<1> QED
  BY SpecIInv, <1>1, PTL

-----------------------------------------------------------------------------
\* The bag of the values a function takes on a finite set of positions.

LEMMA PlacesFinite ==
    ASSUME NEW f, NEW D, IsFiniteSet(D), NEW x
    PROVE  /\ IsFiniteSet(Places(f, D, x)) /\ Cardinality(Places(f, D, x)) \in Nat
           /\ Cardinality(Places(f, D, x)) = 0 <=> x \notin {f[n] : n \in D}
<1>1. Places(f, D, x) \in SUBSET D
  BY DEF Places
<1>2. IsFiniteSet(Places(f, D, x))
  BY <1>1, FS_Subset
<1>3. Places(f, D, x) = {} <=> x \notin {f[n] : n \in D}
  BY DEF Places
<1> QED
  BY <1>2, <1>3, FS_CardinalityType, FS_EmptySet

\* Taking a position away takes its value out of the bag once.
LEMMA BagOnRemove ==
    ASSUME NEW f, NEW D, IsFiniteSet(D), NEW k \in D
    PROVE  Abstract!BagRemove(BagOn(f, D), f[k]) = BagOn(f, D \ {k})
<1> DEFINE B == BagOn(f, D)
           e == f[k]
<1>1. DOMAIN B = {f[n] : n \in D} /\ e \in DOMAIN B
  BY DEF BagOn
<1>2. \A x \in DOMAIN B : B[x] = Cardinality(Places(f, D, x)) /\ B[x] \in Nat
  BY <1>1, PlacesFinite DEF BagOn
<1>3. \A x : Places(f, D \ {k}, x) = IF x = e THEN Places(f, D, x) \ {k} ELSE Places(f, D, x)
  BY DEF Places
<1>4. Cardinality(Places(f, D, e) \ {k}) = B[e] - 1 /\ IsFiniteSet(D \ {k})
  <2>1. k \in Places(f, D, e)
    BY DEF Places
  <2> QED
    <3>1. IsFiniteSet(Places(f, D, e)) /\ B[e] = Cardinality(Places(f, D, e))
      BY <1>1, <1>2, PlacesFinite
    <3> HIDE DEF B, e
    <3>2. Cardinality(Places(f, D, e) \ {k}) = B[e] - 1
      BY <2>1, <3>1, FS_RemoveElement
    <3>3. IsFiniteSet(D \ {k})
      BY FS_RemoveElement
    <3> QED
      BY <3>2, <3>3 DEF B, e
<1>5. {f[n] : n \in D \ {k}} = IF B[e] = 1 THEN DOMAIN B \ {e} ELSE DOMAIN B
  <2>1. \A x : x \in {f[n] : n \in D \ {k}} <=> Cardinality(Places(f, D \ {k}, x)) # 0
    BY <1>4, PlacesFinite
  <2>2. e \in {f[n] : n \in D \ {k}} <=> B[e] # 1
    <3>1. Cardinality(Places(f, D \ {k}, e)) = B[e] - 1 /\ B[e] \in Nat
      BY <1>1, <1>2, <1>3, <1>4
    <3> HIDE DEF B
    <3>2. B[e] - 1 # 0 <=> B[e] # 1
      BY <3>1
    <3> QED
      BY <2>1, <3>1, <3>2
  <2>3. \A x : x # e => (x \in {f[n] : n \in D \ {k}} <=> x \in DOMAIN B)
    BY <1>1
  <2> QED
    BY <1>1, <2>2, <2>3
<1> DEFINE R == BagOn(f, D \ {k})
<1>6. /\ DOMAIN R = {f[n] : n \in D \ {k}}
      /\ R = [x \in DOMAIN R |-> IF x = e THEN B[x] - 1 ELSE B[x]]
  <2>1. \A x \in {f[n] : n \in D \ {k}} :
            Cardinality(Places(f, D \ {k}, x)) = IF x = e THEN B[x] - 1 ELSE B[x]
    BY <1>1, <1>2, <1>3, <1>4
  <2> QED
    BY <2>1 DEF BagOn
<1> HIDE DEF B, R, e
<1>7. Abstract!BagRemove(B, e) = R
  <2>1. CASE B[e] = 1
    BY <1>1, <1>5, <1>6, <2>1 DEF Abstract!BagRemove
  <2>2. CASE B[e] # 1
    BY <1>1, <1>5, <1>6, <2>2 DEF Abstract!BagRemove
  <2> QED
    BY <2>1, <2>2
<1> QED
  BY <1>7 DEF B, R, e

\* One more position puts its value in the bag once more.
LEMMA BagOnAdd ==
    ASSUME NEW f, NEW D, IsFiniteSet(D), NEW k, k \notin D
    PROVE  Abstract!BagAdd(BagOn(f, D), f[k]) = BagOn(f, D \cup {k})
<1> DEFINE B == BagOn(f, D)
           e == f[k]
           A == BagOn(f, D \cup {k})
<1>1. DOMAIN B = {f[n] : n \in D} /\ DOMAIN A = DOMAIN B \cup {e}
  BY DEF BagOn
<1>2. \A x \in DOMAIN B : B[x] = Cardinality(Places(f, D, x))
  BY <1>1 DEF BagOn
<1>3. \A x : Places(f, D \cup {k}, x) = IF x = e THEN Places(f, D, x) \cup {k} ELSE Places(f, D, x)
  BY DEF Places
<1>4. Cardinality(Places(f, D, e) \cup {k}) = Cardinality(Places(f, D, e)) + 1
  <2>1. k \notin Places(f, D, e)
    BY DEF Places
  <2> QED
    BY <2>1, PlacesFinite, FS_AddElement
<1>5. e \notin DOMAIN B => Cardinality(Places(f, D, e)) = 0
  BY <1>1, PlacesFinite
<1>6. A = [x \in DOMAIN A |-> IF x = e THEN Cardinality(Places(f, D, e)) + 1 ELSE B[x]]
  <2>1. \A x \in DOMAIN A : Cardinality(Places(f, D \cup {k}, x))
                             = IF x = e THEN Cardinality(Places(f, D, e)) + 1 ELSE B[x]
    BY <1>1, <1>2, <1>3, <1>4
  <2> QED
    BY <2>1 DEF BagOn
<1> HIDE DEF A, B, e
<1>7. Abstract!BagAdd(B, e) = A
  <2>1. CASE e \in DOMAIN B
    BY <1>1, <1>2, <1>6, <2>1 DEF Abstract!BagAdd
  <2>2. CASE e \notin DOMAIN B
    BY <1>1, <1>5, <1>6, <2>2 DEF Abstract!BagAdd
  <2> QED
    BY <2>1, <2>2
<1> QED
  BY <1>7 DEF A, B, e

\* A one-to-one renaming of the positions leaves the bag as it is.
LEMMA BagOnRenamed ==
    ASSUME NEW f, NEW D, IsFiniteSet(D), NEW g, NEW E, NEW s \in [D -> E], NEW t \in [E -> D],
           \A n \in D : t[s[n]] = n /\ g[s[n]] = f[n], \A m \in E : s[t[m]] = m
    PROVE  BagOn(g, E) = BagOn(f, D)
<1>1. {g[m] : m \in E} = {f[n] : n \in D}
  <2>1. \A m \in E : t[m] \in D /\ g[m] = f[t[m]]
    OBVIOUS
  <2>2. \A n \in D : s[n] \in E /\ f[n] = g[s[n]]
    OBVIOUS
  <2> QED
    BY <2>1, <2>2
<1>2. ASSUME NEW x
      PROVE  Cardinality(Places(g, E, x)) = Cardinality(Places(f, D, x))
  <2> DEFINE S == Places(f, D, x)
             T == Places(g, E, x)
             b == [n \in S |-> s[n]]
  <2>1. \A n \in S : n \in D /\ f[n] = x
    BY DEF Places
  <2>2. b \in [S -> T]
    BY <2>1 DEF Places
  <2>3. \A m \in T : t[m] \in S /\ b[t[m]] = m
    BY DEF Places
  <2>4. \A m, n \in S : b[m] = b[n] => m = n
    BY <2>1
  <2> HIDE DEF S, T, b
  <2>5. b \in Bijection(S, T)
    BY <2>2, <2>3, <2>4 DEF Bijection, Injection, Surjection, IsInjective
  <2>6. ExistsBijection(S, T)
    BY <2>5 DEF ExistsBijection
  <2>7. IsFiniteSet(S)
    BY PlacesFinite DEF S
  <2> QED
    BY <2>6, <2>7, FS_Bijection DEF S, T
<1> QED
  BY <1>1, <1>2 DEF BagOn

-----------------------------------------------------------------------------
\* The refinement: the vector is read as the bag of its events.

LEMMA SameEvents ==
    /\ Abstract!Event = Event
    /\ \A a, b : Abstract!NotLater(a, b) <=> NotLater(a, b)
    /\ \A e : Abstract!FollowUp(e) = FollowUp(e)
BY DEF Event, Abstract!Event, NotLater, Abstract!NotLater, Later, Abstract!Later,
       FollowUp, Abstract!FollowUp

LEMMA PositionsFinite == IsFiniteSet(Positions)
BY FS_Interval DEF Positions

\* A bag has one earliest event.
LEMMA EarliestOfBag ==
    ASSUME NEW D, NEW f \in [D -> Event], NEW S \in SUBSET D, NEW m \in S,
           \A n \in S : NotLater(f[m], f[n])
    PROVE  Abstract!Earliest(BagOn(f, S)) = f[m]
<1> DEFINE T == {f[n] : n \in S}
<1>1. DOMAIN BagOn(f, S) = T
  BY DEF BagOn
<1>2. f[m] \in T /\ \A x \in T : NotLater(f[m], x) /\ x \in Event
  OBVIOUS
<1> HIDE DEF T
<1>3. \A e \in T : (\A x \in T : NotLater(e, x)) => e = f[m]
  BY <1>2, OrderIsAntisymmetric
<1>4. f[m] = CHOOSE e \in T : \A x \in T : NotLater(e, x)
  BY <1>2, <1>3
<1>5. f[m] = CHOOSE e \in T : \A x \in T : Abstract!NotLater(e, x)
  BY <1>4, SameEvents
<1> QED
  BY <1>1, <1>5 DEF Abstract!Earliest

LEMMA InitAbstract == Init => Abstract!Init
<1> SUFFICES ASSUME Init PROVE Abstract!Init
  OBVIOUS
<1> DEFINE B == BagOn(Pending, Positions)
<1>1. Pending \in [Positions -> Event] /\ 1 \in Positions /\ 2 \in Positions
  <2>1. TypeOK
    BY InitIInv DEF IInv
  <2> QED
    BY <2>1, PendingType DEF Positions
<1>2. DOMAIN B = {Pending[n] : n \in Positions}
  BY DEF BagOn
<1>3. \A e \in DOMAIN B : e \in Event
  BY <1>1, <1>2
<1>4. Abstract!BagRemove(B, Pending[1]) = BagOn(Pending, Positions \ {1})
  BY <1>1, PositionsFinite, BagOnRemove
<1>5. Pending[2] \in DOMAIN BagOn(Pending, Positions \ {1})
  BY <1>1 DEF BagOn
<1>6. \E e \in DOMAIN B : DOMAIN Abstract!BagRemove(B, e) # {}
  BY <1>1, <1>2, <1>4, <1>5
<1>7. processed = << >>
  BY DEF Init
<1> QED
  BY <1>3, <1>6, <1>7, SameEvents DEF Abstract!Init, Positions

\* A swap keeps the bag.
LEMMA ShiftKeepsBag ==
    ASSUME TypeOK, Shift
    PROVE  BagOn(Pending, Positions)' = BagOn(Pending, Positions)
<1> DEFINE swap == [n \in Positions |-> IF n = i THEN i + 1
                                        ELSE IF n = i + 1 THEN i ELSE n]
           f == Pending
           g == Pending'
<1>1. /\ i \in Positions /\ i + 1 \in Positions
      /\ g = [n \in Positions |-> IF n = i THEN f[i + 1]
                                   ELSE IF n = i + 1 THEN f[i] ELSE f[n]]
  BY ShiftSwaps
<1>2. i \in Int /\ i # i + 1
  BY <1>1 DEF Positions
<1> HIDE DEF f, g
<1>3. /\ swap \in [Positions -> Positions]
      /\ \A n \in Positions : swap[swap[n]] = n /\ g[swap[n]] = f[n]
  BY <1>1, <1>2
<1> HIDE DEF swap
<1>4. BagOn(g, Positions) = BagOn(f, Positions)
  BY <1>3, PositionsFinite, BagOnRenamed
<1> QED
  BY <1>4 DEF f, g, Positions

\* Processing takes the first position out of the bag and puts the follow-up
\* of the second one in.
LEMMA ProcessBag ==
    ASSUME IInv, Process
    PROVE  Abstract!Process
<1> DEFINE f == Pending
           g == Pending'
           Rest == Positions \ {1}
           Front == Positions \ {NumEvents}
           B == BagOn(f, Positions)
           R == BagOn(f, Rest)
           s == [n \in Rest |-> n - 1]
           t == [n \in Front |-> n + 1]
<1>1. /\ 1 \in Positions /\ 2 \in Positions /\ NumEvents \in Positions
      /\ g = [n \in Positions |-> IF n = NumEvents THEN FollowUp(f[2]) ELSE f[n + 1]]
      /\ processed' = Append(processed, f[1])
  BY ProcessAppends DEF IInv, Positions
<1>2. f \in [Positions -> Event]
  BY PendingType DEF IInv
<1>3. \A m, n \in Positions : m <= n => NotLater(f[m], f[n])
  <2>1. \A m, n \in Positions : m < n => NotLater(f[m], f[n])
    BY DEF Process, IInv, Sorted, Positions
  <2> QED
    BY <1>2, <2>1, OrderIsTotal DEF Positions
<1> HIDE DEF f, g
<1>4. Abstract!Earliest(B) = f[1]
  <2>1. \A n \in Positions : NotLater(f[1], f[n])
    BY <1>1, <1>3 DEF Positions
  <2>2. Positions \in SUBSET Positions /\ 1 \in Positions
    BY <1>1
  <2> QED
    BY <1>2, <2>1, <2>2, EarliestOfBag
<1>5. Abstract!BagRemove(B, f[1]) = R
  BY <1>1, PositionsFinite, BagOnRemove
<1>6. Abstract!Earliest(R) = f[2]
  <2>1. 2 \in Rest /\ \A n \in Rest : NotLater(f[2], f[n])
    BY <1>1, <1>3 DEF Positions
  <2> QED
    BY <1>2, <2>1, EarliestOfBag
<1>7. BagOn(g, Front) = R
  <2>1. s \in [Rest -> Front] /\ t \in [Front -> Rest]
    BY DEF Positions
  <2>2. \A n \in Rest : t[s[n]] = n /\ g[s[n]] = f[n]
    BY <1>1 DEF Positions
  <2>3. \A m \in Front : s[t[m]] = m
    BY DEF Positions
  <2>4. IsFiniteSet(Rest)
    BY PositionsFinite, FS_RemoveElement
  <2> HIDE DEF s, t, Rest, Front
  <2> QED
    BY <2>1, <2>2, <2>3, <2>4, BagOnRenamed
<1>8. BagOn(g, Positions) = Abstract!BagAdd(R, FollowUp(f[2]))
  <2>1. IsFiniteSet(Front) /\ NumEvents \notin Front /\ Front \cup {NumEvents} = Positions
    BY <1>1, PositionsFinite, FS_RemoveElement
  <2>2. g[NumEvents] = FollowUp(f[2])
    BY <1>1
  <2> QED
    BY <1>7, <2>1, <2>2, BagOnAdd
<1>9. Len(processed) < MaxEvents
  BY DEF Process
<1> QED
  BY <1>1, <1>4, <1>5, <1>6, <1>8, <1>9, SameEvents DEF Abstract!Process, f, g, Positions

LEMMA NextAbstract ==
    IInv /\ [Next]_vars
    => [Abstract!Process]_<<BagOn(Pending, 1..NumEvents), processed>>
<1> SUFFICES ASSUME IInv, [Next]_vars, ~Process
             PROVE  UNCHANGED <<BagOn(Pending, 1..NumEvents), processed>>
  BY ProcessBag
<1>1. CASE Pick \/ Insert
  <2>1. Pending' = Pending /\ processed' = processed
    BY <1>1, PickKeepsPending, InsertKeepsPending DEF IInv, Pick, Insert
  <2> QED
    BY <2>1 DEF BagOn, Places
<1>2. CASE Shift
  BY <1>2, ShiftKeepsBag DEF IInv, Shift, Positions
<1>3. CASE UNCHANGED vars
  BY <1>3 DEF vars, Pending, BagOn, Places
<1> QED
  BY <1>1, <1>2, <1>3 DEF Next

\* The vector that is sorted in place implements the bag from which the
\* earliest event is taken: no event is lost or copied by the sort, and none
\* is processed before an earlier one.
THEOREM SpecImplementsEarliestFirst == Spec => ImplementsEarliestFirst
BY SpecIInv, InitAbstract, NextAbstract, PTL
DEF Spec, ImplementsEarliestFirst, Abstract!Spec

=============================================================================
