------------------------------ MODULE EventQueue ------------------------------
(***************************************************************************)
(* The event queue of src/HW1/main.cpp: a vector that insertionSort sorts  *)
(* in place, after it is filled and after every event that is processed.   *)
(*                                                                         *)
(* One action per iteration of the two loops of insertionSort; positions   *)
(* count from 1 here, and i is 0 where the code's is -1.  pc names where   *)
(* the program is:                                                         *)
(*                                                                         *)
(*   pick      at the head of the outer loop                               *)
(*   shift     at the head of the inner loop: position i + 1 is the hole   *)
(*             that temp goes into                                         *)
(*   process   at the head of the loop of main                             *)
(***************************************************************************)
EXTENDS Event, Sequences, FiniteSets

CONSTANTS NumEvents, MaxEvents, \* NUM_EVENTS and MAX_EVENTS
          StartTimes            \* the values clock() can have at the start

ASSUME QueueAssumption ==
    /\ NumEvents \in Nat /\ NumEvents >= 2 /\ MaxEvents \in Nat
    /\ StartTimes \subseteq Nat

VARIABLES
    events, processed,
    j, i, temp,         \* of insertionSort
    pc

vars == <<events, processed, j, i, temp, pc>>

\* The clock does not run backwards.  temp and i are not declared yet: their
\* values are not used before Pick gives them one.
Init ==
    /\ events \in [1..NumEvents -> [first : StartTimes, second : V]]
    /\ \A n \in 1..NumEvents - 1 : events[n].first <= events[n + 1].first
    /\ processed = << >>
    /\ j = 2 /\ i = 0 /\ temp = events[1]
    /\ pc = "pick"

\* One more iteration of the outer loop, or the end of insertionSort.
Pick ==
    /\ pc = "pick"
    /\ IF j <= Len(events)
       THEN temp' = events[j] /\ i' = j - 1 /\ pc' = "shift"
       ELSE pc' = "process" /\ UNCHANGED <<temp, i>>
    /\ UNCHANGED <<events, processed, j>>

\* (Mutation: the loop ends at the second position.)
ShiftsShort == i > 1 /\ Later(events[i], temp)
Shifts == i >= 1 /\ Later(events[i], temp)

Shift ==
    /\ pc = "shift" /\ Shifts
    /\ events' = [events EXCEPT ![i + 1] = events[i]]
    /\ i' = i - 1
    /\ UNCHANGED <<processed, j, temp, pc>>

Insert ==
    /\ pc = "shift" /\ ~Shifts
    /\ events' = [events EXCEPT ![i + 1] = temp]
    /\ j' = j + 1 /\ pc' = "pick"
    /\ UNCHANGED <<processed, i, temp>>

\* The loop of main, up to the call of insertionSort.
Process ==
    /\ pc = "process" /\ Len(processed) < MaxEvents
    /\ processed' = Append(processed, Head(events))
    /\ events' = Append(Tail(events), FollowUp(Head(Tail(events))))
    /\ j' = 2 /\ pc' = "pick"
    /\ UNCHANGED <<i, temp>>

Next == Pick \/ Shift \/ Insert \/ Process

Spec == Init /\ [][Next]_vars

-----------------------------------------------------------------------------
\* The events to be processed: in the loops of insertionSort the one in temp
\* is missing from the vector.
Pending == IF pc = "shift" THEN [events EXCEPT ![i + 1] = temp] ELSE events

\* Every slot of the vector holds an event, and the indices of insertionSort
\* stay within it.
TypeOK ==
    /\ events \in [1..NumEvents -> Event]
    /\ processed \in Seq(Event)
    /\ pc \in {"pick", "shift", "process"}
    /\ j \in 2..NumEvents + 1 /\ i \in 0..NumEvents
    /\ temp \in Event
    /\ pc = "shift" => i < j /\ j <= NumEvents

\* Events are processed in the order of their times, and of their numbers
\* within a time, although each follow-up is appended behind later events.
ProcessedInOrder ==
    \A m, n \in 1..Len(processed) : m <= n => NotLater(processed[m], processed[n])

\* Time stands still for good when an event is processed whose follow-ups
\* have no delay: no other event is processed any more.  The first event
\* processed is the exception, since it never got a follow-up.
TimeFreezes ==
    \A m, n \in 2..Len(processed) :
        m <= n /\ Delay[processed[m].second] = 0 => processed[n] = processed[m]

\* The bag of the values of f at the positions in D (SequencesExt's ToBag, in
\* symbols the provers know).
Places(f, D, x) == {n \in D : f[n] = x}
BagOn(f, D) == [x \in {f[n] : n \in D} |-> Cardinality(Places(f, D, x))]

\* Sorting the vector in place neither loses nor copies an event, and the
\* events processed are the earliest ones.
Abstract == INSTANCE EarliestFirst WITH pending <- BagOn(Pending, 1..NumEvents)
ImplementsEarliestFirst == Abstract!Spec

-----------------------------------------------------------------------------
\* What makes the properties inductive.

\* How far the pending events are sorted.  In the inner loop the hole is out
\* of order with what is before it only.
Sorted ==
    \A m, n \in 1..NumEvents :
        /\ m < n
        /\ pc = "pick" => n < j
        /\ pc = "shift" => n <= j /\ n # i + 1
        => NotLater(Pending[m], Pending[n])

NothingEarlier ==
    \A m \in 1..Len(processed), n \in 1..NumEvents : NotLater(processed[m], Pending[n])

IsEarliest(m) == \A n \in 1..NumEvents : NotLater(Pending[m], Pending[n])

\* The follow-up of the earliest event is in the queue before the event is
\* processed.
FollowUpIsPending ==
    Len(processed) >= 1 =>
        \E m, n \in 1..NumEvents :
            m # n /\ IsEarliest(m) /\ Pending[n] = FollowUp(Pending[m])

LastIsPending ==
    Len(processed) >= 2 /\ Delay[processed[Len(processed)].second] = 0
        => \E n \in 1..NumEvents : Pending[n] = processed[Len(processed)]

IInv ==
    /\ TypeOK /\ ProcessedInOrder /\ TimeFreezes
    /\ Sorted /\ NothingEarlier /\ FollowUpIsPending /\ LastIsPending

=============================================================================
