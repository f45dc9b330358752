-------------------------------- MODULE Event ---------------------------------
(***************************************************************************)
(* The events of src/HW1/main.cpp: pairs of a time and a number, in the    *)
(* order the event queue keeps them in.                                    *)
(***************************************************************************)
EXTENDS Integers

CONSTANTS
    V,      \* the numbers rand() % 100 gives an event
    Delay   \* seedRNG: the number after srand(v), always the same for a v

ASSUME EventAssumption == V \subseteq Int /\ Delay \in [V -> Nat]

Event == [first : Nat, second : V]

\* The condition insertionSort moves an event up on, and its opposite.
Later(a, b) == a.first > b.first \/ (a.first = b.first /\ a.second > b.second)
NotLater(a, b) == ~Later(a, b)

\* addNewEvent, when e is the earliest event.
\* (Mutations: the pair is swapped; the delay counts from nothing; it is
\* never 0.)
FollowUpSwapped(e) == [first |-> e.second, second |-> e.first + Delay[e.second]]
FollowUpFromZero(e) == [e EXCEPT !.first = Delay[e.second]]
FollowUpDelayed(e) == [e EXCEPT !.first = e.first + Delay[e.second] + 1]
FollowUp(e) == [e EXCEPT !.first = e.first + Delay[e.second]]

=============================================================================
