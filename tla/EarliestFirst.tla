----------------------------- MODULE EarliestFirst -----------------------------
(***************************************************************************)
(* What the event queue of src/HW1/main.cpp promises: the earliest of the  *)
(* pending events is processed, and the one that is then the earliest gets *)
(* a follow-up.  The pending events are a bag (a function that says how    *)
(* often each of them is there): no order is kept.                         *)
(***************************************************************************)
EXTENDS Event, Sequences, BagsExt

CONSTANT MaxEvents  \* MAX_EVENTS

VARIABLES
    pending,        \* the bag of the events to be processed
    processed

\* Two events at least.
Init ==
    /\ \A e \in DOMAIN pending : e \in Event
    /\ \E e \in DOMAIN pending : DOMAIN BagRemove(pending, e) # {}
    /\ processed = << >>

Earliest(bag) == CHOOSE e \in DOMAIN bag : \A f \in DOMAIN bag : NotLater(e, f)

Process ==
    /\ Len(processed) < MaxEvents
    /\ LET next == Earliest(pending)
           rest == BagRemove(pending, next)
       IN  /\ processed' = Append(processed, next)
           /\ pending' = BagAdd(rest, FollowUp(Earliest(rest)))

Spec == Init /\ [][Process]_<<pending, processed>>

=============================================================================
