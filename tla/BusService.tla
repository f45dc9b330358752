----------------------------- MODULE BusService -----------------------------
(***************************************************************************)
(* What the memory bus of src/HW5 promises to the CPUs: one line of CPUs,  *)
(* served first come, first served, one at a time.  The simulator keeps    *)
(* two queues in two classes for it (MemoryBus::requestQueue and           *)
(* BusArbiter::requestQueue); SnoopySystem implements this module with     *)
(* line being the CPUs of the first and holder the owner of the bus.       *)
(***************************************************************************)
EXTENDS QueueOps

CONSTANT Customer, Nobody

VARIABLES line, holder

TypeOK == line \in Seq(Customer) /\ holder \in Customer \cup {Nobody}

Init == line = << >> /\ holder = Nobody

\* A customer joins the end of the line, where it is not yet.
Join(c) == c \notin Elements(line) /\ line' = Append(line, c) /\ UNCHANGED holder

\* The bus is given to the customer who has waited longest.
Grant == holder = Nobody /\ line # << >> /\ holder' = Head(line) /\ UNCHANGED line

\* The holder, still at the head of the line, is served and leaves.
Serve == holder # Nobody /\ line' = Tail(line) /\ holder' = Nobody

\* A customer that does not hold the bus leaves the line unserved.
Leave(c) ==
    /\ c \in Elements(line) /\ c # holder
    /\ line' = Without(line, c)
    /\ UNCHANGED holder

Next == Grant \/ Serve \/ \E c \in Customer : Join(c) \/ Leave(c)

Spec == Init /\ [][Next]_<<line, holder>>

=============================================================================
