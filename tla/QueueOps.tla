------------------------------ MODULE QueueOps ------------------------------
(***************************************************************************)
(* The loops of HW5 that rebuild a std::queue or std::list without some of *)
(* its elements (BusArbiter::removeEntry, MemoryBus::getRequestByCPUID,    *)
(* std::list::remove).  They are written over the set of indices that stay *)
(* rather than with SelectSeq, which the provers treat as an opaque symbol.*)
(***************************************************************************)
EXTENDS Integers, Sequences, FiniteSets

\* The n-th smallest element of a finite set K of naturals.
Nth(K, n) == CHOOSE k \in K : Cardinality({m \in K : m <= k}) = n

\* The elements of s at the indices in kept, in their order.
Subsequence(s, kept) == [n \in 1..Cardinality(kept) |-> s[Nth(kept, n)]]

\* s without any occurrence of x.
Without(s, x) == Subsequence(s, {n \in DOMAIN s : s[n] # x})

Elements(s) == {s[n] : n \in DOMAIN s}

NoRepeats(s) == \A m, n \in DOMAIN s : s[m] = s[n] => m = n

=============================================================================
