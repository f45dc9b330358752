---------------------------- MODULE PrivateMemory ----------------------------
(***************************************************************************)
(* A multiprocessor without shared memory: every CPU stores to and loads   *)
(* from an array of its own.  This is what the directory simulator of      *)
(* src/HW5-2 amounts to, because a cache addresses every request to its    *)
(* own node and the directory of that node answers its own cache.          *)
(***************************************************************************)
EXTENDS Naturals

CONSTANTS CPU, Address, Datum, Initial(_), None

VARIABLES
    mem,        \* the array of every CPU
    received    \* the datum every CPU loaded last, None before it loaded one

Init ==
    /\ mem = [i \in CPU |-> [a \in Address |-> Initial(a)]]
    /\ received = [i \in CPU |-> None]

Store(i, a, d) ==
    /\ mem' = [j \in CPU |-> [b \in Address |->
                  IF j = i /\ b = a THEN d ELSE mem[j][b]]]
    /\ UNCHANGED received

Load(i, a) ==
    /\ received' = [j \in CPU |-> IF j = i THEN mem[i][a] ELSE received[j]]
    /\ UNCHANGED mem

Next == \E i \in CPU, a \in Address : Load(i, a) \/ \E d \in Datum : Store(i, a, d)

Spec == Init /\ [][Next]_<<mem, received>>

=============================================================================
