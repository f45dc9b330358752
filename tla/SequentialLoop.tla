---------------------------- MODULE SequentialLoop ----------------------------
(***************************************************************************)
(* What the simulator of src/HW2 promises: the five instructions of its    *)
(* loop take effect one after the other, and the loop is repeated until    *)
(* the pointer x1 has reached x2.                                          *)
(***************************************************************************)
EXTENDS Integers

CONSTANTS
    Start, End,     \* x1 and x2 at the beginning
    Step            \* what addi takes from x1

VARIABLES
    next,           \* the instruction that takes effect next
    x1, f0, f4

vars == <<next, x1, f0, f4>>

f2 == 0

Init == next = "ld" /\ x1 = Start /\ f0 = 0 /\ f4 = 0

Load == next = "ld" /\ f0' = x1 /\ next' = "add" /\ UNCHANGED <<x1, f4>>
Add == next = "add" /\ f4' = f0 + f2 /\ next' = "sd" /\ UNCHANGED <<x1, f0>>
Save == next = "sd" /\ next' = "addi" /\ UNCHANGED <<x1, f0, f4>>
Decrement == next = "addi" /\ x1' = x1 - Step /\ next' = "bne" /\ UNCHANGED <<f0, f4>>
Branch == next = "bne" /\ x1 # End /\ next' = "ld" /\ UNCHANGED <<x1, f0, f4>>

Next == Load \/ Add \/ Save \/ Decrement \/ Branch

Spec == Init /\ [][Next]_vars

=============================================================================
