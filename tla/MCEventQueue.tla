----------------------------- MODULE MCEventQueue ------------------------------
(***************************************************************************)
(* EventQueue on a short queue, with delays of 0, 1 and 2.                 *)
(***************************************************************************)
EXTENDS EventQueue

Delays == [v \in V |-> v]

=============================================================================
