------------------------------ MODULE MCSnoopy ------------------------------
(***************************************************************************)
(* SnoopySystem on small instances.                                        *)
(***************************************************************************)
EXTENDS SnoopySystem

\* The values of the uninitialized nextState: built without optimization the
\* program prints only UNKNOWN (HW5/output.txt), with -O1 only INVALID, and
\* with -O2 and -O3 either of them or SHARED.
Optimized == {"INVALID"}
NotOwning == {"INVALID", "UNKNOWN", "SHARED"}
NotHolding == {"INVALID", "UNKNOWN"}

\* The values of the uninitialized SnoopingUpdate.
AnyUpdate == BusSnoopState
NoUpdate == {"UNKNOWN"}

=============================================================================
