---------------------------- MODULE MCLifecycle ----------------------------
(* Two requests. *)
EXTENDS Lifecycle

CONSTANTS r1, r2

MCRequest == {r1, r2}
EveryFault == AllFaults
=============================================================================
