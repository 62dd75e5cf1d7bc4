--------------------------- MODULE MCHomingClient ---------------------------
(* One client: a sleep of five units, a back-off of two. *)
EXTENDS HomingClient

EveryFault == AllFaults
=============================================================================
