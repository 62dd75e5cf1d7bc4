------------------------------ MODULE MCSaveTx ------------------------------
(* Three reports, two of the same instant. *)
EXTENDS SaveTx

CONSTANTS i1, i2, i3, t1, t2

MCRequest  == {i1, i2, i3}
MCInstant  == {t1, t2}
MCLastSeen == [i \in MCRequest |-> IF i = i3 THEN t2 ELSE t1]
HandledFaults == AllFaults \ {"commit"}
CommitFaults == {"commit"}
=============================================================================
