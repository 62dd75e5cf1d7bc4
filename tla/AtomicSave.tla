----------------------------- MODULE AtomicSave -----------------------------
(***************************************************************************)
(* What saving a report promises: it is stored in one step, or never, and  *)
(* its client is told in a later one, or never.  A report is stored only   *)
(* while no stored report has its instant and nobody was told that it is   *)
(* not; it may be refused for any reason.  A client that leaves, or that   *)
(* the service dies on, is told nothing, and its report may be stored all  *)
(* the same.                                                               *)
(***************************************************************************)
CONSTANTS
  Request,  \* reports posted
  LastSeen  \* [Request -> instants], the key of each

VARIABLES
  stored,   \* the reports in the table
  answer    \* what each client was told: "none" so far, "ok" or "error"

vars == <<stored, answer>>

Init ==
  /\ stored = {}
  /\ answer = [i \in Request |-> "none"]

Accept(i) ==
  /\ answer[i] = "none"
  /\ \A j \in stored : LastSeen[j] # LastSeen[i]
  /\ stored' = stored \cup {i}
  /\ UNCHANGED answer

\* The client is told, once and for all.
Tell(i) ==
  /\ answer[i] = "none"
  /\ answer' = [answer EXCEPT ![i] = IF i \in stored THEN "ok" ELSE "error"]
  /\ UNCHANGED stored

Next == \E i \in Request : Accept(i) \/ Tell(i)

Spec == Init /\ [][Next]_vars
=============================================================================
