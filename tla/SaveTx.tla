------------------------------- MODULE SaveTx -------------------------------
(***************************************************************************)
(* Saving reports: POST /telemetry, service.Save and the transaction of    *)
(* timescale.Save, for many requests at once.  A request locates its       *)
(* address, begins a transaction, inserts one row and lets a deferred      *)
(* closure end the transaction after its return value is already fixed;    *)
(* then the client is answered.                                            *)
(* The table's primary key is the report's own last_seen, so two reports   *)
(* of the same instant meet in the database, which makes the second insert *)
(* wait for the first transaction (PostgreSQL's unique index).             *)
(***************************************************************************)
EXTENDS Naturals

CONSTANTS
  Request,   \* reports posted, one per request
  Instant,   \* values of last_seen
  LastSeen,  \* [Request -> Instant]
  Faults     \* which of AllFaults may happen

AllFaults == {"locate", "begin", "exec", "commit", "cancel", "crash"}

ASSUME InstantAssumption == LastSeen \in [Request -> Instant]
ASSUME FaultAssumption   == Faults \subseteq AllFaults

VARIABLES
  pc,        \* where each request's handler is
  tx,        \* its transaction: "none", "open", "aborted" by an error, or "over"
  pending,   \* requests whose row is inserted by a transaction still open
  result,    \* what Save returns: "none" so far, "ok" (a nil error) or "error"
  cancelled, \* requests whose client has gone (the context is done)
  durable    \* requests whose row is committed

vars == <<pc, tx, pending, result, cancelled, durable>>

Rivals(i) == {j \in Request \ {i} : LastSeen[j] = LastSeen[i]}

Init ==
  /\ pc = [i \in Request |-> "idle"]
  /\ tx = [i \in Request |-> "none"]
  /\ result = [i \in Request |-> "none"]
  /\ pending = {}
  /\ cancelled = {}
  /\ durable = {}

Move(i, at, to) ==
  /\ pc[i] = at
  /\ pc' = [pc EXCEPT ![i] = to]

\* Mutation of Refuse: a state the handler does not have.
RefuseTwice(i, at) ==
  /\ Move(i, at, "refused")
  /\ result' = [result EXCEPT ![i] = "error"]
  /\ UNCHANGED <<tx, pending, cancelled, durable>>

\* An error before the transaction exists: nothing is deferred yet.
Refuse(i, at) ==
  /\ Move(i, at, "answer")
  /\ result' = [result EXCEPT ![i] = "error"]
  /\ UNCHANGED <<tx, pending, cancelled, durable>>

\* The request is decoded; saveEndpoint validates it before it calls Save.
Receive(i) ==
  /\ Move(i, "idle", "locate")
  /\ UNCHANGED <<tx, pending, result, cancelled, durable>>

\* The report is valid and its address has a location, or it is refused.
Locate(i) ==
  \/ /\ Move(i, "locate", "begin")
     /\ UNCHANGED <<tx, pending, result, cancelled, durable>>
  \/ "locate" \in Faults /\ Refuse(i, "locate")

\* BeginTxx fails when no connection can be had or the context is done.
Begin(i) ==
  \/ /\ i \notin cancelled
     /\ Move(i, "begin", "exec")
     /\ tx' = [tx EXCEPT ![i] = "open"]
     /\ UNCHANGED <<pending, result, cancelled, durable>>
  \/ ("begin" \in Faults \/ i \in cancelled) /\ Refuse(i, "begin")

\* Mutations of Insert: the key is not looked at; a row whose key is there is skipped.
InsertUnkeyed(i) ==
  /\ tx[i] = "open"
  /\ pending' = pending \cup {i}
  /\ result' = [result EXCEPT ![i] = "ok"]
  /\ UNCHANGED tx
InsertOrIgnore(i) ==
  /\ tx[i] = "open"
  /\ Rivals(i) \cap pending = {}
  /\ pending' = IF Rivals(i) \cap durable = {} THEN pending \cup {i} ELSE pending
  /\ result' = [result EXCEPT ![i] = "ok"]
  /\ UNCHANGED tx

\* The row goes in once no rival holds its key.
Insert(i) ==
  /\ tx[i] = "open"
  /\ Rivals(i) \cap (pending \cup durable) = {}
  /\ pending' = pending \cup {i}
  /\ result' = [result EXCEPT ![i] = "ok"]
  /\ UNCHANGED tx

Fail(i) ==
  /\ result' = [result EXCEPT ![i] = "error"]
  /\ UNCHANGED pending

\* Mutation of Conflict: an insert that must wait is refused, one that must fail waits.
ConflictWhilePending(i) ==
  /\ tx[i] = "open"
  /\ Rivals(i) \cap pending # {}
  /\ tx' = [tx EXCEPT ![i] = "aborted"]
  /\ Fail(i)

\* A rival's committed row refuses the insert.
Conflict(i) ==
  /\ tx[i] = "open"
  /\ Rivals(i) \cap durable # {}
  /\ tx' = [tx EXCEPT ![i] = "aborted"]
  /\ Fail(i)

\* Mutation of Break: the error is found after the row went in.
BreakAfterInsert(i) ==
  /\ tx[i] = "open"
  /\ Rivals(i) \cap (pending \cup durable) = {}
  /\ pending' = pending \cup {i}
  /\ result' = [result EXCEPT ![i] = "error"]
  /\ UNCHANGED tx

\* The statement fails in the database, which aborts the transaction, or before it
\* gets there, which leaves the transaction open and empty.
Break(i) ==
  /\ "exec" \in Faults
  /\ tx[i] = "open"
  /\ \E status \in {"open", "aborted"} : tx' = [tx EXCEPT ![i] = status]
  /\ Fail(i)

\* database/sql has rolled the transaction back already.
TooLate(i) ==
  /\ tx[i] = "over"
  /\ Fail(i)
  /\ UNCHANGED tx

\* tx.NamedExec.  Its error is a new variable of the if statement, so the closure
\* deferred before does not see it.
Exec(i) ==
  /\ Move(i, "exec", "deferred")
  /\ Insert(i) \/ Conflict(i) \/ Break(i) \/ TooLate(i)
  /\ UNCHANGED <<cancelled, durable>>

End(i) ==
  /\ tx' = [tx EXCEPT ![i] = "over"]
  /\ pending' = pending \ {i}

\* Commit on an open transaction: its row, if it has one, becomes durable, unless the
\* connection is lost before the database hears of it.
Commits(i) ==
  /\ tx[i] = "open"
  /\ i \notin cancelled
  /\ durable' \in
       {durable \cup (pending \cap {i})} \cup (IF "commit" \in Faults THEN {durable} ELSE {})
  /\ End(i)

\* Commit refuses when the context is done, and the rollback is left to database/sql.
CommitsTooLate(i) ==
  /\ tx[i] = "open"
  /\ i \in cancelled
  /\ UNCHANGED <<tx, pending, durable>>

\* Commit of an aborted transaction rolls it back; of one that is over, does nothing.
CommitsNothing(i) ==
  /\ tx[i] \in {"aborted", "over"}
  /\ UNCHANGED durable
  /\ End(i)

\* Mutation of Deferred: the closure returns with the transaction left open.
DeferredForgets(i) ==
  /\ Move(i, "deferred", "answer")
  /\ UNCHANGED <<tx, pending, result, cancelled, durable>>

\* The deferred closure: the outer err is BeginTxx's nil, so it always commits, and
\* what Commit returns comes too late to change the result.
Deferred(i) ==
  /\ Move(i, "deferred", "answer")
  /\ Commits(i) \/ CommitsTooLate(i) \/ CommitsNothing(i)
  /\ UNCHANGED <<result, cancelled>>

\* Save has returned, and the endpoint's answer is written: until then the client may
\* leave, or the process die, with the report stored.
Respond(i) ==
  /\ Move(i, "answer", "done")
  /\ UNCHANGED <<tx, pending, result, cancelled, durable>>

Running(i) == pc[i] \in {"locate", "begin", "exec", "deferred", "answer"}

\* The client goes away while the handler runs.
Cancel(i) ==
  /\ "cancel" \in Faults
  /\ Running(i)
  /\ i \notin cancelled
  /\ cancelled' = cancelled \cup {i}
  /\ UNCHANGED <<pc, tx, pending, result, durable>>

\* database/sql rolls the transaction of a done context back on its own.
RollBack(i) ==
  /\ i \in cancelled
  /\ tx[i] \in {"open", "aborted"}
  /\ End(i)
  /\ UNCHANGED <<pc, result, cancelled, durable>>

\* The service dies: requests in flight get no answer and the database rolls back.
Crash ==
  /\ "crash" \in Faults
  /\ \E i \in Request : Running(i)
  /\ pc' = [i \in Request |-> IF Running(i) THEN "lost" ELSE pc[i]]
  /\ tx' = [i \in Request |-> IF tx[i] = "none" THEN "none" ELSE "over"]
  /\ pending' = {}
  /\ UNCHANGED <<result, cancelled, durable>>

Handle(i) == Locate(i) \/ Begin(i) \/ Exec(i) \/ Deferred(i) \/ Respond(i)

Stopped == \A i \in Request : pc[i] \in {"done", "lost"} /\ tx[i] \in {"none", "over"}

Next ==
  \/ \E i \in Request : Receive(i) \/ Handle(i) \/ Cancel(i) \/ RollBack(i)
  \/ Crash
  \/ Stopped /\ UNCHANGED vars

\* What a handler gets to do in the end: it does not wait for its insert to break.
Work(i) ==
  \/ Locate(i) \/ Begin(i) \/ Deferred(i) \/ Respond(i)
  \/ /\ Move(i, "exec", "deferred")
     /\ Insert(i) \/ Conflict(i) \/ TooLate(i)
     /\ UNCHANGED <<cancelled, durable>>

\* Handlers run, and database/sql's rollback goroutine does.
Fairness == \A i \in Request : WF_vars(Work(i)) /\ WF_vars(RollBack(i))

Spec == Init /\ [][Next]_vars
FairSpec == Spec /\ Fairness

----------------------------------------------------------------------------
(* Properties *)

\* Created: a 201, to a client that was still there when it was written.
Created  == {i \in Request \ cancelled : pc[i] = "done" /\ result[i] = "ok"}
Rejected == {i \in Request : pc[i] = "done" /\ result[i] = "error"}

\* Every variable has its type.
TypeOK ==
  /\ pc \in [Request -> {"idle", "locate", "begin", "exec", "deferred", "answer", "done", "lost"}]
  /\ tx \in [Request -> {"none", "open", "aborted", "over"}]
  /\ pending \subseteq Request
  /\ result \in [Request -> {"none", "ok", "error"}]
  /\ cancelled \subseteq Request
  /\ durable \subseteq Request

\* A report that was refused is not stored, although the deferred closure commits
\* even after a failed insert (timescale.go:125): the client may safely send it again.
RejectedNotStored == Rejected \cap durable = {}

\* A report that was acknowledged is stored: "A non-nil error is returned to indicate
\* operation failure" (telemetry.go:62).
CreatedIsStored == Created \subseteq durable

\* No two stored rows share an instant.
OneRowPerInstant == \A i, j \in durable : LastSeen[i] = LastSeen[j] => i = j

\* An insert waits only for transactions that end without it: of a handler that has its
\* row in and only its deferred closure to run, or of a client that has gone, which
\* database/sql rolls back.  So no two inserts wait for each other (init.go:28).
WaitsEnd ==
  \A i \in Request : pc[i] = "exec" /\ tx[i] = "open" =>
    \A j \in Rivals(i) \cap pending : pc[j] = "deferred" \/ j \in cancelled

\* Every handler that does not die with the process returns, even behind a rival's
\* insert whose client has gone, and without an error to get it out of the wait.
Answered == \A i \in Request : pc[i] = "locate" ~> pc[i] \in {"done", "lost"}

----------------------------------------------------------------------------
(* The invariants behind them *)

\* A row that is inserted or stored belongs to a request whose insert succeeded, and
\* holds its instant alone: rows in open transactions count as much as stored ones.
RowInv ==
  /\ \A i \in pending : tx[i] = "open"
  /\ \A i \in pending \cup durable :
       result[i] = "ok" /\ pc[i] \in {"deferred", "answer", "done", "lost"}
  /\ \A i, j \in pending \cup durable : LastSeen[i] = LastSeen[j] => i = j

\* A transaction that still has a row is not left behind: its handler has yet to run the
\* deferred closure, or its client has gone.
WaitInv ==
  \A j \in pending : pc[j] = "deferred" \/ (pc[j] \in {"answer", "done"} /\ j \in cancelled)

\* Without lost commits, what succeeded for a client that is still there is on its
\* way to be stored, and what is about to be answered got there.
AckInv ==
  /\ \A i \in Request \ cancelled : result[i] = "ok" =>
       \/ pc[i] = "deferred" /\ i \in pending
       \/ pc[i] \in {"answer", "done"} /\ i \in durable
       \/ pc[i] = "lost"
  /\ \A i \in Request : pc[i] \in {"deferred", "answer", "done"} => result[i] # "none"

----------------------------------------------------------------------------
(* What Save promises *)

\* What each client has been told.  One that left before it was answered is told nothing.
Reply ==
  [i \in Request |-> IF pc[i] = "done" /\ i \notin cancelled THEN result[i] ELSE "none"]

Atomic == INSTANCE AtomicSave WITH stored <- durable, answer <- Reply

\* Save is atomic: handlers that interleave, wait for each other's keys, fail, lose
\* their client or die with the process look like single steps that store a report, and
\* others that tell its client, truly, whether it is stored.  A report may be stored and
\* its client never told (service.Save, timescale.Save, saveEndpoint).
ImplementsAtomicSave == Atomic!Spec
=============================================================================
