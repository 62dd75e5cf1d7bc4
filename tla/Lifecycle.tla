----------------------------- MODULE Lifecycle -----------------------------
(***************************************************************************)
(* The life of the process.  main migrates the database, one transaction   *)
(* per migration, prepares the tracer and the service, and then waits for  *)
(* a group of two goroutines: Start, which runs the HTTP server in a third *)
(* one and selects between the context and that one's error, and           *)
(* StopSignalHandler, which selects between a signal and the context.      *)
(* Both may call the server's Stop; Stop and the first error of the group  *)
(* end the context.  net/http makes ListenAndServe return as soon as       *)
(* Shutdown is called, long before Shutdown has waited for the requests in *)
(* flight.  A process that is killed or exits with another status than     *)
(* zero is started again (restart: on-failure).                            *)
(***************************************************************************)
EXTENDS Naturals, Sequences, FiniteSets

CONSTANTS
  Request,  \* requests that may be in flight
  Faults    \* which of AllFaults may happen

AllFaults == {"setup", "bind", "accept", "tracer", "kill"}

ASSUME FaultAssumption == Faults \subseteq AllFaults

VARIABLES
  main,      \* "migrate", "trace" or "service" while it sets up, "waiting" in g.Wait;
             \* "exited" with status zero, "failed" with another one, or "killed"
  applied,   \* migrations recorded in the database
  objects,   \* what they made there
  draft,     \* objects as the open migration's transaction sees them
  executed,  \* statements of the open migration executed so far
  pc,        \* of the two goroutines: "init", "select", "shutdown" or "returned"
  listener,  \* "none", "binding", "listening", "ended" (sending on errCh) or "gone"
  done,      \* the context is done
  closed,    \* Shutdown has been called
  signals,   \* signals in the handler's channel
  active,    \* requests in flight
  timedOut,  \* a Shutdown gave up waiting
  broken     \* listening or accepting failed

database == <<applied, objects, draft, executed>>
memory == <<pc, listener, done, closed, signals, active, timedOut, broken>>
vars == <<main, database, memory>>

Group   == {"start", "signal"}
SetUp   == {"migrate", "trace", "service"}
Running == main = "waiting"

\* The statements of the migrations: a retention policy is named by its interval, and
\* the indexes of a migration are one statement.
Up == << <<"telemetry">>, <<"90_days">>, <<"mac_address">>, <<"indexes_4">>,
         <<"indexes_5">>, <<"indexes_6">>, <<"no_policy", "1_year">> >>

Policies == {"90_days", "1_year"}
Objects  == {"telemetry", "mac_address", "indexes_4", "indexes_5", "indexes_6"} \cup Policies

\* Only indexes are created if they do not exist; anything else is an error if it does.
Possible(statement) ==
  /\ statement = "no_policy" => draft \cap Policies # {}
  /\ statement \in Policies => draft \cap Policies = {}
  /\ statement \in {"telemetry", "mac_address"} => statement \notin draft

After(statement) ==
  IF statement = "no_policy" THEN draft \ Policies ELSE draft \cup {statement}

InitialPc == [g \in Group |-> IF g = "start" THEN "init" ELSE "select"]

\* The first start, over an empty database.
Init ==
  /\ main = "migrate"
  /\ applied = 0 /\ objects = {} /\ draft = {} /\ executed = 0
  /\ pc = InitialPc /\ listener = "none"
  /\ done = FALSE /\ closed = FALSE
  /\ signals = 0 /\ active = {}
  /\ timedOut = FALSE /\ broken = FALSE

----------------------------------------------------------------------------
(* Starting *)

Pending == applied < Len(Up) /\ executed < Len(Up[applied + 1])
Statement == Up[applied + 1][executed + 1]

\* Mutation of Execute: outside a transaction.
ExecuteOutside ==
  /\ main = "migrate"
  /\ Pending /\ Possible(Statement)
  /\ draft' = After(Statement) /\ objects' = draft'
  /\ executed' = executed + 1
  /\ UNCHANGED <<main, applied, memory>>

\* MigrateDB executes the next statement of the next migration.
Execute ==
  /\ main = "migrate"
  /\ Pending /\ Possible(Statement)
  /\ draft' = After(Statement)
  /\ executed' = executed + 1
  /\ UNCHANGED <<main, applied, objects, memory>>

\* Mutation of Record: after the first statement.
RecordEarly ==
  /\ main = "migrate"
  /\ applied < Len(Up) /\ executed > 0
  /\ applied' = applied + 1 /\ objects' = draft
  /\ executed' = 0
  /\ UNCHANGED <<main, draft, memory>>

\* The migration is recorded in the transaction that made it, and committed.
Record ==
  /\ main = "migrate"
  /\ applied < Len(Up) /\ executed = Len(Up[applied + 1])
  /\ applied' = applied + 1 /\ objects' = draft
  /\ executed' = 0
  /\ UNCHANGED <<main, draft, memory>>

Proceed(from, to) ==
  /\ main = from
  /\ main' = to
  /\ UNCHANGED <<database, memory>>

\* SetupDB returns when no migration is left.
Migrated == applied = Len(Up) /\ Proceed("migrate", "trace")

\* The tracer's provider is made ...
Traced == Proceed("trace", "service")

\* ... and the service, with its location file; then the group starts.
Serve == Proceed("service", "waiting")

\* Mutation of Fatal: main returns after the message.
FatalReturns ==
  /\ "setup" \in Faults
  /\ \E stage \in SetUp : Proceed(stage, "exited")

\* A call of set-up fails: log.Fatalf.
Fatal ==
  /\ "setup" \in Faults
  /\ \E stage \in SetUp : Proceed(stage, "failed")

\* Something kills the process, SIGTERM among it, which it does not handle.
Kill ==
  /\ "kill" \in Faults
  /\ main \in SetUp \cup {"waiting"}
  /\ main' = "killed"
  /\ UNCHANGED <<database, memory>>

\* The container is started again: the database has rolled back what was open.
Restart ==
  /\ main \in {"failed", "killed"}
  /\ main' = "migrate"
  /\ draft' = objects /\ executed' = 0
  /\ pc' = InitialPc /\ listener' = "none"
  /\ done' = FALSE /\ closed' = FALSE
  /\ signals' = 0 /\ active' = {}
  /\ timedOut' = FALSE /\ broken' = FALSE
  /\ UNCHANGED <<applied, objects>>

Move(g, at, to) ==
  /\ Running
  /\ pc[g] = at
  /\ pc' = [pc EXCEPT ![g] = to]

----------------------------------------------------------------------------
(* The listening goroutine, its requests, and signals *)

\* Start starts the listening goroutine.
Launch ==
  /\ Move("start", "init", "select")
  /\ listener' = "binding"
  /\ UNCHANGED <<main, database, done, closed, signals, active, timedOut, broken>>

\* ListenAndServe refuses to start once Shutdown was called, and may fail to bind.
Listen ==
  /\ Running
  /\ listener = "binding"
  /\ \/ ~closed /\ listener' = "listening" /\ UNCHANGED broken
     \/ closed /\ listener' = "ended" /\ UNCHANGED broken
     \/ "bind" \in Faults /\ listener' = "ended" /\ broken' = TRUE
  /\ UNCHANGED <<main, database, pc, done, closed, signals, active, timedOut>>

\* Serve returns when Shutdown has been called ...
ServeEnds ==
  /\ Running
  /\ listener = "listening" /\ closed
  /\ listener' = "ended"
  /\ UNCHANGED <<main, database, pc, done, closed, signals, active, timedOut, broken>>

\* ... or because accepting fails.
AcceptFails ==
  /\ "accept" \in Faults
  /\ Running
  /\ listener = "listening" /\ ~closed
  /\ listener' = "ended"
  /\ broken' = TRUE
  /\ UNCHANGED <<main, database, pc, done, closed, signals, active, timedOut>>

Arrive(r) ==
  /\ Running
  /\ listener = "listening" /\ ~closed
  /\ r \notin active
  /\ active' = active \cup {r}
  /\ UNCHANGED <<main, database, pc, listener, done, closed, signals, timedOut, broken>>

Complete(r) ==
  /\ Running
  /\ r \in active
  /\ active' = active \ {r}
  /\ UNCHANGED <<main, database, pc, listener, done, closed, signals, timedOut, broken>>

\* Mutation of Signal: a channel without bound.
SignalUnbounded ==
  /\ Running
  /\ signals' = signals + 1
  /\ UNCHANGED <<main, database, pc, listener, done, closed, active, timedOut, broken>>

\* SIGINT or SIGABRT: the channel holds two, the others are lost.
Signal ==
  /\ Running
  /\ signals < 2
  /\ signals' = signals + 1
  /\ UNCHANGED <<main, database, pc, listener, done, closed, active, timedOut, broken>>

----------------------------------------------------------------------------
(* The group *)

\* The server's Stop calls Shutdown.
BeginStop(g) ==
  /\ Move(g, "select", "shutdown")
  /\ closed' = TRUE

\* Mutation of ShutdownWaits: no deadline.
ShutdownWaitsForever == active = {} /\ UNCHANGED timedOut

\* Shutdown returns when no request is in flight, or at its deadline.
ShutdownWaits ==
  \/ active = {} /\ UNCHANGED timedOut
  \/ active # {} /\ timedOut' = TRUE

\* Stop's deferred Cancel ends the context, and its caller returns.
EndStop(g) ==
  /\ Move(g, "shutdown", "returned")
  /\ ShutdownWaits
  /\ done' = TRUE
  /\ UNCHANGED <<main, database, listener, closed, signals, active, broken>>

HearSignal ==
  /\ signals > 0
  /\ BeginStop("signal")
  /\ signals' = signals - 1
  /\ UNCHANGED <<main, database, listener, done, active, timedOut, broken>>

\* Start answers the end of the context with Stop, the signal handler by returning.
HearContext(g) ==
  /\ done
  /\ \/ g = "start" /\ BeginStop(g)
     \/ g = "signal" /\ Move(g, "select", "returned") /\ UNCHANGED closed
  /\ UNCHANGED <<main, database, listener, done, signals, active, timedOut, broken>>

\* Mutation of HearListener: the error is taken for a regular end.
HearListenerQuietly ==
  /\ listener = "ended"
  /\ Move("start", "select", "returned")
  /\ listener' = "gone"
  /\ UNCHANGED <<main, database, done, closed, signals, active, timedOut, broken>>

\* Start returns what ListenAndServe did, always an error: the group ends the context.
HearListener ==
  /\ listener = "ended"
  /\ Move("start", "select", "returned")
  /\ listener' = "gone"
  /\ done' = TRUE
  /\ UNCHANGED <<main, database, closed, signals, active, timedOut, broken>>

\* Mutation of Exit: main waits for one of the two.
ExitOnFirst ==
  /\ Running
  /\ \E g \in Group : pc[g] = "returned"
  /\ main' = "exited"
  /\ UNCHANGED <<database, pc, listener, done, closed, signals, active, timedOut, broken>>

\* g.Wait returns and main does, whatever the group's error: the status is zero unless
\* the tracer's deferred Shutdown fails.  What is still in flight is cut.
Exit ==
  /\ Running
  /\ \A g \in Group : pc[g] = "returned"
  /\ \/ main' = "exited"
     \/ "tracer" \in Faults /\ main' = "failed"
  /\ UNCHANGED <<database, pc, listener, done, closed, signals, active, timedOut, broken>>

Starting == Execute \/ Record \/ Migrated \/ Traced \/ Serve \/ Fatal \/ Kill \/ Restart
Server == Launch \/ Listen \/ ServeEnds
Stopping == HearSignal \/ HearListener \/ \E g \in Group : HearContext(g) \/ EndStop(g)

Next ==
  \/ Starting \/ Server \/ AcceptFails \/ Stopping \/ Signal \/ Exit
  \/ \E r \in Request : Arrive(r) \/ Complete(r)
  \/ main = "exited" /\ UNCHANGED vars

\* Goroutines run and Shutdown has a deadline.  Requests may take for ever.
Fairness == WF_vars(Server) /\ WF_vars(Stopping) /\ WF_vars(Exit)

\* The container is restarted, and no call of set-up fails or is cut for ever.
Supervised ==
  /\ WF_vars(Restart)
  /\ \A n \in 0 .. 1 : SF_vars(executed = n /\ Execute)
  /\ SF_vars(Record) /\ SF_vars(Migrated) /\ SF_vars(Traced) /\ SF_vars(Serve)

Spec == Init /\ [][Next]_vars
FairSpec == Spec /\ Fairness /\ Supervised

----------------------------------------------------------------------------
(* Properties *)

\* Every variable has its type.
TypeOK ==
  /\ main \in SetUp \cup {"waiting", "exited", "failed", "killed"}
  /\ applied \in 0 .. Len(Up) /\ executed \in 0 .. 2
  /\ objects \subseteq Objects /\ draft \subseteq Objects
  /\ pc \in [Group -> {"init", "select", "shutdown", "returned"}]
  /\ listener \in {"none", "binding", "listening", "ended", "gone"}
  /\ done \in BOOLEAN /\ closed \in BOOLEAN
  /\ signals \in 0 .. 2
  /\ active \subseteq Request
  /\ timedOut \in BOOLEAN /\ broken \in BOOLEAN

\* The process does not end under a request, although Start returns, and ends the
\* context, while the signal handler's Shutdown still waits (http.go:61-66): only a
\* Shutdown that timed out, a listener that broke down or a kill cuts requests.
GracefulExit == main \in {"exited", "failed"} => active = {} \/ timedOut \/ broken

\* Requests are served only over the schema of this release, wherever an earlier
\* process was killed: all migrations made, and the first retention policy replaced.
SchemaComplete ==
  main \in {"trace", "service", "waiting"} => objects = Objects \ {"90_days"}

\* However a start ended, the next one can go on: no statement that is left to execute
\* fails on what was there before (init.go:12-103).
MigrationsApply == main = "migrate" /\ Pending => Possible(Statement)

\* The group never waits for itself: once the server is shut down, the context done or
\* the listener finished, one goroutine has something to do that needs no other, or
\* g.Wait returns (main.go:85-93, server.go:52).
StopGoesOn ==
  Running /\ (closed \/ done \/ listener \in {"ended", "gone"}) =>
    \/ \A g \in Group : pc[g] = "returned"
    \/ \E g \in Group : pc[g] = "shutdown" \/ (pc[g] = "select" /\ done)
    \/ pc["start"] = "init"
    \/ pc["start"] = "select" /\ listener = "ended"

\* A signal ends the process, whatever the requests in flight do, and whichever of
\* the goroutines hears what first.
StopsOnSignal == signals > 0 /\ pc["signal"] = "select" ~> ~Running

\* So does a server that cannot listen: the signal handler does not keep it alive.
FailureEnds == listener = "ended" ~> ~Running

\* A process that was killed or gave up comes up again: it exits with a status that
\* restarts it, and the database it left lets it.
ComesUp == main \in {"failed", "killed"} ~> Running

\* "restart: on-failure" (docker-compose.yml:30): a server whose listener failed is
\* started again, unless a signal asks it to stop.
FailureRestarted == broken /\ ~closed ~> main = "migrate" \/ signals > 0

----------------------------------------------------------------------------
(* The invariants behind them *)

\* No request is or will be in flight, or something went wrong.
Settled ==
  \/ timedOut \/ broken
  \/ active = {} /\ (closed \/ listener \in {"ended", "gone"})

\* The context is done too early only while the signal handler's Shutdown waits.
ExitInv ==
  /\ pc["start"] = "init" => listener = "none"
  /\ \A g \in Group : pc[g] = "shutdown" => closed
  /\ done => Settled \/ pc["signal"] = "shutdown"
  /\ closed => Settled \/ \E g \in Group : pc[g] = "shutdown"
  /\ pc["signal"] = "returned" => Settled
  /\ listener \in {"ended", "gone"} => closed \/ broken \/ active = {}
  /\ listener \in {"none", "binding"} => active = {}
  /\ main \in SetUp => listener = "none"
  /\ main \in {"exited", "failed"} => pc["signal"] = "returned" \/ listener = "none"

\* Whoever shuts the server down goes on to end the context, and nobody returns before
\* it is done.
StopInv ==
  /\ closed => done \/ \E g \in Group : pc[g] = "shutdown"
  /\ \A g \in Group : pc[g] = "returned" => done
  /\ listener = "gone" => done
  /\ pc["signal"] # "init"

\* What the first n migrations make.
Made(n) ==
  (IF n >= 1 THEN {"telemetry"} ELSE {}) \cup (IF n >= 3 THEN {"mac_address"} ELSE {})
    \cup (IF n >= 4 THEN {"indexes_4"} ELSE {}) \cup (IF n >= 5 THEN {"indexes_5"} ELSE {})
    \cup (IF n >= 6 THEN {"indexes_6"} ELSE {})
    \cup (IF n >= 7 THEN {"1_year"} ELSE IF n >= 2 THEN {"90_days"} ELSE {})

\* The database holds what is recorded, and a migration's transaction that and the
\* statements it has executed.
MigrationInv ==
  /\ objects = Made(applied)
  /\ main \in {"trace", "service", "waiting"} => applied = Len(Up)
  /\ main = "migrate" =>
       \/ executed = 0 /\ draft = objects
       \/ applied < 6 /\ executed = 1 /\ draft = Made(applied + 1)
       \/ applied = 6 /\ executed = 1 /\ draft = Made(6) \ Policies
       \/ applied = 6 /\ executed = 2 /\ draft = Made(7)
=============================================================================
