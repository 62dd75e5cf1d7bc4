-------------------------- MODULE LifecycleProofs --------------------------
(***************************************************************************)
(* Theorems about Lifecycle, for any set of requests.                      *)
(***************************************************************************)
EXTENDS Lifecycle, TLAPS

LEMMA Migrations ==
  /\ Len(Up) = 7
  /\ \A m \in 1 .. 6 : Len(Up[m]) = 1
  /\ Len(Up[7]) = 2
  /\ Up[1][1] = "telemetry" /\ Up[2][1] = "90_days" /\ Up[3][1] = "mac_address"
  /\ Up[4][1] = "indexes_4" /\ Up[5][1] = "indexes_5" /\ Up[6][1] = "indexes_6"
  /\ Up[7][1] = "no_policy" /\ Up[7][2] = "1_year"
BY DEF Up

\* What may be executed next: one statement of one migration.
LEMMA NextStatement ==
  ASSUME TypeOK, Pending
  PROVE  \/ applied \in 0 .. 5 /\ executed = 0 /\ Statement \in Objects \ {"1_year"}
         \/ applied = 6 /\ executed = 0 /\ Statement = "no_policy"
         \/ applied = 6 /\ executed = 1 /\ Statement = "1_year"
<1>1. applied \in 0 .. 6 /\ executed \in 0 .. 2 /\ executed < Len(Up[applied + 1])
  BY Migrations DEF TypeOK, Pending
<1>2. CASE applied = 6
  <2>1. applied + 1 = 7 /\ executed \in {0, 1}
    BY <1>1, <1>2, Migrations
  <2>2. executed = 0 => Statement = Up[7][1]
    BY <2>1 DEF Statement
  <2>3. executed = 1 => Statement = Up[7][2]
    BY <2>1 DEF Statement
  <2> QED
    BY <1>2, <2>1, <2>2, <2>3, Migrations
<1>3. CASE applied \in 0 .. 5
  <2>1. executed = 0
    BY <1>1, <1>3, Migrations
  <2>2. Statement = Up[applied + 1][1]
    BY <2>1 DEF Statement
  <2> QED
    BY <1>3, <2>1, <2>2, Migrations DEF Objects, Policies
<1> QED
  BY <1>1, <1>2, <1>3

LEMMA StartCases ==
  ASSUME Starting
  PROVE  \/ Execute \/ Record \/ Migrated \/ Traced \/ Serve \/ Fatal
         \/ Kill \/ Restart
BY DEF Starting

\* Set-up, a kill and a restart: nothing of the group moves but in Restart.
LEMMA Still ==
  ASSUME Execute \/ Record \/ Migrated \/ Traced \/ Serve \/ Fatal \/ Kill
  PROVE  UNCHANGED memory
BY DEF Execute, Record, Migrated, Traced, Serve, Fatal, Kill, Proceed

LEMMA TypeStep == TypeOK /\ [Next]_vars => TypeOK'
<1> SUFFICES ASSUME TypeOK, [Next]_vars PROVE TypeOK'
  OBVIOUS
<1>10. CASE Execute
  <2>1. executed' \in 0 .. 2
    BY <1>10, NextStatement DEF Execute
  <2>2. draft' \subseteq Objects
    BY <1>10, NextStatement DEF Execute, TypeOK, After, Objects, Policies
  <2> QED
    BY <1>10, <2>1, <2>2 DEF Execute, TypeOK, memory
<1>11. CASE Record
  <2>1. applied' \in 0 .. Len(Up)
    BY <1>11, Migrations DEF Record, TypeOK
  <2> QED
    BY <1>11, <2>1 DEF Record, TypeOK, memory
<1>12. CASE Migrated \/ Traced \/ Serve \/ Fatal \/ Kill
  BY <1>12 DEF Migrated, Traced, Serve, Fatal, Kill, Proceed, TypeOK, SetUp, memory, database
<1>13. CASE Restart
  <2>1. done' \in BOOLEAN /\ closed' \in BOOLEAN /\ timedOut' \in BOOLEAN /\ broken' \in BOOLEAN
    BY <1>13, Zenon DEF Restart
  <2> QED
    BY <1>13, <2>1 DEF Restart, TypeOK, InitialPc, Group, SetUp
<1> USE DEF TypeOK, Move, Group, database
<1>1. CASE Launch \/ Listen \/ ServeEnds
  BY <1>1 DEF Launch, Listen, ServeEnds
<1>2. CASE AcceptFails
  <2>1. broken' \in BOOLEAN
    BY <1>2, Zenon DEF AcceptFails
  <2> QED
    BY <1>2, <2>1 DEF AcceptFails
<1>3. CASE Signal \/ Exit
  BY <1>3 DEF Signal, Exit
<1>4. ASSUME NEW r \in Request, Arrive(r) \/ Complete(r) PROVE TypeOK'
  BY <1>4 DEF Arrive, Complete
<1>5. CASE HearSignal
  <2>1. closed' \in BOOLEAN
    BY <1>5, Zenon DEF HearSignal, BeginStop
  <2> QED
    BY <1>5, <2>1 DEF HearSignal, BeginStop
<1>6. CASE HearListener
  <2>1. done' \in BOOLEAN
    BY <1>6, Zenon DEF HearListener
  <2> QED
    BY <1>6, <2>1 DEF HearListener
<1>7. ASSUME NEW g \in Group, HearContext(g) PROVE TypeOK'
  <2>1. closed' \in BOOLEAN
    BY <1>7, Zenon DEF HearContext, BeginStop
  <2> QED
    BY <1>7, <2>1 DEF HearContext, BeginStop
<1>8. ASSUME NEW g \in Group, EndStop(g) PROVE TypeOK'
  <2>1. done' \in BOOLEAN /\ timedOut' \in BOOLEAN
    BY <1>8, Zenon DEF EndStop, ShutdownWaits
  <2> QED
    BY <1>8, <2>1 DEF EndStop
<1>9. CASE UNCHANGED vars
  BY <1>9 DEF vars, memory
<1> QED
  BY <1>1, <1>2, <1>3, <1>4, <1>5, <1>6, <1>7, <1>8, <1>9,
     <1>10, <1>11, <1>12, <1>13, StartCases DEF Next, Server, Stopping

\* Every variable always has its type (Lifecycle's TypeOK).
THEOREM TypeCorrect == Spec => []TypeOK
<1>1. Init => TypeOK
  <2>1. Init => done \in BOOLEAN /\ closed \in BOOLEAN /\ timedOut \in BOOLEAN /\ broken \in BOOLEAN
    BY Zenon DEF Init
  <2> QED
    BY <2>1, Migrations DEF Init, TypeOK, Group, InitialPc, SetUp
<1> QED
  BY <1>1, TypeStep, PTL DEF Spec

LEMMA ExitStep == TypeOK /\ ExitInv /\ [Next]_vars => ExitInv'
<1> SUFFICES ASSUME TypeOK, ExitInv, [Next]_vars PROVE ExitInv'
  OBVIOUS
<1>0. pc \in [Group -> {"init", "select", "shutdown", "returned"}]
  BY DEF TypeOK
<1> USE DEF ExitInv, Settled, Move, Group, Running, SetUp
<1>12. CASE Execute \/ Record \/ Migrated \/ Traced \/ Serve \/ Fatal \/ Kill
  <2>1. UNCHANGED memory
    BY <1>12, Still
  <2>2. \/ main' \in SetUp /\ main \in SetUp
        \/ main \in SetUp /\ main' \in {"waiting", "failed", "killed"}
        \/ main = "waiting" /\ main' = "killed"
    BY <1>12 DEF Execute, Record, Migrated, Traced, Serve, Fatal, Kill, Proceed, SetUp
  <2> QED
    BY <2>1, <2>2 DEF memory, SetUp
<1>13. CASE Restart
  BY <1>13 DEF Restart, InitialPc
<1>1. CASE Launch
  BY <1>0, <1>1 DEF Launch
<1>2. CASE Listen \/ ServeEnds
  BY <1>2 DEF Listen, ServeEnds
<1>3. CASE AcceptFails
  BY <1>3 DEF AcceptFails
<1>4. ASSUME NEW r \in Request, Arrive(r) \/ Complete(r) PROVE ExitInv'
  BY <1>4 DEF Arrive, Complete
<1>5. CASE Signal
  BY <1>5 DEF Signal
<1>6. CASE HearSignal
  BY <1>0, <1>6 DEF HearSignal, BeginStop
<1>7. ASSUME NEW g \in Group, HearContext(g) PROVE ExitInv'
  BY <1>0, <1>7 DEF HearContext, BeginStop
<1>8. CASE HearListener
  BY <1>0, <1>8 DEF HearListener
<1>9. ASSUME NEW g \in Group, EndStop(g) PROVE ExitInv'
  <2>1. closed
    BY <1>9 DEF EndStop
  <2> QED
    BY <1>0, <1>9, <2>1 DEF EndStop, ShutdownWaits
<1>10. CASE Exit
  BY <1>10 DEF Exit
<1>11. CASE UNCHANGED vars
  BY <1>11 DEF vars, memory
<1> QED
  BY <1>1, <1>2, <1>3, <1>4, <1>5, <1>6, <1>7, <1>8, <1>9, <1>10, <1>11,
     <1>12, <1>13, StartCases DEF Next, Server, Stopping

\* The process ends under no request unless a Shutdown timed out or the listener broke
\* (GracefulExit), for any number of requests and every order of the goroutines.
THEOREM ExitIsGraceful == Spec => []GracefulExit
<1>1. Init => ExitInv
  BY DEF Init, ExitInv, Settled, Group, InitialPc, SetUp
<1>2. ExitInv => GracefulExit
  BY DEF ExitInv, Settled, GracefulExit
<1> QED
  BY <1>1, <1>2, ExitStep, TypeCorrect, PTL DEF Spec
----------------------------------------------------------------------------
(* Stopping *)

LEMMA StopStep == TypeOK /\ StopInv /\ [Next]_vars => StopInv'
<1> SUFFICES ASSUME TypeOK, StopInv, [Next]_vars PROVE StopInv'
  OBVIOUS
<1>0. pc \in [Group -> {"init", "select", "shutdown", "returned"}]
  BY DEF TypeOK
<1> USE DEF StopInv, Move, Group
<1>1. CASE Execute \/ Record \/ Migrated \/ Traced \/ Serve \/ Fatal \/ Kill
  BY <1>1, Still DEF memory
<1>2. CASE Restart
  BY <1>2 DEF Restart, InitialPc
<1>3. CASE Launch
  BY <1>0, <1>3 DEF Launch
<1>4. CASE Listen \/ ServeEnds \/ AcceptFails \/ Signal \/ Exit
  BY <1>4 DEF Listen, ServeEnds, AcceptFails, Signal, Exit
<1>5. ASSUME NEW r \in Request, Arrive(r) \/ Complete(r) PROVE StopInv'
  BY <1>5 DEF Arrive, Complete
<1>6. CASE HearSignal
  BY <1>0, <1>6 DEF HearSignal, BeginStop
<1>7. CASE HearListener
  BY <1>0, <1>7 DEF HearListener
<1>8. ASSUME NEW g \in Group, HearContext(g) PROVE StopInv'
  BY <1>0, <1>8 DEF HearContext, BeginStop
<1>9. ASSUME NEW g \in Group, EndStop(g) PROVE StopInv'
  BY <1>0, <1>9 DEF EndStop
<1>10. CASE UNCHANGED vars
  BY <1>10 DEF vars, memory
<1> QED
  BY <1>1, <1>2, <1>3, <1>4, <1>5, <1>6, <1>7, <1>8, <1>9, <1>10, StartCases
  DEF Next, Server, Stopping

\* A stop that has begun is never stuck between the goroutines (StopGoesOn), whatever
\* the requests in flight do: the safety half of StopsOnSignal and FailureEnds.
THEOREM StopNeverStuck == Spec => []StopGoesOn
<1>1. Init => StopInv
  BY DEF Init, StopInv, InitialPc, Group
<1>2. TypeOK /\ StopInv => StopGoesOn
  <2> SUFFICES ASSUME TypeOK, StopInv, closed \/ done \/ listener \in {"ended", "gone"}
               PROVE  \/ \A g \in Group : pc[g] = "returned"
                      \/ \E g \in Group : pc[g] = "shutdown" \/ (pc[g] = "select" /\ done)
                      \/ pc["start"] = "init"
                      \/ pc["start"] = "select" /\ listener = "ended"
    BY DEF StopGoesOn
  <2>1. /\ pc["start"] \in {"init", "select", "shutdown", "returned"}
        /\ pc["signal"] \in {"select", "shutdown", "returned"}
    BY DEF TypeOK, StopInv, Group
  <2>2. CASE done
    BY <2>1, <2>2 DEF Group
  <2>3. CASE ~done
    BY <2>1, <2>3 DEF StopInv, Group
  <2> QED
    BY <2>2, <2>3
<1> QED
  BY <1>1, <1>2, StopStep, TypeCorrect, PTL DEF Spec

----------------------------------------------------------------------------
(* The schema *)

\* What is recorded is what was made, and a statement and its record are one step away
\* from each other.
LEMMA MigrationStep == TypeOK /\ MigrationInv /\ [Next]_vars => MigrationInv'
<1> SUFFICES ASSUME TypeOK, MigrationInv, [Next]_vars PROVE MigrationInv'
  OBVIOUS
<1>0. applied \in 0 .. 7
  BY Migrations DEF TypeOK
<1>1. CASE Execute
  <2>1. UNCHANGED <<main, applied, objects>> /\ main = "migrate" /\ Pending
    BY <1>1 DEF Execute
  <2>2. CASE applied \in 0 .. 5
    <3>1. executed = 0 /\ draft = Made(applied)
      BY <2>1, <2>2, NextStatement DEF MigrationInv
    <3>2. Statement = Up[applied + 1][1]
      BY <3>1 DEF Statement
    <3>3. draft' = Made(applied) \cup {Up[applied + 1][1]}
      BY <1>1, <2>2, <3>1, <3>2, Migrations DEF Execute, After
    <3>4. draft' = Made(applied + 1)
      BY <2>2, <3>3, Migrations DEF Made
    <3> QED
      BY <1>1, <2>1, <2>2, <3>1, <3>4 DEF Execute, MigrationInv
  <2>3. CASE applied = 6 /\ executed = 0
    <3>1. Statement = "no_policy" /\ draft = Made(6)
      BY <2>1, <2>3, NextStatement DEF MigrationInv
    <3> QED
      BY <1>1, <2>1, <2>3, <3>1 DEF Execute, After, MigrationInv
  <2>4. CASE applied = 6 /\ executed = 1
    <3>1. Statement = "1_year" /\ draft = Made(6) \ Policies
      BY <2>1, <2>4, NextStatement DEF MigrationInv
    <3>2. (Made(6) \ Policies) \cup {"1_year"} = Made(7)
      BY DEF Made, Policies
    <3> QED
      BY <1>1, <2>1, <2>4, <3>1, <3>2 DEF Execute, After, MigrationInv
  <2> QED
    BY <2>1, <2>2, <2>3, <2>4, NextStatement
<1>2. CASE Record
  <2>1. /\ main = "migrate" /\ main' = main
        /\ applied' = applied + 1 /\ objects' = draft /\ draft' = draft /\ executed' = 0
        /\ applied < 7 /\ executed = Len(Up[applied + 1])
    BY <1>2, Migrations DEF Record
  <2>2. draft = Made(applied + 1)
    <3>1. CASE applied \in 0 .. 5
      <4>1. executed = 1
        BY <2>1, <3>1, Migrations
      <4> QED
        BY <2>1, <3>1, <4>1 DEF MigrationInv
    <3>2. CASE applied = 6
      <4>1. executed = 2
        BY <2>1, <3>2, Migrations
      <4> QED
        BY <2>1, <3>2, <4>1 DEF MigrationInv
    <3> QED
      BY <1>0, <2>1, <3>1, <3>2
  <2> QED
    BY <2>1, <2>2 DEF MigrationInv
<1>3. CASE Migrated \/ Traced \/ Serve \/ Fatal \/ Kill
  BY <1>3 DEF Migrated, Traced, Serve, Fatal, Kill, Proceed, SetUp, database, MigrationInv
<1>4. CASE Restart
  BY <1>4 DEF Restart, MigrationInv
<1>5. CASE Launch \/ Listen \/ ServeEnds \/ AcceptFails \/ Signal
  BY <1>5 DEF Launch, Listen, ServeEnds, AcceptFails, Signal, MigrationInv, database
<1>6. CASE HearSignal \/ HearListener \/ \E g \in Group : HearContext(g) \/ EndStop(g)
  BY <1>6 DEF HearSignal, HearListener, HearContext, EndStop, MigrationInv, database
<1>7. CASE Exit
  BY <1>7 DEF Exit, MigrationInv, database
<1>8. ASSUME NEW r \in Request, Arrive(r) \/ Complete(r) PROVE MigrationInv'
  BY <1>8 DEF Arrive, Complete, MigrationInv, database
<1>9. CASE UNCHANGED vars
  BY <1>9 DEF vars, database, MigrationInv
<1> QED
  BY <1>1, <1>2, <1>3, <1>4, <1>5, <1>6, <1>7, <1>8, <1>9, StartCases
  DEF Next, Server, Stopping

LEMMA MigrationAlways == Spec => []MigrationInv
<1>1. Init => MigrationInv
  BY DEF Init, MigrationInv, Made
<1> QED
  BY <1>1, MigrationStep, TypeCorrect, PTL DEF Spec

\* Requests are served only over the complete schema, whatever starts were cut before
\* (SchemaComplete).
THEOREM ServedSchemaComplete == Spec => []SchemaComplete
<1>1. MigrationInv => SchemaComplete
  <2>1. Made(7) = Objects \ {"90_days"}
    BY DEF Made, Objects, Policies
  <2> QED
    BY <2>1, Migrations DEF MigrationInv, SchemaComplete
<1> QED
  BY <1>1, MigrationAlways, PTL

\* No statement of a migration fails on what an earlier start left (MigrationsApply).
THEOREM MigrationsAlwaysApply == Spec => []MigrationsApply
<1>1. TypeOK /\ MigrationInv => MigrationsApply
  <2> SUFFICES ASSUME TypeOK, MigrationInv, main = "migrate", Pending
               PROVE  Possible(Statement)
    BY DEF MigrationsApply
  <2>1. CASE applied \in 0 .. 5
    <3>1. executed = 0 /\ draft = Made(applied) /\ Statement = Up[applied + 1][1]
      BY <2>1, NextStatement DEF MigrationInv, Statement
    <3> QED
      BY <2>1, <3>1, Migrations DEF Possible, Made, Policies
  <2>2. CASE applied = 6 /\ executed = 0
    BY <2>2, NextStatement DEF MigrationInv, Possible, Made, Policies
  <2>3. CASE applied = 6 /\ executed = 1
    BY <2>3, NextStatement DEF MigrationInv, Possible, Made, Policies
  <2> QED
    BY <2>1, <2>2, <2>3, NextStatement
<1> QED
  BY <1>1, MigrationAlways, TypeCorrect, PTL
=============================================================================
