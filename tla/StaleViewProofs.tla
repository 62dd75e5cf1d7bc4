-------------------------- MODULE StaleViewProofs --------------------------
(***************************************************************************)
(* UICache implements StaleView, for every value of its constants, unless  *)
(* the database's results are cut short.                                   *)
(***************************************************************************)
EXTENDS UICacheProofs

----------------------------------------------------------------------------
(* Answers are snapshots *)

\* Without truncation the database's answer is as of now.
LEMMA ResultsSnapshot ==
  ASSUME "truncate" \notin Faults, NEW f, NEW rows \in Results(f)
  PROVE  Snapshot(rows, f)
BY DEF Results, Rows, Snapshot

\* What commits after a snapshot does not spoil it: it is newer than all of its rows.
LEMMA SnapshotStep ==
  ASSUME TypeOK, Dated, [Next]_vars, NEW f, NEW rows \in SUBSET table, Snapshot(rows, f)
  PROVE  \A shown \in rows, row \in table' :
           Selects(f, row) /\ row.at < shown.at => row \in rows
<1>1. now \in Nat
  BY DEF TypeOK
<1>2. \A row \in table' : row \in table \/ row.at = now
  BY DatedStep
<1>3. \A shown \in rows : shown.at <= now /\ shown.at \in Nat
  BY DEF Dated, TypeOK, Row
<1> QED
  BY <1>1, <1>2, <1>3 DEF Snapshot

LEMMA SnapStep ==
  ASSUME "truncate" \notin Faults
  PROVE  TypeOK /\ Dated /\ SnapInv /\ [Next]_vars => SnapInv'
<1> SUFFICES ASSUME TypeOK, Dated, SnapInv, [Next]_vars PROVE SnapInv'
  OBVIOUS
<1>1. ReadsSnapshot'
  <2> SUFFICES ASSUME NEW p \in Process, pc'[p] = "store",
                      NEW shown \in val'[p], NEW row \in table',
                      Selects(Ask(p).filter, row)', row.at < shown.at
               PROVE  row \in val'[p]
    BY DEF ReadsSnapshot, Snapshot
  <2>1. Ask(p)' = Ask(p) /\ Selects(Ask(p).filter, row)
    BY ReadsFrame DEF Selects
  <2>2. CASE pc[p] = "store" /\ val'[p] = val[p]
    <3>1. val[p] \in SUBSET table /\ Snapshot(val[p], Ask(p).filter)
      BY <2>2 DEF TypeOK, SnapInv, ReadsSnapshot
    <3> QED
      BY <2>1, <2>2, <3>1, SnapshotStep
  <2>3. CASE val'[p] \in Results(Ask(p).filter) /\ table' = table
    BY <2>1, <2>3, ResultsSnapshot DEF Snapshot
  <2> QED
    BY <2>2, <2>3, ReadsFrame
<1>2. EntriesSnapshot'
  <2> SUFFICES ASSUME NEW e \in cache', NEW shown \in e.rows, NEW row \in table',
                      Selects(FilterOf(e.key), row), row.at < shown.at
               PROVE  row \in e.rows
    BY DEF EntriesSnapshot, Snapshot, FilterOf, Selects
  <2>1. CASE e \in cache
    <3>1. e.rows \in SUBSET table /\ Snapshot(e.rows, FilterOf(e.key))
      BY <2>1 DEF TypeOK, Entry, SnapInv, EntriesSnapshot
    <3> QED
      BY <3>1, SnapshotStep
  <2>2. ASSUME NEW p \in Process, pc[p] = "store", table' = table,
               e = [key |-> Key(Ask(p)), rows |-> val[p], ts |-> now]
        PROVE  row \in e.rows
    <3>1. FilterOf(e.key) = Ask(p).filter
      BY <2>2, KeyFilter
    <3> QED
      BY <2>2, <3>1 DEF SnapInv, ReadsSnapshot, Snapshot
  <2> QED
    BY <2>1, <2>2, EntriesFrame
<1>3. AnswersAreSnapshots'
  <2> SUFFICES ASSUME NEW u \in User, NEW part \in got'[u],
                      NEW shown \in part.rows, NEW row \in table',
                      Selects(part.filter, row), row.at < shown.at
               PROVE  row \in part.rows
    BY DEF AnswersAreSnapshots, Snapshot, Selects
  <2>1. u \in Process
    BY DEF Process
  <2>2. CASE part \in got[u]
    <3>1. part.rows \in SUBSET table /\ Snapshot(part.rows, part.filter)
      BY <2>1, <2>2 DEF TypeOK, Part, SnapInv, AnswersAreSnapshots
    <3> QED
      BY <3>1, SnapshotStep
  <2>3. ASSUME NEW e \in Hits(u), part.rows = e.rows, part.filter = Ask(u).filter,
               table' = table
        PROVE  row \in part.rows
    <3>1. e \in cache /\ FilterOf(e.key) = Ask(u).filter
      BY <2>1, KeyFilter DEF Hits
    <3> QED
      BY <2>3, <3>1 DEF SnapInv, EntriesSnapshot, Snapshot
  <2>4. CASE /\ pc[u] = "store" /\ part.rows = val[u] /\ part.filter = Ask(u).filter
             /\ table' = table
    BY <2>1, <2>4 DEF SnapInv, ReadsSnapshot, Snapshot
  <2> QED
    BY <2>2, <2>3, <2>4, AnswersFrame
<1> QED
  BY <1>1, <1>2, <1>3 DEF SnapInv

LEMMA SnapInit == Init => SnapInv
<1>1. Init => /\ cache = {}
              /\ \A p \in Process : pc[p] # "store"
              /\ \A u \in User : got[u] = {}
  BY DEF Init, Process
<1> QED
  BY <1>1 DEF SnapInv, ReadsSnapshot, EntriesSnapshot, AnswersAreSnapshots

LEMMA SnapAlways ==
  ASSUME "truncate" \notin Faults PROVE Spec => [](Dated /\ SnapInv)
<1>1. Init => Dated
  BY DEF Init, Dated
<1>2. TypeOK /\ Dated /\ [Next]_vars => Dated'
  BY DatedStep
<1> QED
  BY <1>1, <1>2, SnapInit, SnapStep, TypeCorrect, PTL DEF Spec

\* Whatever races to fill the cache, an answer shows the table as of one instant
\* (AnswersAreSnapshots), unless a result is cut short.
THEOREM Snapshots ==
  ASSUME "truncate" \notin Faults PROVE Spec => []AnswersAreSnapshots
<1>1. SnapInv => AnswersAreSnapshots
  BY DEF SnapInv
<1> QED
  BY <1>1, SnapAlways, PTL

----------------------------------------------------------------------------
(* What a step does to the users *)

\* Nothing of u's request changes but how far its current call has got.
Same(u) ==
  /\ pc'[u] = "idle" <=> pc[u] = "idle"
  /\ step'[u] = step[u] /\ want'[u] = want[u] /\ since'[u] = since[u] /\ got'[u] = got[u]

Asked(u) ==
  /\ pc[u] = "idle" /\ pc'[u] # "idle"
  /\ step'[u] = step[u] /\ since'[u] = now /\ got'[u] = {}

\* Rows arrive as the answer to what u asks for.
Arrived(u) ==
  /\ pc[u] # "idle" /\ since'[u] = since[u]
  /\ \E rows \in SUBSET table :
       got'[u] = got[u] \cup
         {[kind |-> Ask(u).kind, filter |-> Ask(u).filter, rows |-> rows]}

Answered(u) ==
  /\ Arrived(u) /\ pc'[u] # "idle"
  /\ step[u] < 3 /\ step'[u] = step[u] + 1 /\ want'[u] = want[u]

Ended(u) == pc'[u] = "idle" /\ step'[u] = 1 /\ want'[u] = Unfiltered

Served(u) == Arrived(u) /\ step[u] = 3 /\ Ended(u)

Failed(u) == pc[u] # "idle" /\ since'[u] = since[u] /\ got'[u] = {} /\ Ended(u)

\* A step is one of these for one user, or the clock's, the table's, or no user's business.
Quiet == \A u \in User : Same(u)
Busy(u) ==
  /\ UNCHANGED <<now, table>>
  /\ \A v \in User \ {u} : Same(v)
  /\ Same(u) \/ Asked(u) \/ Answered(u) \/ Served(u) \/ Failed(u)

LEMMA StartSteps ==
  ASSUME TypeOK, NEW u \in User, NEW sel \in UserSelection,
         NEW to \in ExplicitTo \cup {Round(now)}, Request(u, sel, to)
  PROVE  Busy(u)
<1>1. u \in Process /\ User \subseteq Process
  BY DEF Process
<1>2. /\ pc[u] = "idle" /\ pc'[u] = "lookup"
      /\ since'[u] = now /\ got'[u] = {} /\ step' = step
  BY <1>1 DEF Request, Start, TypeOK
<1>3. Asked(u)
  BY <1>2 DEF Asked
<1>4. \A v \in User \ {u} : Same(v)
  BY <1>1 DEF Request, Start, Same, TypeOK
<1> QED
  BY <1>3, <1>4 DEF Busy, Request, Start

LEMMA AnswerSteps ==
  ASSUME TypeOK, NEW p \in Process, pc[p] # "idle", NEW rows \in SUBSET table,
         Answer(p, rows), UNCHANGED <<now, table, since>>
  PROVE  Quiet \/ (p \in User /\ Busy(p))
<1>1. User \subseteq Process /\ Prefetcher \notin User
  BY ProcessAssumption DEF Process
<1>2. Advance(p)
  BY DEF Answer
<1>3. \A v \in User \ {p} : Same(v)
  BY <1>1, <1>2 DEF Answer, Advance, Proceed, Finish, Return, Same, TypeOK
<1>4. CASE p = Prefetcher
  BY <1>1, <1>3, <1>4 DEF Quiet
<1>5. CASE p \in User
  <2>1. Arrived(p)
    BY <1>1, <1>5 DEF Answer, Arrived, TypeOK
  <2>2. CASE Proceed(p)
    <3>1. Answered(p)
      BY <1>1, <1>5, <2>1, <2>2 DEF Proceed, NextWant, Answered, TypeOK
    <3> QED
      BY <1>3, <1>5, <3>1 DEF Busy
  <2>3. CASE Finish(p)
    <3>1. Served(p)
      BY <2>1, <2>3 DEF Finish, Return, Served, Ended, TypeOK
    <3> QED
      BY <1>3, <1>5, <3>1 DEF Busy
  <2> QED
    BY <1>2, <2>2, <2>3 DEF Advance
<1> QED
  BY <1>4, <1>5 DEF Process

LEMMA CallSteps ==
  ASSUME TypeOK, NEW p \in Process, Step(p)
  PROVE  (Quiet /\ UNCHANGED <<now, table>>) \/ (p \in User /\ Busy(p))
<1>1. User \subseteq Process /\ Prefetcher \notin User
  BY ProcessAssumption DEF Process
<1>2. UNCHANGED <<now, table>>
  BY DEF Step, Hit, Miss, Query, QueryError, Store
<1>3. CASE Hit(p)
  <2>1. PICK e \in Hits(p) : Answer(p, e.rows)
    BY <1>3 DEF Hit
  <2>2. e.rows \in SUBSET table
    BY <2>1 DEF Hits, TypeOK, Entry
  <2> QED
    BY <1>2, <1>3, <2>1, <2>2, AnswerSteps DEF Hit
<1>4. CASE Store(p)
  <2>1. val[p] \in SUBSET table /\ Answer(p, val[p])
    BY <1>4 DEF Store, TypeOK
  <2> QED
    BY <1>2, <1>4, <2>1, AnswerSteps DEF Store
<1>5. CASE Miss(p) \/ Query(p)
  <2>1. \A v \in User : Same(v)
    BY <1>1, <1>5 DEF Miss, Query, Same, TypeOK
  <2> QED
    BY <1>2, <2>1 DEF Quiet
<1>6. CASE QueryError(p)
  <2>1. CASE p = Prefetcher
    <3>1. \A v \in User : Same(v)
      BY <1>1, <1>6, <2>1
         DEF QueryError, Advance, Proceed, Finish, Return, Same, TypeOK
    <3> QED
      BY <1>2, <3>1 DEF Quiet
  <2>2. CASE p # Prefetcher
    <3>1. p \in User
      BY <2>2 DEF Process
    <3>2. Abandon(p) /\ since' = since /\ pc[p] # "idle"
      BY <1>6, <2>2 DEF QueryError
    <3>3. \A v \in User \ {p} : Same(v)
      BY <1>1, <3>2 DEF Abandon, Return, Same, TypeOK
    <3>4. Failed(p)
      BY <1>1, <3>1, <3>2 DEF Abandon, Return, Failed, Ended, TypeOK
    <3> QED
      BY <1>2, <3>1, <3>3, <3>4 DEF Busy
  <2> QED
    BY <2>1, <2>2
<1> QED
  BY <1>3, <1>4, <1>5, <1>6 DEF Step

LEMMA UserSteps ==
  ASSUME TypeOK, [Next]_vars
  PROVE  \/ Quiet /\ Elapse
         \/ Quiet /\ \E r \in Record : Commit(r)
         \/ Quiet /\ UNCHANGED <<now, table>>
         \/ \E u \in User : Busy(u)
<1>1. User \subseteq Process /\ Prefetcher \notin User
  BY ProcessAssumption DEF Process
<1>2. CASE Elapse
  BY <1>2 DEF Elapse, Quiet, Same
<1>3. ASSUME NEW r \in Record, Commit(r) PROVE Quiet
  BY <1>3 DEF Commit, Quiet, Same
<1>4. CASE Prefetch
  BY <1>1, <1>4 DEF Prefetch, Start, Quiet, Same, TypeOK
<1>5. ASSUME NEW e \in cache, Evict(e) PROVE Quiet /\ UNCHANGED <<now, table>>
  BY <1>5 DEF Evict, Quiet, Same
<1>6. CASE UNCHANGED vars
  BY <1>6 DEF vars, Quiet, Same
<1> QED
  BY <1>2, <1>3, <1>4, <1>5, <1>6, StartSteps, CallSteps DEF Next

----------------------------------------------------------------------------
(* The pages *)

\* What a request has so far is left as it is by the steps of others.
LEMMA PartialFrame ==
  ASSUME TypeOK, [Next]_vars, NEW u \in User, Partial(u), Same(u)
  PROVE  Partial(u)'
<1>1. table \subseteq table'
  BY Monotone
<1> QED
  BY <1>1 DEF Partial, Same

\* An answer is the next of the three.
LEMMA PartialAnswer ==
  ASSUME TypeOK, [Next]_vars, NEW u \in User, Partial(u), Answered(u)
  PROVE  Partial(u)'
<1>1. u # Prefetcher /\ u \in Process
  BY ProcessAssumption DEF Process
<1>2. table \subseteq table' /\ step[u] \in 1 .. 3
  BY <1>1, Monotone DEF TypeOK
<1>3. PICK rows \in SUBSET table :
        got'[u] = got[u] \cup {[kind |-> Ask(u).kind, filter |-> Ask(u).filter, rows |-> rows]}
  BY DEF Answered, Arrived
<1>4. rows \in SUBSET table' /\ want'[u] = want[u]
  BY <1>2, <1>3 DEF Answered
<1>5. CASE step[u] = 1
  <2>1. Ask(u).kind = "summary" /\ Ask(u).filter = want[u] /\ got[u] = {}
    BY <1>1, <1>5 DEF Ask, Partial
  <2>2. got'[u] = {[kind |-> "summary", filter |-> want'[u], rows |-> rows]} /\ step'[u] = 2
    BY <1>3, <1>4, <1>5, <2>1 DEF Answered
  <2> QED
    BY <1>4, <2>2 DEF Partial
<1>6. CASE step[u] = 2
  <2>1. Ask(u).kind = "summary" /\ Ask(u).filter = Unfiltered
    BY <1>1, <1>6 DEF Ask
  <2>2. PICK own \in SUBSET table :
          got[u] = {[kind |-> "summary", filter |-> want[u], rows |-> own]}
    BY <1>6 DEF Partial
  <2>3. /\ got'[u] = {[kind |-> "summary", filter |-> want'[u], rows |-> own],
                      [kind |-> "summary", filter |-> Unfiltered, rows |-> rows]}
        /\ step'[u] = 3
    BY <1>3, <1>4, <1>6, <2>1, <2>2 DEF Answered
  <2>4. own \in SUBSET table'
    BY <1>2, <2>2
  <2>5. \E o \in SUBSET table', all \in SUBSET table' :
          got'[u] = {[kind |-> "summary", filter |-> want'[u], rows |-> o],
                     [kind |-> "summary", filter |-> Unfiltered, rows |-> all]}
    BY <1>4, <2>3, <2>4
  <2> QED
    BY <1>4, <2>3, <2>5 DEF Partial, Unfiltered
<1> QED
  BY <1>2, <1>5, <1>6 DEF Answered

LEMMA PageStep == TypeOK /\ PageInv /\ [Next]_vars => PageInv'
<1> SUFFICES ASSUME TypeOK, PageInv, [Next]_vars, NEW u \in User
             PROVE  (IF pc[u] = "idle" THEN step[u] = 1 /\ want[u] = Unfiltered ELSE Partial(u))'
  BY DEF PageInv
<1>1. Same(u) \/ Asked(u) \/ Answered(u) \/ Served(u) \/ Failed(u)
  BY UserSteps DEF Quiet, Busy
<1>2. CASE Same(u)
  BY <1>2, PartialFrame DEF Same, PageInv, Unfiltered
<1>3. CASE Asked(u)
  BY <1>3 DEF Asked, PageInv, Partial, Unfiltered
<1>4. CASE Answered(u)
  BY <1>4, PartialAnswer DEF Answered, Arrived, PageInv
<1>5. CASE Served(u) \/ Failed(u)
  BY <1>5 DEF Served, Failed, Ended, Unfiltered
<1> QED
  BY <1>1, <1>2, <1>3, <1>4, <1>5

LEMMA PageInit == Init => PageInv
BY ProcessAssumption DEF Init, PageInv, Process

\* An answer that is neither old, nor foreign, nor torn is a view.
LEMMA AnswersAreViews ==
  TypeOK /\ NoForeignRows /\ Visibility /\ AnswersAreSnapshots => ViewsInv
<1> SUFFICES ASSUME TypeOK, NoForeignRows, Visibility, AnswersAreSnapshots,
                    NEW u \in User, NEW part \in got[u]
             PROVE  part.rows \in Stale!Views(part.filter, since[u])
  BY DEF ViewsInv
<1>1. u \in Process
  BY DEF Process
<1>2. part.rows \in SUBSET table
  BY <1>1 DEF TypeOK, Part
<1>3. \A row \in part.rows : Selects(part.filter, row)
  BY DEF NoForeignRows, Rows
<1>4. /\ TTL \in Nat /\ MaxLatency \in Nat /\ since[u] \in Nat
      /\ \A row \in table : row.at \in Nat
  BY <1>1, TTLAssumption, LatencyAssumption DEF TypeOK, Row
<1>5. ASSUME NEW row \in table, Selects(part.filter, row),
             \/ row.at + (TTL + MaxLatency) <= since[u]
             \/ \E shown \in part.rows : row.at < shown.at
      PROVE  row \in part.rows
  <2>1. CASE \E shown \in part.rows : row.at < shown.at
    BY <1>5, <2>1 DEF AnswersAreSnapshots, Snapshot
  <2>2. CASE row.at + (TTL + MaxLatency) <= since[u]
    <3>1. row.at + TTL + MaxLatency <= since[u]
      BY <1>4, <2>2
    <3> QED
      BY <1>5, <3>1 DEF Visibility
  <2> QED
    BY <1>5, <2>1, <2>2
<1> QED
  BY <1>2, <1>3, <1>5 DEF Stale!Views, Stale!Recent

----------------------------------------------------------------------------
(* Every step is a step of the abstract dashboard, or none *)

\* Other users' part of the abstract state is what it was.
LEMMA ViewFrame ==
  ASSUME TypeOK, [Next]_vars, NEW u \in User, \A v \in User \ {u} : Same(v),
         since'[u] = since[u]
  PROVE  /\ Wants' = [Wants EXCEPT ![u] = Wants'[u]]
         /\ [v \in User |-> since'[v]] = [v \in User |-> since[v]]
         /\ Page' = [Page EXCEPT ![u] = Page'[u]]
BY DEF Same, Wants, Page

LEMMA RequestView ==
  ASSUME TypeOK, PageInv, [Next]_vars, NEW u \in User, Busy(u), Asked(u)
  PROVE  Stale!Request(u)
<1>1. Wants[u] = {} /\ Wants'[u] = {want'[u]}
  BY DEF Asked, Wants
<1>2. /\ Wants' = [Wants EXCEPT ![u] = {want'[u]}]
      /\ [v \in User |-> since'[v]] = [[v \in User |-> since[v]] EXCEPT ![u] = now]
      /\ Page' = [Page EXCEPT ![u] = {}]
  BY DEF Busy, Same, Asked, Wants, Page
<1> QED
  BY <1>1, <1>2 DEF Stale!Request, Busy

LEMMA ServeView ==
  ASSUME TypeOK, PageInv, ViewsInv', [Next]_vars, NEW u \in User, Busy(u), Served(u)
  PROVE  Stale!Serve(u)
<1>1. u # Prefetcher /\ u \in Process
  BY ProcessAssumption DEF Process
<1>2. /\ pc[u] # "idle" /\ step[u] = 3 /\ Partial(u)
      /\ pc'[u] = "idle" /\ since'[u] = since[u]
      /\ UNCHANGED <<now, table>>
  BY DEF Served, Arrived, Ended, PageInv, Busy
<1>3. Ask(u).kind = "page" /\ Ask(u).filter = want[u]
  BY <1>1, <1>2 DEF Ask
<1>4. PICK own \in SUBSET table, all \in SUBSET table :
        got[u] = {[kind |-> "summary", filter |-> want[u], rows |-> own],
                  [kind |-> "summary", filter |-> Unfiltered, rows |-> all]}
  BY <1>2 DEF Partial
<1>5. PICK listed \in SUBSET table :
        got'[u] = got[u] \cup {[kind |-> Ask(u).kind, filter |-> Ask(u).filter, rows |-> listed]}
  BY DEF Served, Arrived
<1>6. got'[u] = {[kind |-> "summary", filter |-> want[u], rows |-> own],
                 [kind |-> "summary", filter |-> Unfiltered, rows |-> all],
                 [kind |-> "page", filter |-> want[u], rows |-> listed]}
  BY <1>3, <1>4, <1>5
<1>7. \A part \in got'[u] : part.rows \in Stale!Views(part.filter, since[u])
  BY <1>2 DEF ViewsInv, Stale!Views, Stale!Recent, Selects
<1>8. /\ own \in Stale!Views(want[u], since[u])
      /\ listed \in Stale!Views(want[u], since[u])
      /\ all \in Stale!Views(Unfiltered, since[u])
  BY <1>6, <1>7
<1>9. /\ Wants' = [Wants EXCEPT ![u] = {}]
      /\ [v \in User |-> since'[v]] = [v \in User |-> since[v]]
      /\ Page' = [Page EXCEPT ![u] = got'[u]]
  BY <1>2, ViewFrame DEF Busy, Served, Ended, Wants, Page
<1> DEFINE sinces == [v \in User |-> since[v]]
<1>10. Wants[u] = {want[u]} /\ sinces[u] = since[u]
  BY <1>2 DEF Wants
<1>11. /\ Wants' = [Wants EXCEPT ![u] = {}]
       /\ UNCHANGED <<now, table, sinces>>
  BY <1>2, <1>9
<1> HIDE DEF sinces
<1>12. \E f \in Wants[u] :
         \E o \in Stale!Views(f, sinces[u]), l \in Stale!Views(f, sinces[u]),
            a \in Stale!Views(Unfiltered, sinces[u]) :
           Page' = [Page EXCEPT ![u] = {[kind |-> "summary", filter |-> f, rows |-> o],
                                        [kind |-> "summary", filter |-> Unfiltered, rows |-> a],
                                        [kind |-> "page", filter |-> f, rows |-> l]}]
  <2>1. Page' = [Page EXCEPT ![u] =
                   {[kind |-> "summary", filter |-> want[u], rows |-> own],
                    [kind |-> "summary", filter |-> Unfiltered, rows |-> all],
                    [kind |-> "page", filter |-> want[u], rows |-> listed]}]
    BY <1>6, <1>9
  <2>2. /\ own \in Stale!Views(want[u], sinces[u])
        /\ listed \in Stale!Views(want[u], sinces[u])
        /\ all \in Stale!Views(Unfiltered, sinces[u])
    BY <1>8, <1>10
  <2> QED
    BY <1>10, <2>1, <2>2
<1> QED
  BY <1>11, <1>12 DEF Stale!Serve, sinces

LEMMA RefuseView ==
  ASSUME TypeOK, PageInv, [Next]_vars, NEW u \in User, Busy(u), Failed(u)
  PROVE  Stale!Refuse(u)
<1>1. /\ Wants[u] # {} /\ Wants'[u] = {} /\ since'[u] = since[u]
      /\ Page[u] = {} /\ Page'[u] = {}
  BY DEF Failed, Ended, Wants, Page
<1>2. Page' = Page
  BY <1>1 DEF Busy, Same, Page
<1> QED
  BY <1>1, <1>2, ViewFrame DEF Stale!Refuse, Busy

LEMMA ViewStep ==
  TypeOK /\ PageInv /\ ViewsInv' /\ [Next]_vars => [Stale!Next]_Stale!vars
<1> SUFFICES ASSUME TypeOK, PageInv, ViewsInv', [Next]_vars
             PROVE  [Stale!Next]_Stale!vars
  OBVIOUS
<1>1. ASSUME \A u \in User : Wants'[u] = Wants[u] /\ since'[u] = since[u] /\ Page'[u] = Page[u]
      PROVE  /\ Wants' = Wants
             /\ [u \in User |-> since'[u]] = [u \in User |-> since[u]]
             /\ Page' = Page
  BY <1>1 DEF Wants, Page
<1>2. Quiet => \A u \in User :
                 Wants'[u] = Wants[u] /\ since'[u] = since[u] /\ Page'[u] = Page[u]
  BY DEF Quiet, Same, Wants, Page
<1>3. CASE Quiet /\ Elapse
  BY <1>1, <1>2, <1>3 DEF Elapse, Stale!Next, Stale!Elapse
<1>4. ASSUME Quiet, NEW r \in Record, Commit(r) PROVE Stale!Save
  <2>1. PICK stamp \in LastSeen : table' = table \cup {[id |-> r, stamp |-> stamp, at |-> now]}
    BY <1>4 DEF Commit
  <2>2. \E row \in table' : row.at = now /\ table' = table \cup {row}
    BY <2>1
  <2> QED
    BY <1>1, <1>2, <1>4, <2>2 DEF Commit, Stale!Save
<1>5. CASE Quiet /\ UNCHANGED <<now, table>>
  BY <1>1, <1>2, <1>5 DEF Stale!vars
<1>6. ASSUME NEW u \in User, Busy(u) PROVE [Stale!Next]_Stale!vars
  <2>1. CASE Same(u)
    BY <1>1, <1>2, <1>6, <2>1 DEF Busy, Quiet, Stale!vars
  <2>2. CASE Asked(u)
    BY <1>6, <2>2, RequestView DEF Stale!Next
  <2>3. CASE Answered(u)
    <3>1. \A v \in User : Wants'[v] = Wants[v] /\ since'[v] = since[v] /\ Page'[v] = Page[v]
      BY <1>6, <2>3 DEF Busy, Same, Answered, Arrived, Wants, Page
    <3> QED
      BY <1>1, <1>6, <3>1 DEF Busy, Stale!vars
  <2>4. CASE Served(u)
    BY <1>6, <2>4, ServeView DEF Stale!Next
  <2>5. CASE Failed(u)
    BY <1>6, <2>5, RefuseView DEF Stale!Next
  <2> QED
    BY <1>6, <2>1, <2>2, <2>3, <2>4, <2>5 DEF Busy
<1> QED
  BY <1>3, <1>4, <1>5, <1>6, UserSteps DEF Stale!Next

\* Unless the database's results are cut short, the dashboard's users see no cache
\* (ImplementsStaleView): for any number of them, and whatever is evicted, dropped,
\* refused or fails, UICache implements StaleView.
THEOREM PagesAreStaleViews ==
  ASSUME "truncate" \notin Faults PROVE Spec => ImplementsStaleView
<1>1. Init => Stale!Init
  <2>1. Init => /\ now \in Nat
                /\ Wants = [u \in User |-> {}]
                /\ [u \in User |-> since[u]] = [u \in User |-> 0]
                /\ Page = [u \in User |-> {}]
    BY BoundAssumption, ProcessAssumption DEF Init, Wants, Page, Process
  <2> QED
    BY <2>1 DEF Init, Stale!Init
<1> QED
  BY <1>1, PageInit, PageStep, AnswersAreViews, ViewStep, TypeCorrect, OwnRows,
     NeverTooOld, Snapshots, PTL
  DEF Spec, ImplementsStaleView, Stale!Spec

=============================================================================
