--------------------------- MODULE UICacheProofs ---------------------------
(***************************************************************************)
(* Theorems about UICache, for every value of its constants.               *)
(***************************************************************************)
EXTENDS UICache, Integers, TLAPS

----------------------------------------------------------------------------
(* The operators *)

\* Rounding gives a time.
LEMMA RoundType == ASSUME NEW t \in Nat PROVE Round(t) \in Nat
<1> DEFINE a == t + RoundPeriod \div 2
<1>1. RoundPeriod \in Nat \ {0}
  BY RoundAssumption
<1>2. RoundPeriod \div 2 \in Nat
  BY <1>1
<1>3. a \in Nat
  BY <1>2
<1> HIDE DEF a
<1>4. a \div RoundPeriod \in Nat
  BY <1>1, <1>3
<1>5. (a \div RoundPeriod) * RoundPeriod \in Nat
  BY <1>1, <1>4
<1> QED
  BY <1>5 DEF Round, RoundDown, a

\* Rounding moves a time into the past by half a period at most.
LEMMA RoundBound ==
  ASSUME NEW t \in Nat PROVE t <= Round(t) + RoundPeriod \div 2
<1> DEFINE h == RoundPeriod \div 2
           a == t + h
<1>1. RoundPeriod \in Nat \ {0}
  BY RoundAssumption
<1>2. h \in Nat /\ RoundPeriod <= 2 * h + 1
  BY <1>1
<1>3. a \in Nat
  BY <1>2
<1>4. (a \div RoundPeriod) * RoundPeriod \in Int /\ a < (a \div RoundPeriod) * RoundPeriod + RoundPeriod
  BY <1>1, <1>3
<1> QED
  BY <1>1, <1>2, <1>3, <1>4 DEF Round, RoundDown

\* What a process asks for is a call of one of the two cached functions.
LEMMA AskType ==
  ASSUME TypeOK, NEW p \in Process
  PROVE  /\ Ask(p).kind \in Kind
         /\ Ask(p).filter \in Filter
         /\ Key(Ask(p)) \in Kind \X Selection \X (Nat \cup {Unbounded})
<1>1. Unfiltered \in Filter
  BY SelectionAssumption DEF Unfiltered, Filter
<1>2. want[p] \in Filter
  BY DEF TypeOK
<1>3. /\ Ask(p).kind \in Kind
      /\ Ask(p).filter \in Filter
  BY <1>1, <1>2 DEF Ask, Kind
<1> QED
  BY <1>3 DEF Key, Filter

----------------------------------------------------------------------------
(* Types *)

\* Only time changes the clock, and only a commit the table.
LEMMA Monotone ==
  ASSUME TypeOK, [Next]_vars
  PROVE  /\ now' \in Nat /\ now <= now'
         /\ table \subseteq table'
         /\ table' \subseteq Row
<1>1. now \in Nat /\ table \subseteq Row
  BY DEF TypeOK
<1>2. CASE Elapse
  BY <1>1, <1>2 DEF Elapse
<1>3. ASSUME NEW r \in Record, Commit(r)
      PROVE  /\ now' = now
             /\ table \subseteq table'
             /\ table' \subseteq Row
  <2>1. PICK stamp \in LastSeen :
          table' = table \cup {[id |-> r, stamp |-> stamp, at |-> now]}
    BY <1>3 DEF Commit
  <2>2. [id |-> r, stamp |-> stamp, at |-> now] \in Row
    BY <1>1, LastSeenAssumption DEF Row
  <2> QED
    BY <1>1, <1>3, <2>1, <2>2 DEF Commit
<1>4. CASE UNCHANGED <<now, table>>
  BY <1>1, <1>4
<1>5. [Next]_vars => \/ Elapse
                     \/ \E r \in Record : Commit(r)
                     \/ UNCHANGED <<now, table>>
  BY DEF Next, vars, Prefetch, Request, Start, Step, Hit, Miss, Query, QueryError, Store, Evict
<1> QED
  BY <1>1, <1>2, <1>3, <1>4, <1>5

\* The end of one answer leaves the control state of its process in its types.
LEMMA AdvanceType ==
  ASSUME TypeOK, NEW p \in Process, now' = now, Advance(p) \/ Abandon(p)
  PROVE  /\ nextTick' \in Nat
         /\ pc' \in [Process -> {"idle", "lookup", "query", "store"}]
         /\ step' \in [Process -> 1 .. 3]
         /\ want' \in [Process -> Filter]
         /\ began' \in [Process -> 0 .. now]
<1>1. /\ now \in Nat
      /\ nextTick \in Nat
      /\ pc \in [Process -> {"idle", "lookup", "query", "store"}]
      /\ step \in [Process -> 1 .. 3]
      /\ want \in [Process -> Filter]
      /\ began \in [Process -> 0 .. now]
  BY DEF TypeOK
<1>2. Unfiltered \in Filter
  BY SelectionAssumption DEF Unfiltered, Filter
<1>3. CASE Proceed(p)
  <2>1. NextWant(p) \in Filter
    <3>1. CASE p # Prefetcher
      BY <1>1, <3>1 DEF NextWant
    <3>2. CASE p = Prefetcher /\ step[p] = 1
      BY <3>2, <1>1, RoundType, SelectionAssumption DEF NextWant, Filter
    <3>3. CASE p = Prefetcher /\ step[p] # 1
      BY <3>3, <1>1, SelectionAssumption DEF NextWant, Filter
    <3> QED
      BY <3>1, <3>2, <3>3
  <2>2. step[p] + 1 \in 1 .. 3
    BY <1>1, <1>3 DEF Proceed
  <2> QED
    BY <1>1, <1>3, <2>1, <2>2 DEF Proceed
<1>4. CASE Return(p) /\ nextTick' \in Nat
  BY <1>1, <1>2, <1>4 DEF Return
<1>5. Finish(p) => Return(p) /\ nextTick' \in Nat
  BY <1>1, TTLAssumption DEF Finish
<1>6. Abandon(p) => Return(p) /\ nextTick' \in Nat
  BY <1>1 DEF Abandon
<1> QED
  BY <1>3, <1>4, <1>5, <1>6 DEF Advance

\* The entries keep their types whatever becomes of them, as long as no key has two.
LEMMA CacheType ==
  ASSUME TypeOK, [Next]_vars,
         NEW k \in Kind \X Selection \X (Nat \cup {Unbounded}), NEW rows \in SUBSET table,
         \/ cache' \subseteq cache
         \/ cache' = Put(k, rows)
  PROVE  /\ cache' \subseteq Entry'
         /\ \A e \in cache' : e.ts <= now'
         /\ \A e1, e2 \in cache' : e1.key = e2.key => e1 = e2
<1>1. /\ now \in Nat /\ now' \in Nat /\ now <= now'
      /\ table \subseteq table'
  BY Monotone DEF TypeOK
<1>2. \A e \in cache : e \in Entry' /\ e.ts <= now'
  BY <1>1 DEF TypeOK, Entry
<1>3. \A e1, e2 \in cache : e1.key = e2.key => e1 = e2
  BY DEF TypeOK
<1>4. CASE cache' \subseteq cache
  BY <1>2, <1>3, <1>4
<1>5. CASE cache' = Put(k, rows)
  <2> DEFINE new == [key |-> k, rows |-> rows, ts |-> now]
  <2>1. new \in Entry' /\ new.ts <= now' /\ new.key = k
    BY <1>1 DEF Entry
  <2>2. cache' = {e \in cache : e.key # k} \cup {new}
    BY <1>5 DEF Put
  <2> HIDE DEF new
  <2> QED
    BY <1>2, <1>3, <2>1, <2>2
<1> QED
  BY <1>4, <1>5

\* Answers keep their types: a process gains one answer, or forgets them all.
LEMMA GotType ==
  ASSUME TypeOK, [Next]_vars, NEW p \in Process, NEW rows \in SUBSET table,
         \/ got' = got
         \/ got' = [got EXCEPT ![p] = {}]
         \/ got' = [got EXCEPT ![p] = @ \cup {[kind   |-> Ask(p).kind,
                                               filter |-> Ask(p).filter,
                                               rows   |-> rows]}]
  PROVE  got' \in [Process -> SUBSET Part']
<1> DEFINE new == [kind |-> Ask(p).kind, filter |-> Ask(p).filter, rows |-> rows]
<1>1. table \subseteq table'
  BY Monotone
<1>2. Part \subseteq Part' /\ new \in Part'
  BY <1>1, AskType DEF Part
<1>3. got \in [Process -> SUBSET Part']
  BY <1>2 DEF TypeOK
<1> HIDE DEF new
<1> QED
  BY <1>2, <1>3 DEF new

\* A cached entry's rows and a database's answer are rows of the table.
LEMMA RowsOfTable ==
  ASSUME TypeOK
  PROVE  /\ \A e \in cache : e.rows \in SUBSET table /\ e.key \in Kind \X Selection \X (Nat \cup {Unbounded})
         /\ \A f : Results(f) \subseteq SUBSET table
<1>1. \A e \in cache : e.rows \in SUBSET table /\ e.key \in Kind \X Selection \X (Nat \cup {Unbounded})
  BY DEF TypeOK, Entry
<1>2. \A f : Results(f) \subseteq SUBSET table
  BY DEF Results, Rows
<1> QED
  BY <1>1, <1>2

\* TypeOK is inductive.
LEMMA TypeStep == TypeOK /\ [Next]_vars => TypeOK'
<1> SUFFICES ASSUME TypeOK, [Next]_vars PROVE TypeOK'
  OBVIOUS
<1>0. /\ now \in Nat /\ now' \in Nat /\ now <= now'
      /\ table \subseteq table'
      /\ table' \subseteq Row
  BY Monotone DEF TypeOK
<1>1. /\ tick \in BOOLEAN
      /\ nextTick \in Nat
      /\ pc \in [Process -> {"idle", "lookup", "query", "store"}]
      /\ step \in [Process -> 1 .. 3]
      /\ want \in [Process -> Filter]
      /\ since \in [Process -> 0 .. now]
      /\ began \in [Process -> 0 .. now]
      /\ val \in [Process -> SUBSET table]
  BY DEF TypeOK
<1>2. /\ since \in [Process -> 0 .. now']
      /\ began \in [Process -> 0 .. now']
      /\ val \in [Process -> SUBSET table']
  BY <1>0, <1>1
<1> DEFINE K == Kind \X Selection \X (Nat \cup {Unbounded})
           CacheStep == \E k \in K, rows \in SUBSET table :
                          cache' \subseteq cache \/ cache' = Put(k, rows)
           GotStep == \E p \in Process, rows \in SUBSET table :
                        \/ got' = got
                        \/ got' = [got EXCEPT ![p] = {}]
                        \/ got' = [got EXCEPT ![p] = @ \cup {[kind   |-> Ask(p).kind,
                                                              filter |-> Ask(p).filter,
                                                              rows   |-> rows]}]
<1>3. CacheStep => /\ cache' \subseteq Entry'
                   /\ \A e \in cache' : e.ts <= now'
                   /\ \A e1, e2 \in cache' : e1.key = e2.key => e1 = e2
  BY CacheType
<1>4. GotStep => got' \in [Process -> SUBSET Part']
  BY GotType
<1>5. K # {} /\ {} \in SUBSET table /\ Prefetcher \in Process /\ User \subseteq Process
  <2>1. <<"page", Everything, Unbounded>> \in K
    BY SelectionAssumption DEF Kind
  <2> QED
    BY <2>1 DEF Process
<1>6. UNCHANGED cache => CacheStep
  BY <1>5
<1>7. UNCHANGED got => GotStep
  BY <1>5
<1> HIDE DEF CacheStep, GotStep
<1>a. CASE Elapse
  BY <1>a, <1>0, <1>1, <1>2, <1>3, <1>4, <1>6, <1>7, TTLAssumption DEF Elapse, TypeOK
<1>b. CASE \E r \in Record : Commit(r)
  BY <1>b, <1>0, <1>1, <1>2, <1>3, <1>4, <1>6, <1>7 DEF Commit, TypeOK
<1>c. ASSUME NEW p \in Process, Start(p), want' \in [Process -> Filter], tick' \in BOOLEAN
      PROVE  TypeOK'
  <2>1. GotStep
    BY <1>5, <1>c DEF Start, GotStep
  <2> QED
    BY <1>c, <2>1, <1>0, <1>1, <1>2, <1>3, <1>4, <1>6 DEF Start, TypeOK
<1>d. CASE Prefetch
  BY <1>c, <1>d, <1>1, <1>5 DEF Prefetch
<1>e. ASSUME NEW u \in User, NEW sel \in UserSelection, NEW to \in ExplicitTo \cup {Round(now)},
             Request(u, sel, to)
      PROVE  TypeOK'
  <2>1. [sel |-> sel, to |-> to] \in Filter
    BY <1>1, <1>0, UserAssumption, ToAssumption, RoundType DEF Filter
  <2> QED
    BY <1>c, <1>e, <1>1, <1>5, <2>1 DEF Request
<1>f. ASSUME NEW p \in Process, Step(p)
      PROVE  TypeOK'
  <2>1. CASE Hit(p)
    <3>1. PICK e \in Hits(p) : Answer(p, e.rows)
      BY <2>1 DEF Hit
    <3>2. e.rows \in SUBSET table
      BY <3>1, RowsOfTable DEF Hits
    <3>3. GotStep
      BY <3>1, <3>2 DEF Answer, GotStep
    <3>4. Advance(p) /\ UNCHANGED <<now, table, cache, tick, since, val>>
      BY <2>1, <3>1 DEF Hit, Answer
    <3> QED
      BY <3>3, <3>4, AdvanceType, <1>0, <1>1, <1>2, <1>3, <1>4, <1>6 DEF TypeOK
  <2>2. CASE Miss(p)
    BY <2>2, <1>0, <1>1, <1>2, <1>3, <1>4, <1>6, <1>7 DEF Miss, TypeOK
  <2>3. CASE Query(p)
    BY <2>3, <1>0, <1>1, <1>2, <1>3, <1>4, <1>6, <1>7, RowsOfTable DEF Query, TypeOK
  <2>4. CASE QueryError(p)
    <3>1. GotStep
      BY <1>5, <1>7, <2>4 DEF QueryError, Abandon, GotStep
    <3>2. (Advance(p) \/ Abandon(p)) /\ UNCHANGED <<now, table, cache, tick, since, val>>
      BY <2>4 DEF QueryError
    <3> QED
      BY <3>1, <3>2, AdvanceType, <1>0, <1>1, <1>2, <1>3, <1>4, <1>6 DEF TypeOK
  <2>5. CASE Store(p)
    <3>1. val[p] \in SUBSET table
      BY <1>1
    <3>2. CacheStep
      BY <2>5, <3>1, <1>5, AskType DEF Store, Dropped, CacheStep
    <3>3. GotStep
      BY <2>5, <3>1 DEF Store, Answer, GotStep
    <3>4. /\ Advance(p) /\ UNCHANGED <<now, table, tick, since>>
          /\ val' \in [Process -> SUBSET table']
      BY <2>5, <1>0, <1>2 DEF Store, Answer
    <3> QED
      BY <3>2, <3>3, <3>4, AdvanceType, <1>0, <1>1, <1>2, <1>3, <1>4 DEF TypeOK
  <2> QED
    BY <1>f, <2>1, <2>2, <2>3, <2>4, <2>5 DEF Step
<1>g. ASSUME NEW e \in cache, Evict(e)
      PROVE  TypeOK'
  <2>1. CacheStep
    BY <1>g, <1>5 DEF Evict, CacheStep
  <2> QED
    BY <1>g, <2>1, <1>0, <1>1, <1>2, <1>3, <1>4, <1>7 DEF Evict, TypeOK
<1>h. CASE UNCHANGED vars
  BY <1>h, <1>0, <1>1, <1>2, <1>3, <1>4, <1>6, <1>7 DEF vars, TypeOK
<1> QED
  BY <1>a, <1>b, <1>d, <1>e, <1>f, <1>g, <1>h DEF Next

\* Every variable always has its type (UICache's TypeOK).
THEOREM TypeCorrect == Spec => []TypeOK
<1>1. Init => TypeOK
  <2> SUFFICES ASSUME Init PROVE TypeOK
    OBVIOUS
  <2>1. Unfiltered \in Filter
    BY SelectionAssumption DEF Unfiltered, Filter
  <2>2. now \in Nat /\ now = StartTime
    BY BoundAssumption DEF Init
  <2>3. began \in [Process -> 0 .. now] /\ since \in [Process -> 0 .. now]
    BY <2>2 DEF Init
  <2>4. pc \in [Process -> {"idle", "lookup", "query", "store"}]
    BY DEF Init
  <2>5. /\ step \in [Process -> 1 .. 3]
        /\ want \in [Process -> Filter]
        /\ val \in [Process -> SUBSET table]
        /\ got \in [Process -> SUBSET Part]
    BY <2>1 DEF Init
  <2> QED
    BY <2>2, <2>3, <2>4, <2>5 DEF Init, TypeOK
<1> QED
  BY <1>1, TypeStep, PTL DEF Spec

----------------------------------------------------------------------------
(* What a step can do to the reads under way, the entries and the answers *)

\* A read about to be stored is an old one, untouched, or what the database just said.
LEMMA ReadsFrame ==
  ASSUME TypeOK, [Next]_vars, NEW p \in Process, pc'[p] = "store"
  PROVE  /\ Ask(p)' = Ask(p) /\ began'[p] = began[p]
         /\ \/ pc[p] = "store" /\ val'[p] = val[p]
            \/ /\ val'[p] \in Results(Ask(p).filter)
               /\ pc[p] = "query" /\ now' = now /\ table' = table
<1> DEFINE Kept == /\ step'[p] = step[p] /\ want'[p] = want[p] /\ began'[p] = began[p]
                   /\ pc[p] = "store" /\ val'[p] = val[p]
<1>1. /\ pc \in [Process -> {"idle", "lookup", "query", "store"}]
      /\ step \in [Process -> 1 .. 3]
      /\ want \in [Process -> Filter]
      /\ began \in [Process -> 0 .. now]
      /\ val \in [Process -> SUBSET table]
  BY DEF TypeOK
<1>2. ASSUME NEW q \in Process, Advance(q) \/ Abandon(q), val' = val \/ val' = [val EXCEPT ![q] = {}]
      PROVE  Kept
  BY <1>1, <1>2 DEF Advance, Abandon, Proceed, Finish, Return
<1>3. ASSUME NEW q \in Process, Step(q), ~ Query(q)
      PROVE  Kept
  <2>1. CASE Miss(q)
    BY <2>1, <1>1 DEF Miss
  <2>2. CASE Hit(q) \/ QueryError(q) \/ Store(q)
    BY <2>2, <1>2 DEF Hit, QueryError, Store, Answer
  <2> QED
    BY <1>3, <2>1, <2>2 DEF Step
<1>4. ASSUME NEW q \in Process, Query(q), q # p
      PROVE  Kept
  BY <1>1, <1>4 DEF Query
<1>5. ASSUME NEW q \in Process, Start(q), want' = want \/ \E f : want' = [want EXCEPT ![q] = f]
      PROVE  Kept
  BY <1>1, <1>5 DEF Start
<1>6. ASSUME Elapse \/ (\E r \in Record : Commit(r)) \/ (\E e \in cache : Evict(e)) \/ UNCHANGED vars
      PROVE  Kept
  BY <1>6 DEF Elapse, Commit, Evict, vars
<1>7. Prefetch => Kept
  BY <1>5 DEF Prefetch, Process
<1>8. ASSUME NEW u \in User, NEW sel \in UserSelection, NEW to \in ExplicitTo \cup {Round(now)},
             Request(u, sel, to)
      PROVE  Kept
  BY <1>5, <1>8 DEF Request, Process
<1>9. Kept \/ Query(p)
  <2> HIDE DEF Kept
  <2>1. CASE Elapse \/ (\E r \in Record : Commit(r)) \/ (\E e \in cache : Evict(e)) \/ UNCHANGED vars
    BY <2>1, <1>6
  <2> QED
    BY <2>1, <1>3, <1>4, <1>7, <1>8 DEF Next
<1>10. CASE Kept
  BY <1>10 DEF Ask
<1>11. CASE Query(p)
  <2>1. PICK rows \in Results(Ask(p).filter) : val' = [val EXCEPT ![p] = rows]
    BY <1>11 DEF Query
  <2>2. Ask(p)' = Ask(p)
    BY <1>11 DEF Query, Ask
  <2> QED
    BY <1>1, <1>11, <2>1, <2>2 DEF Query
<1> QED
  BY <1>9, <1>10, <1>11

\* An entry is an old one, or one that a process just stored.
LEMMA EntriesFrame ==
  ASSUME TypeOK, [Next]_vars, NEW e \in cache'
  PROVE  \/ e \in cache
         \/ /\ now' = now /\ table' = table
            /\ \E p \in Process : /\ pc[p] = "store"
                                  /\ e = [key |-> Key(Ask(p)), rows |-> val[p], ts |-> now]
<1>1. ASSUME NEW p \in Process, Step(p)
      PROVE  \/ cache' = cache
             \/ /\ now' = now /\ table' = table /\ pc[p] = "store"
                /\ cache' = Put(Key(Ask(p)), val[p])
  BY <1>1 DEF Step, Hit, Miss, Query, QueryError, Store, Dropped
<1>2. \/ cache' \subseteq cache
      \/ \E p \in Process : Step(p)
  BY DEF Next, vars, Elapse, Prefetch, Request, Start, Commit, Evict
<1> QED
  BY <1>1, <1>2 DEF Put

\* An answer is an old one to an old request, or comes from a fresh entry or a read.
LEMMA AnswersFrame ==
  ASSUME TypeOK, [Next]_vars, NEW u \in User, NEW part \in got'[u]
  PROVE  /\ since'[u] = since[u]
         /\ \/ part \in got[u]
            \/ /\ now' = now /\ table' = table
               /\ part.filter = Ask(u).filter
               /\ \/ \E e \in Hits(u) : part.rows = e.rows
                  \/ pc[u] = "store" /\ part.rows = val[u]
<1> DEFINE Kept == since'[u] = since[u] /\ part \in got[u]
           Given(rows) == part = [kind |-> Ask(u).kind, filter |-> Ask(u).filter, rows |-> rows]
<1>0. u \in Process /\ u # Prefetcher
  BY ProcessAssumption DEF Process
<1>1. since \in [Process -> 0 .. now] /\ got \in [Process -> SUBSET Part]
  BY DEF TypeOK
<1>2. ASSUME \/ Elapse \/ (\E r \in Record : Commit(r)) \/ (\E e \in cache : Evict(e))
             \/ UNCHANGED vars
      PROVE  Kept
  BY <1>2 DEF Elapse, Commit, Evict, vars
<1>3. ASSUME NEW q \in Process, Start(q)
      PROVE  Kept
  BY <1>0, <1>1, <1>3 DEF Start
<1>4. ASSUME NEW q \in Process, NEW rows, Answer(q, rows), since' = since
      PROVE  Kept \/ (q = u /\ since'[u] = since[u] /\ Given(rows))
  BY <1>0, <1>1, <1>4 DEF Answer
<1>5. ASSUME NEW q \in Process, Miss(q) \/ Query(q) \/ QueryError(q)
      PROVE  Kept
  BY <1>0, <1>1, <1>5 DEF Miss, Query, QueryError, Abandon
<1>6. ASSUME NEW q \in Process, Hit(q)
      PROVE  \/ Kept
             \/ /\ since'[u] = since[u] /\ now' = now /\ table' = table
                /\ \E e \in Hits(u) : Given(e.rows)
  <2>1. PICK e \in Hits(q) : Answer(q, e.rows)
    BY <1>6 DEF Hit
  <2>2. since' = since /\ now' = now /\ table' = table
    BY <1>6 DEF Hit
  <2>3. Kept \/ (q = u /\ since'[u] = since[u] /\ Given(e.rows))
    BY <1>4, <2>1, <2>2
  <2> QED
    BY <2>1, <2>2, <2>3
<1>7. ASSUME NEW q \in Process, Store(q)
      PROVE  \/ Kept
             \/ /\ since'[u] = since[u] /\ now' = now /\ table' = table
                /\ pc[u] = "store" /\ Given(val[u])
  <2>1. Answer(q, val[q]) /\ since' = since /\ now' = now /\ table' = table /\ pc[q] = "store"
    BY <1>7 DEF Store
  <2>2. Kept \/ (q = u /\ since'[u] = since[u] /\ Given(val[q]))
    BY <1>4, <2>1
  <2> QED
    BY <2>1, <2>2
<1>8. Prefetch => Kept
  BY <1>3 DEF Prefetch, Process
<1>9. ASSUME NEW v \in User, NEW sel \in UserSelection, NEW to \in ExplicitTo \cup {Round(now)},
             Request(v, sel, to)
      PROVE  Kept
  BY <1>3, <1>9 DEF Request, Process
<1>10. \/ Kept
       \/ /\ since'[u] = since[u] /\ now' = now /\ table' = table
          /\ \/ \E e \in Hits(u) : Given(e.rows)
             \/ pc[u] = "store" /\ Given(val[u])
  <2>1. CASE \/ Elapse \/ (\E r \in Record : Commit(r)) \/ (\E e \in cache : Evict(e))
             \/ UNCHANGED vars
    BY <2>1, <1>2
  <2> HIDE DEF Kept, Given
  <2>2. ASSUME NEW q \in Process, Step(q)
        PROVE  \/ Kept
               \/ /\ since'[u] = since[u] /\ now' = now /\ table' = table
                  /\ \/ \E e \in Hits(u) : Given(e.rows)
                     \/ pc[u] = "store" /\ Given(val[u])
    BY <2>2, <1>5, <1>6, <1>7 DEF Step
  <2> QED
    BY <2>1, <2>2, <1>8, <1>9 DEF Next
<1> QED
  BY <1>10

\* A key says which filter it was made from.
LEMMA KeyFilter ==
  ASSUME TypeOK, NEW p \in Process
  PROVE  FilterOf(Key(Ask(p))) = Ask(p).filter
<1>1. Ask(p).filter \in Filter
  BY AskType
<1> QED
  BY <1>1 DEF FilterOf, Key, Filter

\* What the database answers belongs to the filter.
LEMMA ResultsOwn ==
  ASSUME NEW f, NEW rows \in Results(f) PROVE rows \subseteq Rows(f)
BY DEF Results

\* A row a filter selects stays in the table.
LEMMA RowsGrow ==
  ASSUME TypeOK, [Next]_vars, NEW f PROVE Rows(f) \subseteq Rows(f)'
BY Monotone DEF Rows, Selects

----------------------------------------------------------------------------
(* Answers hold rows of their own filter *)

LEMMA OwnStep == TypeOK /\ OwnInv /\ [Next]_vars => OwnInv'
<1> SUFFICES ASSUME TypeOK, OwnInv, [Next]_vars PROVE OwnInv'
  OBVIOUS
<1>1. EntriesOwn'
  <2> SUFFICES ASSUME NEW e \in cache' PROVE e.rows \subseteq Rows(FilterOf(e.key))'
    BY DEF EntriesOwn, FilterOf
  <2>1. CASE e \in cache
    BY <2>1, RowsGrow DEF OwnInv, EntriesOwn
  <2>2. ASSUME NEW p \in Process, pc[p] = "store", table' = table,
               e = [key |-> Key(Ask(p)), rows |-> val[p], ts |-> now]
        PROVE  e.rows \subseteq Rows(FilterOf(e.key))'
    <3>1. val[p] \subseteq Rows(Ask(p).filter)
      BY <2>2 DEF OwnInv, ReadsOwn
    <3>2. FilterOf(e.key) = Ask(p).filter
      BY <2>2, KeyFilter
    <3> QED
      BY <2>2, <3>1, <3>2, RowsGrow
  <2> QED
    BY <2>1, <2>2, EntriesFrame
<1>2. ReadsOwn'
  <2> SUFFICES ASSUME NEW p \in Process, pc'[p] = "store"
               PROVE  val'[p] \subseteq Rows(Ask(p).filter)'
    BY DEF ReadsOwn
  <2>1. Ask(p)' = Ask(p)
    BY ReadsFrame
  <2>2. val'[p] \subseteq Rows(Ask(p).filter)
    BY ReadsFrame, ResultsOwn DEF OwnInv, ReadsOwn
  <2>3. Rows(Ask(p).filter) \subseteq Rows(Ask(p).filter)'
    BY <2>1, Monotone DEF Rows, Selects
  <2> QED
    BY <2>2, <2>3
<1>3. NoForeignRows'
  <2> SUFFICES ASSUME NEW u \in User, NEW part \in got'[u]
               PROVE  part.rows \subseteq Rows(part.filter)'
    BY DEF NoForeignRows
  <2>1. u \in Process
    BY DEF Process
  <2>2. CASE part \in got[u]
    BY <2>2, RowsGrow DEF OwnInv, NoForeignRows
  <2>3. ASSUME NEW e \in Hits(u), part.rows = e.rows, part.filter = Ask(u).filter
        PROVE  part.rows \subseteq Rows(part.filter)'
    <3>1. e \in cache /\ FilterOf(e.key) = Ask(u).filter
      BY <2>1, KeyFilter DEF Hits
    <3>2. e.rows \subseteq Rows(Ask(u).filter)
      BY <3>1 DEF OwnInv, EntriesOwn
    <3> QED
      BY <2>3, <3>2, RowsGrow
  <2>4. CASE pc[u] = "store" /\ part.rows = val[u] /\ part.filter = Ask(u).filter
    <3>1. val[u] \subseteq Rows(Ask(u).filter)
      BY <2>1, <2>4 DEF OwnInv, ReadsOwn
    <3> QED
      BY <2>4, <3>1, RowsGrow
  <2> QED
    BY <2>2, <2>3, <2>4, AnswersFrame
<1> QED
  BY <1>1, <1>2, <1>3 DEF OwnInv

\* No answer of the dashboard ever mixes two filters (NoForeignRows), whatever
\* interleaves, fails, is evicted, dropped or truncated.
THEOREM OwnRows == Spec => []NoForeignRows
<1>1. Init => OwnInv
  <2>1. Init => /\ cache = {}
                /\ \A p \in Process : pc[p] # "store"
                /\ \A u \in User : got[u] = {}
    BY DEF Init, Process
  <2> QED
    BY <2>1 DEF OwnInv, EntriesOwn, ReadsOwn, NoForeignRows
<1>2. OwnInv => NoForeignRows
  BY DEF OwnInv
<1> QED
  BY <1>1, <1>2, OwnStep, TypeCorrect, PTL DEF Spec

----------------------------------------------------------------------------
(* Answers are never too old *)

\* Without truncation the database's answer is complete.
LEMMA ResultsComplete ==
  ASSUME "truncate" \notin Faults, NEW f, NEW rows \in Results(f), NEW t
  PROVE  Complete(rows, f, t)
BY DEF Results, Rows, Complete

\* The table's rows are of the past, and a step adds rows of the present only.
LEMMA DatedStep ==
  ASSUME TypeOK, Dated, [Next]_vars
  PROVE  Dated' /\ \A row \in table' : row \in table \/ row.at = now
<1>1. now \in Nat /\ table \subseteq Row
  BY DEF TypeOK
<1>2. CASE table' = table
  BY <1>1, <1>2, Monotone DEF Dated, Row
<1>3. ASSUME NEW r \in Record, Commit(r)
      PROVE  Dated' /\ \A row \in table' : row \in table \/ row.at = now
  <2>1. PICK stamp \in LastSeen :
          table' = table \cup {[id |-> r, stamp |-> stamp, at |-> now]}
    BY <1>3 DEF Commit
  <2> QED
    BY <1>1, <1>3, <2>1 DEF Commit, Dated
<1>4. table' = table \/ \E r \in Record : Commit(r)
  BY DEF Next, vars, Elapse, Prefetch, Request, Start, Step, Hit, Miss, Query, QueryError, Store, Evict
<1> QED
  BY <1>2, <1>3, <1>4

\* Completeness up to a time that has come survives every step.
LEMMA CompleteStep ==
  ASSUME TypeOK, Dated, [Next]_vars, NEW f, NEW rows, NEW t \in Int, t <= now,
         Complete(rows, f, t)
  PROVE  \A row \in table' : Selects(f, row) /\ row.at < t => row \in rows
<1>1. now \in Nat
  BY DEF TypeOK
<1>2. \A row \in table' : row \in table \/ row.at = now
  BY DatedStep
<1> QED
  BY <1>1, <1>2 DEF Complete

\* Nothing takes longer than MaxLatency.
LEMMA DeadlineStep == TypeOK /\ Deadlines /\ [Next]_vars => Deadlines'
<1> SUFFICES ASSUME TypeOK, Deadlines, [Next]_vars, NEW p \in Process, pc'[p] # "idle"
             PROVE  /\ p \in User => since'[p] <= began'[p]
                    /\ now' <= began'[p] + MaxLatency
  BY DEF Deadlines
<1>1. /\ now \in Nat
      /\ pc \in [Process -> {"idle", "lookup", "query", "store"}]
      /\ since \in [Process -> 0 .. now]
      /\ began \in [Process -> 0 .. now]
      /\ since[p] \in Nat /\ since[p] <= now
      /\ began[p] \in Nat
      /\ MaxLatency \in Nat
  BY LatencyAssumption DEF TypeOK
<1> DEFINE Same == pc[p] # "idle" /\ since'[p] = since[p] /\ began'[p] = began[p] /\ now' = now
           New  == began'[p] = now /\ since'[p] \in Nat /\ since'[p] <= now /\ now' = now
<1>2. CASE Same
  BY <1>2 DEF Deadlines
<1>3. CASE New
  BY <1>1, <1>3
<1>4. CASE Elapse
  <2>1. now' = now + 1 /\ now < began[p] + MaxLatency /\ since' = since /\ began' = began /\ pc[p] # "idle"
    BY <1>4 DEF Elapse
  <2> QED
    BY <1>1, <2>1 DEF Deadlines
<1>5. ASSUME NEW q \in Process, Advance(q) \/ Abandon(q), since' = since, now' = now
      PROVE  Same \/ New
  <2>1. CASE Proceed(q) /\ q = p
    BY <1>1, <1>5, <2>1 DEF Proceed
  <2>2. CASE Proceed(q) /\ q # p
    BY <1>1, <1>5, <2>2 DEF Proceed
  <2>3. CASE Return(q)
    BY <1>1, <1>5, <2>3 DEF Return
  <2> QED
    BY <1>5, <2>1, <2>2, <2>3 DEF Advance, Finish, Abandon
<1>6. ASSUME NEW q \in Process, Step(q)
      PROVE  Same \/ New
  <2>1. CASE Miss(q) \/ Query(q)
    BY <1>1, <2>1 DEF Miss, Query
  <2>2. CASE Hit(q) \/ QueryError(q) \/ Store(q)
    BY <2>2, <1>5 DEF Hit, QueryError, Store, Answer
  <2> QED
    BY <1>6, <2>1, <2>2 DEF Step
<1>7. ASSUME NEW q \in Process, Start(q)
      PROVE  Same \/ New
  BY <1>1, <1>7 DEF Start
<1>8. ASSUME (\E r \in Record : Commit(r)) \/ (\E e \in cache : Evict(e)) \/ UNCHANGED vars
      PROVE  Same
  BY <1>8 DEF Commit, Evict, vars
<1>9. Prefetch => Same \/ New
  BY <1>7 DEF Prefetch, Process
<1>10. ASSUME NEW u \in User, NEW sel \in UserSelection, NEW to \in ExplicitTo \cup {Round(now)},
              Request(u, sel, to)
       PROVE  Same \/ New
  BY <1>7, <1>10 DEF Request, Process
<1> HIDE DEF Same, New
<1> QED
  BY <1>2, <1>3, <1>4, <1>6, <1>8, <1>9, <1>10 DEF Next

LEMMA VisStep ==
  ASSUME "truncate" \notin Faults
  PROVE  TypeOK /\ VisInv /\ [Next]_vars => VisInv'
<1> SUFFICES ASSUME TypeOK, VisInv, [Next]_vars PROVE VisInv'
  OBVIOUS
<1>0. /\ now \in Nat /\ now' \in Nat /\ now <= now'
      /\ table' \subseteq Row
      /\ TTL \in Nat \ {0} /\ MaxLatency \in Nat
  BY Monotone, TTLAssumption, LatencyAssumption DEF TypeOK
<1>1. Dated'
  BY DatedStep DEF VisInv
<1>2. Deadlines'
  BY DeadlineStep DEF VisInv
<1>3. ReadsComplete'
  <2> SUFFICES ASSUME NEW p \in Process, pc'[p] = "store",
                      NEW row \in table', Selects(Ask(p).filter, row)', row.at < began'[p]
               PROVE  row \in val'[p]
    BY DEF ReadsComplete, Complete
  <2>1. Ask(p)' = Ask(p) /\ began'[p] = began[p] /\ Selects(Ask(p).filter, row)
    BY ReadsFrame DEF Selects
  <2>2. began[p] \in Int /\ began[p] <= now
    BY DEF TypeOK
  <2>3. CASE pc[p] = "store" /\ val'[p] = val[p]
    BY <2>1, <2>2, <2>3, CompleteStep DEF VisInv, ReadsComplete
  <2>4. CASE val'[p] \in Results(Ask(p).filter) /\ table' = table
    BY <2>1, <2>4, ResultsComplete DEF Complete
  <2> QED
    BY <2>3, <2>4, ReadsFrame
<1>4. EntriesComplete'
  <2> SUFFICES ASSUME NEW e \in cache', NEW row \in table',
                      Selects(FilterOf(e.key), row), row.at < e.ts - MaxLatency
               PROVE  row \in e.rows
    BY DEF EntriesComplete, Complete, FilterOf, Selects
  <2>1. CASE e \in cache
    <3>1. e.ts \in Nat /\ e.ts <= now
      BY <2>1 DEF TypeOK, Entry
    <3>2. e.ts - MaxLatency \in Int /\ e.ts - MaxLatency <= now
      BY <3>1, <1>0
    <3> QED
      BY <2>1, <3>2, CompleteStep DEF VisInv, EntriesComplete
  <2>2. ASSUME NEW p \in Process, pc[p] = "store", table' = table,
               e = [key |-> Key(Ask(p)), rows |-> val[p], ts |-> now]
        PROVE  row \in e.rows
    <3>1. FilterOf(e.key) = Ask(p).filter
      BY <2>2, KeyFilter
    <3>2. began[p] \in Nat /\ now <= began[p] + MaxLatency
      BY <2>2 DEF TypeOK, VisInv, Deadlines
    <3>3. row.at \in Nat /\ row.at < began[p]
      BY <2>2, <3>2, <1>0 DEF Row
    <3> QED
      BY <2>2, <3>1, <3>3 DEF VisInv, ReadsComplete, Complete
  <2> QED
    BY <2>1, <2>2, EntriesFrame
<1>5. Visibility'
  <2> SUFFICES ASSUME NEW u \in User, NEW part \in got'[u], NEW row \in table',
                      Selects(part.filter, row), row.at + TTL + MaxLatency <= since'[u]
               PROVE  row \in part.rows
    BY DEF Visibility, Selects
  <2>1. /\ u \in Process
        /\ since'[u] = since[u] /\ since[u] \in Nat /\ since[u] <= now
        /\ row.at \in Nat
    BY <1>0, AnswersFrame DEF TypeOK, Process, Row
  <2>2. row \in table
    BY <2>1, <1>0, DatedStep DEF VisInv
  <2>3. CASE part \in got[u]
    BY <2>1, <2>2, <2>3 DEF VisInv, Visibility
  <2>4. ASSUME NEW e \in Hits(u), part.rows = e.rows, part.filter = Ask(u).filter
        PROVE  row \in part.rows
    <3>1. e \in cache /\ now - e.ts < TTL /\ FilterOf(e.key) = Ask(u).filter
      BY <2>1, KeyFilter DEF Hits, Fresh
    <3>2. e.ts \in Nat
      BY <3>1 DEF TypeOK, Entry
    <3>3. row.at < e.ts - MaxLatency
      BY <2>1, <3>1, <3>2, <1>0
    <3> QED
      BY <2>2, <2>4, <3>1, <3>3 DEF VisInv, EntriesComplete, Complete
  <2>5. CASE pc[u] = "store" /\ part.rows = val[u] /\ part.filter = Ask(u).filter
    <3>1. since[u] <= began[u] /\ began[u] \in Nat
      BY <2>1, <2>5 DEF VisInv, Deadlines, TypeOK
    <3>2. row.at < began[u]
      BY <2>1, <3>1, <1>0
    <3> QED
      BY <2>1, <2>2, <2>5, <3>2 DEF VisInv, ReadsComplete, Complete
  <2> QED
    BY <2>3, <2>4, <2>5, AnswersFrame
<1> QED
  BY <1>1, <1>2, <1>3, <1>4, <1>5 DEF VisInv

\* The initial state satisfies the invariant.
LEMMA VisInit == Init => VisInv
<1> SUFFICES ASSUME Init PROVE VisInv
  OBVIOUS
<1>1. /\ table = {} /\ cache = {}
      /\ \A p \in Process : pc[p] # "store"
      /\ \A u \in User : got[u] = {}
  BY DEF Init, Process
<1>2. Dated /\ ReadsComplete /\ EntriesComplete /\ Visibility
  BY <1>1 DEF Dated, ReadsComplete, EntriesComplete, Visibility
<1>3. Deadlines
  <2> SUFFICES ASSUME NEW p \in Process, pc[p] # "idle"
               PROVE  (p \in User => since[p] <= began[p]) /\ now <= began[p] + MaxLatency
    BY DEF Deadlines
  <2>1. p = Prefetcher /\ began[p] = now /\ now \in Nat
    BY BoundAssumption DEF Init
  <2> QED
    BY <2>1, ProcessAssumption, LatencyAssumption
<1> QED
  BY <1>2, <1>3 DEF VisInv

\* As long as the database never cuts a result short, every answer shows what was
\* committed TTL + MaxLatency before its request (Visibility).
THEOREM NeverTooOld ==
  ASSUME "truncate" \notin Faults PROVE Spec => []Visibility
<1>1. VisInv => Visibility
  BY DEF VisInv
<1> QED
  BY <1>1, VisInit, VisStep, TypeCorrect, PTL DEF Spec

\* The same of the default dashboard, whose end date is rounded, for a row that half a
\* RoundPeriod has passed since its stamp, whether that lay behind the server's clock
\* or ahead of it (DefaultVisibility).
THEOREM DefaultNeverTooOld ==
  ASSUME "truncate" \notin Faults PROVE Spec => []DefaultVisibility
<1>1. TypeOK /\ VisInv => DefaultVisibility
  <2> SUFFICES ASSUME TypeOK, VisInv,
                      NEW u \in User, NEW part \in got[u], NEW row \in table,
                      part.filter.to = Round(since[u]),
                      row.id \in Matching[part.filter.sel],
                      row.at + TTL + MaxLatency <= since[u],
                      row.stamp + RoundPeriod \div 2 <= since[u]
               PROVE  row \in part.rows
    BY DEF DefaultVisibility
  <2>1. since[u] \in Nat /\ row.stamp \in Nat
    BY DEF TypeOK, Row, Process
  <2>2. Round(since[u]) \in Nat /\ since[u] <= Round(since[u]) + RoundPeriod \div 2
    BY <2>1, RoundType, RoundBound
  <2>3. RoundPeriod \div 2 \in Nat
    BY RoundAssumption
  <2>4. row.stamp <= Round(since[u])
    BY <2>1, <2>2, <2>3
  <2> QED
    BY <2>4 DEF VisInv, Visibility, Selects
<1> QED
  BY <1>1, VisInit, VisStep, TypeCorrect, PTL DEF Spec

----------------------------------------------------------------------------
(* The summary is kept warm *)

\* With nothing evicted, an entry is only ever replaced by a newer one of its key.
LEMMA SummaryKept ==
  ASSUME "evict" \notin Faults, TypeOK, [Next]_vars, NEW t \in Int, t <= now, Summarised(t)
  PROVE  \E e \in cache' : e.key = <<"summary", Everything, Unbounded>> /\ t <= e.ts
<1>1. PICK e \in cache : e.key = <<"summary", Everything, Unbounded>> /\ t <= e.ts
  BY DEF Summarised
<1>2. ASSUME NEW p \in Process, Step(p)
      PROVE  cache' = cache \/ cache' = Put(Key(Ask(p)), val[p])
  BY <1>2 DEF Step, Hit, Miss, Query, QueryError, Store, Dropped
<1>3. cache' = cache \/ \E k, rows : cache' = Put(k, rows)
  BY <1>2 DEF Next, vars, Elapse, Prefetch, Request, Start, Commit, Evict
<1>4. CASE cache' = cache
  BY <1>1, <1>4
<1>5. ASSUME NEW k, NEW rows, cache' = Put(k, rows)
      PROVE  \E f \in cache' : f.key = <<"summary", Everything, Unbounded>> /\ t <= f.ts
  <2>1. CASE k = e.key
    <3>1. [key |-> k, rows |-> rows, ts |-> now] \in cache'
      BY <1>5 DEF Put
    <3> QED
      BY <1>1, <2>1, <3>1
  <2>2. CASE k # e.key
    BY <1>1, <1>5, <2>2 DEF Put
  <2> QED
    BY <2>1, <2>2
<1> QED
  BY <1>3, <1>4, <1>5

\* The other processes leave the ticker and the prefetcher alone.
LEMMA PrefetcherFrame ==
  ASSUME TypeOK, [Next]_vars
  PROVE  \/ Elapse \/ Prefetch \/ Step(Prefetcher)
         \/ /\ UNCHANGED <<now, tick, nextTick>>
            /\ pc'[Prefetcher] = pc[Prefetcher]
            /\ step'[Prefetcher] = step[Prefetcher]
            /\ began'[Prefetcher] = began[Prefetcher]
<1> DEFINE Untouched == /\ UNCHANGED <<now, tick, nextTick>>
                        /\ pc'[Prefetcher] = pc[Prefetcher]
                        /\ step'[Prefetcher] = step[Prefetcher]
                        /\ began'[Prefetcher] = began[Prefetcher]
<1>1. Prefetcher \in Process /\ \A u \in User : u # Prefetcher
  BY ProcessAssumption DEF Process
<1>2. ASSUME NEW u \in User, Advance(u) \/ Abandon(u), now' = now, tick' = tick
      PROVE  Untouched
  BY <1>1, <1>2 DEF Advance, Abandon, Proceed, Finish, Return, TypeOK
<1>3. ASSUME NEW u \in User, Step(u) PROVE Untouched
  <2>1. CASE Miss(u) \/ Query(u)
    BY <1>1, <2>1 DEF Miss, Query, TypeOK
  <2>2. CASE Hit(u) \/ QueryError(u) \/ Store(u)
    BY <1>2, <2>2 DEF Hit, QueryError, Store, Answer
  <2> QED
    BY <1>3, <2>1, <2>2 DEF Step
<1>4. ASSUME NEW u \in User, NEW sel \in UserSelection, NEW to \in ExplicitTo \cup {Round(now)},
             Request(u, sel, to)
      PROVE  Untouched
  BY <1>1, <1>4 DEF Request, Start, TypeOK
<1>5. ASSUME (\E r \in Record : Commit(r)) \/ (\E e \in cache : Evict(e)) \/ UNCHANGED vars
      PROVE  Untouched
  BY <1>5 DEF Commit, Evict, vars
<1> HIDE DEF Untouched
<1>6. Elapse \/ Prefetch \/ Step(Prefetcher) \/ Untouched
  BY <1>3, <1>4, <1>5 DEF Next, Process
<1> QED
  BY <1>6 DEF Untouched

\* The prefetcher's call ends, and with it the prefetch or one of its steps.
LEMMA AdvanceRefreshes ==
  ASSUME 3 * MaxLatency <= TTL, TypeOK, TypeOK', Deadlines, RefreshInv, pc[Prefetcher] # "idle",
         Advance(Prefetcher), now' = now, tick' = tick,
         nextTick = 0 => \A e \in cache' : StartTime <= e.ts,
         nextTick = 0 =>
           \E e \in cache' : e.key = <<"summary", Everything, Unbounded>> /\ StartTime <= e.ts,
         nextTick # 0 /\ ~tick =>
           \E e \in cache' : /\ e.key = <<"summary", Everything, Unbounded>>
                             /\ nextTick - 2 * TTL <= e.ts
  PROVE  RefreshInv'
<1>1. /\ Prefetcher \in Process
      /\ now \in Nat /\ nextTick \in Nat /\ began[Prefetcher] \in Nat
      /\ step[Prefetcher] \in 1 .. 3
      /\ TTL \in Nat /\ TTL > 0 /\ MaxLatency \in Nat /\ StartTime \in Nat
  BY TTLAssumption, LatencyAssumption, BoundAssumption DEF TypeOK, Process
<1>2. now <= began[Prefetcher] + MaxLatency
  BY <1>1 DEF Deadlines
<1>3. nextTick = 0 => now <= StartTime + step[Prefetcher] * MaxLatency
  <2>1. step[Prefetcher] * MaxLatency = (step[Prefetcher] - 1) * MaxLatency + MaxLatency
    BY <1>1
  <2>2. (step[Prefetcher] - 1) * MaxLatency \in Int /\ step[Prefetcher] * MaxLatency \in Int
    BY <1>1
  <2> QED
    BY <1>1, <1>2, <2>1, <2>2 DEF RefreshInv, TickerInv
<1>4. CASE Proceed(Prefetcher)
  <2>1. /\ nextTick' = nextTick /\ began'[Prefetcher] = now
        /\ step'[Prefetcher] = step[Prefetcher] + 1 /\ pc'[Prefetcher] # "idle"
    BY <1>1, <1>4 DEF Proceed, TypeOK
  <2>2. TickerInv'
    BY <1>1, <1>3, <2>1 DEF RefreshInv, TickerInv
  <2>3. nextTick = 0 => Summarised(StartTime)'
    BY DEF Summarised
  <2>4. nextTick # 0 /\ ~tick => Summarised(nextTick - 2 * TTL)'
    BY <2>1 DEF Summarised
  <2> QED
    BY <2>1, <2>2, <2>3, <2>4 DEF RefreshInv
<1>5. CASE Finish(Prefetcher)
  <2>1. /\ step[Prefetcher] = 3 /\ step'[Prefetcher] = 1 /\ pc'[Prefetcher] = "idle"
        /\ nextTick' = IF nextTick = 0 THEN now + TTL ELSE nextTick
    BY <1>1, <1>5 DEF Finish, Return, TypeOK
  <2>2. TickerInv'
    BY <1>1, <2>1 DEF RefreshInv, TickerInv
  <2>3. ~tick => Summarised(nextTick - 2 * TTL)'
    <3>1. CASE nextTick = 0
      <4>1. \A t \in Nat : StartTime <= t => nextTick' - 2 * TTL <= t
        BY <1>1, <1>3, <2>1, <3>1
      <4>2. PICK e \in cache' : e.key = <<"summary", Everything, Unbounded>> /\ StartTime <= e.ts
        BY <3>1
      <4>3. e.ts \in Nat
        BY <4>2 DEF TypeOK, Entry
      <4>4. nextTick' - 2 * TTL <= e.ts
        BY <4>1, <4>2, <4>3
      <4> QED
        BY <4>2, <4>4 DEF Summarised
    <3>2. CASE nextTick # 0
      BY <2>1, <3>2 DEF Summarised
    <3> QED
      BY <3>1, <3>2
  <2> QED
    BY <1>1, <2>1, <2>2, <2>3 DEF RefreshInv
<1> QED
  BY <1>4, <1>5 DEF Advance

LEMMA RefreshStep ==
  ASSUME 3 * MaxLatency <= TTL, Faults \cap {"evict", "drop", "error"} = {}
  PROVE  TypeOK /\ Deadlines /\ RefreshInv /\ [Next]_vars => RefreshInv'
<1> SUFFICES ASSUME TypeOK, Deadlines, RefreshInv, [Next]_vars PROVE RefreshInv'
  OBVIOUS
<1> DEFINE Known(t) ==
      \E e \in cache' : e.key = <<"summary", Everything, Unbounded>> /\ t <= e.ts
<1>1. /\ Prefetcher \in Process
      /\ now \in Nat /\ nextTick \in Nat /\ tick \in BOOLEAN
      /\ step[Prefetcher] \in 1 .. 3
      /\ TTL \in Nat /\ TTL > 0 /\ StartTime \in Nat
      /\ TypeOK'
  BY TTLAssumption, BoundAssumption, TypeStep DEF TypeOK, Process
<1>2. \A e \in cache' : e \in cache \/ e.ts = now
  BY EntriesFrame
<1>3. nextTick = 0 => StartTime <= now /\ \A e \in cache' : StartTime <= e.ts
  BY <1>1, <1>2 DEF RefreshInv, TickerInv
<1>4. ASSUME NEW t \in Int, t <= now, Summarised(t) PROVE Known(t)
  BY <1>4, SummaryKept
<1>5. nextTick # 0 => nextTick - 2 * TTL \in Int /\ nextTick - 2 * TTL <= now
  BY <1>1 DEF RefreshInv, TickerInv
<1>6. ASSUME nextTick' = nextTick, tick' = tick, now' = now,
             pc'[Prefetcher] = pc[Prefetcher] \/ (pc[Prefetcher] # "idle" /\ pc'[Prefetcher] # "idle"),
             step'[Prefetcher] = step[Prefetcher], began'[Prefetcher] = began[Prefetcher]
      PROVE  RefreshInv'
  <2>1. TickerInv'
    BY <1>1, <1>3, <1>6 DEF RefreshInv, TickerInv
  <2>2. step'[Prefetcher] > 1 /\ nextTick' = 0 => Summarised(StartTime)'
    <3>1. StartTime \in Int /\ (nextTick = 0 => StartTime <= now)
      BY <1>1, <1>3
    <3>2. step[Prefetcher] > 1 /\ nextTick = 0 => Summarised(StartTime)
      BY DEF RefreshInv
    <3>3. step[Prefetcher] > 1 /\ nextTick = 0 => Known(StartTime)
      BY <1>4, <3>1, <3>2
    <3> QED
      BY <1>6, <3>3 DEF Summarised
  <2>3. (step'[Prefetcher] > 1 \/ pc'[Prefetcher] = "idle") /\ nextTick' # 0 /\ ~tick'
          => Summarised(nextTick - 2 * TTL)'
    BY <1>4, <1>5, <1>6 DEF RefreshInv, Summarised
  <2> QED
    BY <1>6, <2>1, <2>2, <2>3 DEF RefreshInv
<1>7. CASE Elapse
  <2>1. /\ now' = now + 1 /\ tick' = (tick \/ nextTick = now + 1)
        /\ nextTick' = IF nextTick = now + 1 THEN nextTick + TTL ELSE nextTick
        /\ UNCHANGED <<cache, pc, step, began>>
    BY <1>7 DEF Elapse
  <2>2. TickerInv'
    BY <1>1, <2>1 DEF RefreshInv, TickerInv
  <2>3. step'[Prefetcher] > 1 /\ nextTick' = 0 => Summarised(StartTime)'
    BY <1>1, <2>1 DEF RefreshInv, Summarised
  <2>4. (step'[Prefetcher] > 1 \/ pc'[Prefetcher] = "idle") /\ nextTick' # 0 /\ ~tick'
          => Summarised(nextTick - 2 * TTL)'
    BY <1>1, <2>1 DEF RefreshInv, Summarised
  <2> QED
    BY <2>1, <2>2, <2>3, <2>4 DEF RefreshInv
<1>8. CASE Prefetch
  <2>1. /\ pc[Prefetcher] = "idle" /\ pc'[Prefetcher] = "lookup"
        /\ UNCHANGED <<now, nextTick, step, cache>>
    BY <1>1, <1>8 DEF Prefetch, Start, TypeOK
  <2> QED
    BY <1>1, <2>1 DEF RefreshInv, TickerInv
<1>9. CASE Step(Prefetcher)
  <2>1. CASE Miss(Prefetcher) \/ Query(Prefetcher)
    BY <1>1, <1>6, <2>1 DEF Miss, Query, TypeOK
  <2>2. ~ QueryError(Prefetcher)
    BY DEF QueryError
  <2>3. CASE Hit(Prefetcher) \/ Store(Prefetcher)
    <3>1. /\ Advance(Prefetcher) /\ pc[Prefetcher] # "idle"
          /\ now' = now /\ tick' = tick
      BY <2>3 DEF Hit, Store, Answer
    <3>2. step[Prefetcher] = 1 => Known(IF nextTick = 0 THEN StartTime ELSE nextTick - 2 * TTL)
      <4> SUFFICES ASSUME step[Prefetcher] = 1
                   PROVE  Known(IF nextTick = 0 THEN StartTime ELSE nextTick - 2 * TTL)
        OBVIOUS
      <4>1. Key(Ask(Prefetcher)) = <<"summary", Everything, Unbounded>>
        BY DEF Key, Ask, Unfiltered
      <4>2. CASE Hit(Prefetcher)
        <5>1. PICK e \in cache : e.key = <<"summary", Everything, Unbounded>> /\ now - e.ts < TTL
          BY <4>1, <4>2 DEF Hit, Hits, Fresh
        <5>2. e \in cache' /\ e.ts \in Nat
          BY <4>2, <5>1 DEF Hit, TypeOK, Entry
        <5>3. nextTick # 0 => nextTick - 2 * TTL <= e.ts
          BY <1>1, <5>1, <5>2 DEF RefreshInv, TickerInv
        <5> QED
          BY <1>3, <5>1, <5>2, <5>3
      <4>3. CASE Store(Prefetcher)
        <5>1. cache' = Put(<<"summary", Everything, Unbounded>>, val[Prefetcher])
          BY <4>1, <4>3 DEF Store, Dropped
        <5> DEFINE new == [key |-> <<"summary", Everything, Unbounded>>,
                           rows |-> val[Prefetcher], ts |-> now]
        <5>2. new \in cache'
          BY <5>1 DEF Put
        <5>3. new.key = <<"summary", Everything, Unbounded>> /\ new.ts = now
          OBVIOUS
        <5> HIDE DEF new
        <5> QED
          BY <1>1, <1>3, <1>5, <5>2, <5>3
      <4> QED
        BY <2>3, <4>2, <4>3
    <3>3. nextTick = 0 => Known(StartTime)
      <4>1. CASE step[Prefetcher] = 1
        BY <3>2, <4>1
      <4>2. CASE step[Prefetcher] # 1
        BY <1>1, <1>3, <1>4, <4>2 DEF RefreshInv
      <4> QED
        BY <4>1, <4>2
    <3>4. nextTick # 0 /\ ~tick => Known(nextTick - 2 * TTL)
      BY <1>1, <1>4, <1>5, <3>2 DEF RefreshInv
    <3> QED
      BY <1>1, <1>3, <3>1, <3>3, <3>4, AdvanceRefreshes
  <2> QED
    BY <1>9, <2>1, <2>2, <2>3 DEF Step
<1> QED
  BY <1>6, <1>7, <1>8, <1>9, PrefetcherFrame

\* If nothing is evicted, refused or fails, the summary of the drop-down lists is there
\* and under two TTLs old whenever the prefetcher waits (SummaryRefreshed).
THEOREM SummaryKeptWarm ==
  ASSUME Faults \cap {"evict", "drop", "error"} = {} PROVE Spec => []SummaryRefreshed
<1>1. CASE 3 * MaxLatency <= TTL
  <2>1. Init => Deadlines /\ RefreshInv
    <3> SUFFICES ASSUME Init PROVE RefreshInv
      BY VisInit DEF VisInv
    <3>1. /\ nextTick = 0 /\ ~tick /\ now = StartTime /\ StartTime \in Nat /\ cache = {}
          /\ pc[Prefetcher] = "lookup" /\ step[Prefetcher] = 1 /\ began[Prefetcher] = now
      BY BoundAssumption DEF Init, Process
    <3>2. (step[Prefetcher] - 1) * MaxLatency = 0
      BY <3>1, LatencyAssumption
    <3> QED
      BY <3>1, <3>2 DEF RefreshInv, TickerInv
  <2>2. TypeOK /\ RefreshInv => SummaryRefreshed
    <3> SUFFICES ASSUME TypeOK, RefreshInv, pc[Prefetcher] = "idle", ~tick
                 PROVE  \E e \in cache : /\ e.key = <<"summary", Everything, Unbounded>>
                                         /\ now - e.ts < 2 * TTL
      BY DEF SummaryRefreshed
    <3>1. /\ now \in Nat /\ nextTick \in Nat /\ TTL \in Nat
          /\ nextTick # 0 /\ now < nextTick
          /\ Summarised(nextTick - 2 * TTL)
      BY TTLAssumption DEF TypeOK, RefreshInv, TickerInv
    <3>2. PICK e \in cache : /\ e.key = <<"summary", Everything, Unbounded>>
                             /\ nextTick - 2 * TTL <= e.ts
      BY <3>1 DEF Summarised
    <3>3. e.ts \in Nat
      BY DEF TypeOK, Entry
    <3> QED
      BY <3>1, <3>2, <3>3
  <2> QED
    BY <1>1, <2>1, <2>2, DeadlineStep, RefreshStep, TypeCorrect, PTL DEF Spec
<1>2. CASE ~ 3 * MaxLatency <= TTL
  <2>1. SummaryRefreshed
    BY <1>2 DEF SummaryRefreshed
  <2> QED
    BY <2>1, PTL
<1> QED
  BY <1>1, <1>2

=============================================================================
