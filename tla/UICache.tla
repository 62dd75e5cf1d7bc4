------------------------------ MODULE UICache ------------------------------
(***************************************************************************)
(* The dashboard's cache (service.go).  Every request of GET / renders     *)
(* three answers: the summary of its filter, the summary of no filter (for *)
(* the drop-down lists) and the page of its filter.  Each answer comes     *)
(* from a ristretto cache when it is there and younger than TTL, and from  *)
(* the database otherwise.  A goroutine started by New asks for the        *)
(* unfiltered summary and two default pages on every tick of a TTL ticker. *)
(* Requests and that goroutine interleave freely: nothing locks a key      *)
(* between the miss, the query and the Set.                                *)
(*                                                                         *)
(* An answer is abstracted to the set of rows its SELECT ran over.         *)
(***************************************************************************)
EXTENDS Naturals, FiniteSets

CONSTANTS
  Record,      \* telemetry reports that may be saved
  User,        \* requests of GET / in flight
  Prefetcher,  \* the goroutine of New
  Selection,   \* what a filter says besides To: From, Country, City, Service, Version
  Everything,  \* the selection of TelemetryFilters{}
  Last30,      \* From = thirty days ago and nothing else
  ThisMonth,   \* From = the first of the month and nothing else
  UserSelection, \* the selections users ask for
  Matching,    \* [Selection -> SUBSET Record], the reports a selection matches
  Unbounded,   \* the zero To, 0001-01-01T00:00:00Z in a query
  ExplicitTo,  \* values a user may give for the query parameter "to"
  TTL,         \* summaryCacheTTL
  RoundPeriod, \* RoundPeriod
  MaxLatency,  \* bound on one lookup, query and Set together (the environment's)
  LastSeen,    \* the instants reports give as their last_seen, past or future
  StartTime,   \* the clock when New is called
  MaxTime,     \* bound on the clock (model checking only)
  Faults       \* which of AllFaults may happen

AllFaults == {"evict", "drop", "error", "truncate"}

ASSUME ProcessAssumption   == Prefetcher \notin User
ASSUME SelectionAssumption == {Everything, Last30, ThisMonth} \subseteq Selection
ASSUME UserAssumption      == UserSelection \subseteq Selection
ASSUME MatchingAssumption  == Matching \in [Selection -> SUBSET Record]
ASSUME ToAssumption        == Unbounded \notin Nat /\ ExplicitTo \subseteq Nat \cup {Unbounded}
ASSUME TTLAssumption       == TTL \in Nat \ {0}
ASSUME RoundAssumption     == RoundPeriod \in Nat \ {0}
ASSUME LatencyAssumption   == MaxLatency \in Nat
ASSUME LastSeenAssumption  == LastSeen \subseteq Nat
ASSUME BoundAssumption     == {StartTime, MaxTime} \subseteq Nat
ASSUME FaultAssumption     == Faults \subseteq AllFaults

VARIABLES
  now,       \* the clock
  table,     \* committed rows of the telemetry table
  cache,     \* entries of the ristretto cache
  tick,      \* an undelivered tick in the ticker's channel (capacity 1)
  nextTick,  \* when the ticker fires next, 0 before it is created
  pc,        \* "idle", "lookup", "query" or "store"
  step,      \* which of its three answers the process is after
  want,      \* the process's variable `filters`
  since,     \* when the process's request arrived
  began,     \* when the process called getCachedOrFetch... for this answer
  val,       \* what the database returned and Set is about to store
  got        \* the answers of the user's current or last request

vars == <<now, table, cache, tick, nextTick, pc, step, want, since, began, val, got>>

Process == User \cup {Prefetcher}
Kind    == {"summary", "page"}
Filter  == [sel : Selection, to : Nat \cup {Unbounded}]
Row     == [id : Record, stamp : Nat, at : Nat]

----------------------------------------------------------------------------
(* Filters, answers and keys *)

Unfiltered == [sel |-> Everything, to |-> Unbounded]

RoundDown(t) == (t \div RoundPeriod) * RoundPeriod

\* Mutation of Round: down, and to twice the period.
RoundDownTwice(t) == (t \div (2 * RoundPeriod)) * (2 * RoundPeriod)

\* time.Round: to the nearest multiple of the period, halves up.
Round(t) == RoundDown(t + RoundPeriod \div 2)

\* The WHERE clause: the bounds are on the column "time", the report's own stamp.
Selects(f, row) ==
  /\ row.id \in Matching[f.sel]
  /\ f.to = Unbounded \/ row.stamp <= f.to

Rows(f) == {row \in table : Selects(f, row)}

\* Mutation of Results: a row that cannot be scanned is skipped.
SkippingResults(f) == SUBSET Rows(f)

\* An answer of the database: a snapshot.  rows.Err is not looked at after the
\* scan loop, so a result cut short by the connection is returned as if complete.
Results(f) ==
  {Rows(f)} \cup (IF "truncate" \in Faults THEN SUBSET Rows(f) ELSE {})

\* The call a process is making: ServeUI's three for a user, prefetch's for the other.
Ask(p) ==
  IF p = Prefetcher
  THEN [kind   |-> IF step[p] = 1 THEN "summary" ELSE "page",
        filter |-> IF step[p] = 1 THEN Unfiltered ELSE want[p]]
  ELSE [kind   |-> IF step[p] = 3 THEN "page" ELSE "summary",
        filter |-> IF step[p] = 2 THEN Unfiltered ELSE want[p]]

\* Mutation of Key: without the end date.
KeyWithoutTo(ask) == <<ask.kind, ask.filter.sel, Unbounded>>

Key(ask) == <<ask.kind, ask.filter.sel, ask.filter.to>>

\* Mutations of Fresh: one instant too long; for ever.
FreshAtExpiry(e) == now - e.ts <= TTL
FreshForEver(e) == TRUE

Fresh(e) == now - e.ts < TTL

\* Mutation of Hits: the age is not looked at.
HitsOfAnyAge(p) == {e \in cache : e.key = Key(Ask(p))}

Hits(p) == {e \in cache : e.key = Key(Ask(p)) /\ Fresh(e)}

----------------------------------------------------------------------------
(* Going from one answer to the next *)

\* prefetch reads the clock after the first answer and moves From after the second.
NextWant(p) ==
  IF p # Prefetcher THEN want[p]
  ELSE IF step[p] = 1 THEN [sel |-> Last30, to |-> Round(now)]
  ELSE [sel |-> ThisMonth, to |-> want[p].to]

Proceed(p) ==
  /\ step[p] < 3
  /\ pc'    = [pc EXCEPT ![p] = "lookup"]
  /\ step'  = [step EXCEPT ![p] = @ + 1]
  /\ want'  = [want EXCEPT ![p] = NextWant(p)]
  /\ began' = [began EXCEPT ![p] = now]
  /\ UNCHANGED nextTick

\* The call ends and its variables with it.
Return(p) ==
  /\ pc'    = [pc EXCEPT ![p] = "idle"]
  /\ step'  = [step EXCEPT ![p] = 1]
  /\ want'  = [want EXCEPT ![p] = Unfiltered]
  /\ began' = [began EXCEPT ![p] = 0]

\* The ticker is created when the first prefetch has ended.
Finish(p) ==
  /\ step[p] = 3
  /\ Return(p)
  /\ nextTick' = IF p = Prefetcher /\ nextTick = 0 THEN now + TTL ELSE nextTick

Advance(p) == Proceed(p) \/ Finish(p)

\* An answer reaches its caller; prefetch throws it away.
Answer(p, rows) ==
  /\ got' = IF p = Prefetcher THEN got
            ELSE [got EXCEPT ![p] = @ \cup {[kind   |-> Ask(p).kind,
                                            filter |-> Ask(p).filter,
                                            rows   |-> rows]}]
  /\ Advance(p)

----------------------------------------------------------------------------
(* Actions *)

Init ==
  /\ now = StartTime
  /\ table = {}
  /\ cache = {}
  /\ tick = FALSE
  /\ nextTick = 0
  /\ pc    = [p \in Process |-> IF p = Prefetcher THEN "lookup" ELSE "idle"]
  /\ step  = [p \in Process |-> 1]
  /\ want  = [p \in Process |-> Unfiltered]
  /\ since = [p \in Process |-> 0]
  /\ began = [p \in Process |-> IF p = Prefetcher THEN now ELSE 0]
  /\ val   = [p \in Process |-> {}]
  /\ got   = [p \in Process |-> {}]

\* A report of the homing clients commits.  Its stamp is the client's own last_seen,
\* which nobody compares with the clock.
Commit(r) ==
  /\ \A row \in table : row.id # r
  /\ \E stamp \in LastSeen :
       table' = table \cup {[id |-> r, stamp |-> stamp, at |-> now]}
  /\ UNCHANGED <<now, cache, tick, nextTick, pc, step, want, since, began, val, got>>

\* Time passes, but no answer takes longer than MaxLatency.  A tick that finds
\* the previous one undelivered is lost.
Elapse ==
  /\ now < MaxTime
  /\ \A p \in Process : pc[p] # "idle" => now < began[p] + MaxLatency
  /\ now' = now + 1
  /\ tick' = (tick \/ nextTick = now + 1)
  /\ nextTick' = IF nextTick = now + 1 THEN nextTick + TTL ELSE nextTick
  /\ UNCHANGED <<table, cache, pc, step, want, since, began, val, got>>

Start(p) ==
  /\ pc[p] = "idle"
  /\ pc'    = [pc EXCEPT ![p] = "lookup"]
  /\ since' = [since EXCEPT ![p] = now]
  /\ began' = [began EXCEPT ![p] = now]
  /\ got'   = [got EXCEPT ![p] = {}]
  /\ UNCHANGED <<now, table, cache, nextTick, step, val>>

\* GET / arrives.  An absent "to" becomes the rounded clock; one that is given may
\* be the zero time and, with a zero "from", ask for TelemetryFilters{} itself.
Request(u, sel, to) ==
  /\ to \in ExplicitTo \cup {Round(now)}
  /\ Start(u)
  /\ want' = [want EXCEPT ![u] = [sel |-> sel, to |-> to]]
  /\ UNCHANGED tick

\* Mutation of Prefetch: nothing is done, nor the tick received, while an entry is fresh.
PrefetchWhenCold ==
  /\ tick
  /\ \A e \in cache : ~Fresh(e)
  /\ Start(Prefetcher)
  /\ tick' = FALSE
  /\ UNCHANGED want

Prefetch ==
  /\ tick
  /\ Start(Prefetcher)
  /\ tick' = FALSE
  /\ UNCHANGED want

\* cache.Get finds an entry younger than the TTL.
Hit(p) ==
  /\ pc[p] = "lookup"
  /\ \E e \in Hits(p) : Answer(p, e.rows)
  /\ UNCHANGED <<now, table, cache, tick, since, val>>

Miss(p) ==
  /\ pc[p] = "lookup"
  /\ Hits(p) = {}
  /\ pc' = [pc EXCEPT ![p] = "query"]
  /\ UNCHANGED <<now, table, cache, tick, nextTick, step, want, since, began, val, got>>

\* The database answers.
Query(p) ==
  /\ pc[p] = "query"
  /\ \E rows \in Results(Ask(p).filter) : val' = [val EXCEPT ![p] = rows]
  /\ pc' = [pc EXCEPT ![p] = "store"]
  /\ UNCHANGED <<now, table, cache, tick, nextTick, step, want, since, began, got>>

\* Mutation of Abandon: a failed call is made again.
Retry(u) ==
  /\ pc' = [pc EXCEPT ![u] = "lookup"]
  /\ UNCHANGED <<step, want, began, nextTick, got>>

\* The query fails: ServeUI gives up, prefetch ignores the error and goes on.
Abandon(u) ==
  /\ Return(u)
  /\ got' = [got EXCEPT ![u] = {}]
  /\ UNCHANGED nextTick

QueryError(p) ==
  /\ "error" \in Faults
  /\ pc[p] = "query"
  /\ \/ p # Prefetcher /\ Abandon(p)
     \/ p = Prefetcher /\ Advance(p) /\ UNCHANGED got
  /\ UNCHANGED <<now, table, cache, tick, since, val>>

\* Mutation of Put: the old value of the key stays.
PutBeside(k, rows) == cache \cup {[key |-> k, rows |-> rows, ts |-> now]}

\* cache.Set and Wait.  Setting a key that is there replaces its value at once;
\* a new key may be refused or lost on the way through the buffers.
Put(k, rows) ==
  {e \in cache : e.key # k} \cup {[key |-> k, rows |-> rows, ts |-> now]}

Dropped(k) ==
  /\ "drop" \in Faults
  /\ \A e \in cache : e.key # k
  /\ UNCHANGED cache

Store(p) ==
  /\ pc[p] = "store"
  /\ \/ cache' = Put(Key(Ask(p)), val[p])
     \/ Dropped(Key(Ask(p)))
  /\ Answer(p, val[p])
  /\ val' = [val EXCEPT ![p] = {}]
  /\ UNCHANGED <<now, table, tick, since>>

Evict(e) ==
  /\ "evict" \in Faults
  /\ cache' = cache \ {e}
  /\ UNCHANGED <<now, table, tick, nextTick, pc, step, want, since, began, val, got>>

Step(p) == Hit(p) \/ Miss(p) \/ Query(p) \/ QueryError(p) \/ Store(p)

Next ==
  \/ Elapse
  \/ Prefetch
  \/ \E r \in Record : Commit(r)
  \/ \E u \in User, sel \in UserSelection : \E to \in ExplicitTo \cup {Round(now)} :
       Request(u, sel, to)
  \/ \E p \in Process : Step(p)
  \/ \E e \in cache : Evict(e)

\* The Go scheduler runs every goroutine and the database answers or fails.
Fairness ==
  /\ \A p \in Process : WF_vars(Step(p))
  /\ WF_vars(Prefetch)

Spec == Init /\ [][Next]_vars
FairSpec == Spec /\ Fairness
----------------------------------------------------------------------------
(* Properties *)

Part  == [kind : Kind, filter : Filter, rows : SUBSET table]
Entry == [key : Kind \X Selection \X (Nat \cup {Unbounded}), rows : SUBSET table, ts : Nat]

\* Every variable has its type; one entry per key; nothing is dated in the future.
TypeOK ==
  /\ now \in Nat
  /\ table \subseteq Row
  /\ cache \subseteq Entry
  /\ \A e \in cache : e.ts <= now
  /\ \A e1, e2 \in cache : e1.key = e2.key => e1 = e2
  /\ tick \in BOOLEAN
  /\ nextTick \in Nat
  /\ pc \in [Process -> {"idle", "lookup", "query", "store"}]
  /\ step \in [Process -> 1 .. 3]
  /\ want \in [Process -> Filter]
  /\ since \in [Process -> 0 .. now]
  /\ began \in [Process -> 0 .. now]
  /\ val \in [Process -> SUBSET table]
  /\ got \in [Process -> SUBSET Part]

\* The answers of a page are never too old: whatever was committed a TTL and one
\* slow query before the request arrived is in every answer that selects it.  An
\* entry is dated when it is stored, not when it was read, an old read may
\* overwrite a newer one, and two users may fill the same key: MaxLatency pays
\* for all of that, and nothing else may (service.go, getCachedOrFetch...).
Visibility ==
  \A u \in User : \A part \in got[u] : \A row \in table :
    /\ Selects(part.filter, row)
    /\ row.at + TTL + MaxLatency <= since[u]
    => row \in part.rows

\* The same for a request that names no end date: rounding the clock hides a row
\* until half a RoundPeriod after its stamp, no longer.  A client's clock that is
\* ahead counts: its row is missing until the server's has caught up.
DefaultVisibility ==
  \A u \in User : \A part \in got[u] : \A row \in table :
    /\ part.filter.to = Round(since[u])
    /\ row.id \in Matching[part.filter.sel]
    /\ row.at + TTL + MaxLatency <= since[u]
    /\ row.stamp + RoundPeriod \div 2 <= since[u]
    => row \in part.rows

\* An answer holds committed rows of its own filter and no other's: entries of
\* two filters, or of a summary and a page, never mix (generateCacheKey).
NoForeignRows ==
  \A u \in User : \A part \in got[u] : part.rows \subseteq Rows(part.filter)

\* rows has everything that filter f selects and that committed before one of its rows.
Snapshot(rows, f) ==
  \A shown \in rows, row \in table :
    Selects(f, row) /\ row.at < shown.at => row \in rows

\* RetrieveAll "retrieves all telemetry events" (telemetry.go:65): an answer that
\* shows a row shows every row of its filter committed before that row.
AnswersAreSnapshots ==
  \A u \in User : \A part \in got[u] : Snapshot(part.rows, part.filter)

\* With nothing evicted, refused or failing, and rounds that take at most a TTL,
\* the summary of the drop-down lists is there and under two TTLs old whenever the
\* prefetching goroutine waits for its ticker.  Not under one: it looks the summary
\* up like a user does, finds its own last entry a little younger than the ticker's
\* period, and so refreshes it on every other tick only.
SummaryRefreshed ==
  /\ 3 * MaxLatency <= TTL
  /\ pc[Prefetcher] = "idle" /\ ~tick
  => \E e \in cache : /\ e.key = <<"summary", Everything, Unbounded>>
                      /\ now - e.ts < 2 * TTL

\* Every request of the dashboard is answered, with a page or with an error.
RequestsEnd == \A u \in User : pc[u] # "idle" ~> pc[u] = "idle"

\* No failure of a prefetch stops the next one: every tick is taken.
TicksTaken == tick ~> ~tick

----------------------------------------------------------------------------
(* What the dashboard promises *)

\* The filters of the requests under way.
Wants == [u \in User |-> IF pc[u] = "idle" THEN {} ELSE {want[u]}]

\* A page is seen when it is complete.
Page == [u \in User |-> IF pc[u] = "idle" THEN got[u] ELSE {}]

Stale == INSTANCE StaleView WITH
  Whole     <- Unfiltered,
  Staleness <- TTL + MaxLatency,
  want      <- Wants,
  since     <- [u \in User |-> since[u]],
  page      <- Page

\* For its users the cache is not there: requests that interleave with the prefetcher's
\* on one cache, and fail or find entries evicted in any of three steps, look like single
\* steps that show three views of the table, at most a TTL and one slow query old
\* (service.ServeUI).
ImplementsStaleView == Stale!Spec

----------------------------------------------------------------------------
(* The invariants behind the properties *)

FilterOf(key) == [sel |-> key[2], to |-> key[3]]

\* rows has everything that filter f selects and that committed before t.
Complete(rows, f, t) ==
  \A row \in table : Selects(f, row) /\ row.at < t => row \in rows

\* Cached and freshly read rows belong to the filter they were asked for.
EntriesOwn == \A e \in cache : e.rows \subseteq Rows(FilterOf(e.key))
ReadsOwn   == \A p \in Process : pc[p] = "store" => val[p] \subseteq Rows(Ask(p).filter)

OwnInv == EntriesOwn /\ ReadsOwn /\ NoForeignRows

\* Rows have committed before the present, whatever they are stamped.
Dated == \A row \in table : row.at <= now

\* An answer under way was asked for after the request and MaxLatency ago at most.
Deadlines ==
  \A p \in Process : pc[p] # "idle" =>
    /\ p \in User => since[p] <= began[p]
    /\ now <= began[p] + MaxLatency

\* What was read is complete up to the time it was asked for, and what is cached
\* up to MaxLatency before its own date.
ReadsComplete ==
  \A p \in Process : pc[p] = "store" => Complete(val[p], Ask(p).filter, began[p])
EntriesComplete ==
  \A e \in cache : Complete(e.rows, FilterOf(e.key), e.ts - MaxLatency)

VisInv == Dated /\ Deadlines /\ ReadsComplete /\ EntriesComplete /\ Visibility

\* Cached and freshly read rows are as of one instant.
ReadsSnapshot   == \A p \in Process : pc[p] = "store" => Snapshot(val[p], Ask(p).filter)
EntriesSnapshot == \A e \in cache : Snapshot(e.rows, FilterOf(e.key))

SnapInv == ReadsSnapshot /\ EntriesSnapshot /\ AnswersAreSnapshots

\* What a request has so far is what its steps asked for, in order.
Partial(u) ==
  /\ step[u] = 1 => got[u] = {}
  /\ step[u] = 2 => \E own \in SUBSET table :
       got[u] = {[kind |-> "summary", filter |-> want[u], rows |-> own]}
  /\ step[u] = 3 => \E own \in SUBSET table, all \in SUBSET table :
       got[u] = {[kind |-> "summary", filter |-> want[u], rows |-> own],
                 [kind |-> "summary", filter |-> Unfiltered, rows |-> all]}

PageInv ==
  \A u \in User : IF pc[u] = "idle" THEN step[u] = 1 /\ want[u] = Unfiltered ELSE Partial(u)

\* Every answer is one that the abstract dashboard may give.
ViewsInv ==
  \A u \in User : \A part \in got[u] : part.rows \in Stale!Views(part.filter, since[u])

\* There is a summary of everything stored at t or later.
Summarised(t) ==
  \E e \in cache : e.key = <<"summary", Everything, Unbounded>> /\ t <= e.ts

\* The ticker fires within a TTL.  Before it is created, during the first prefetch, all
\* of the cache is new.
TickerInv ==
  IF nextTick = 0
  THEN /\ ~tick /\ pc[Prefetcher] # "idle" /\ StartTime <= now
       /\ began[Prefetcher] <= StartTime + (step[Prefetcher] - 1) * MaxLatency
       /\ \A e \in cache : StartTime <= e.ts
  ELSE now < nextTick /\ nextTick <= now + TTL

\* A prefetch has a summary two TTLs younger than the next tick as soon as it has taken
\* its first step.
RefreshInv ==
  /\ TickerInv
  /\ pc[Prefetcher] = "idle" => step[Prefetcher] = 1
  /\ step[Prefetcher] > 1 /\ nextTick = 0 => Summarised(StartTime)
  /\ (step[Prefetcher] > 1 \/ pc[Prefetcher] = "idle") /\ nextTick # 0 /\ ~tick
       => Summarised(nextTick - 2 * TTL)

=============================================================================
