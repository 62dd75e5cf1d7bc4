------------------------------ MODULE Listing ------------------------------
(***************************************************************************)
(* Listing deployments: GET /telemetry page by page, while reports are     *)
(* saved, the retention policy drops old ones and the default dates move   *)
(* on with the clock.  The API keeps no cursor: each page is a query of    *)
(* its own, LIMIT rows at an OFFSET into the addresses' latest reports,    *)
(* newest first (timescale.RetrieveAll).  And the summary of the same      *)
(* filter, GET /telemetry/summary (timescale.RetrieveSummary).             *)
(*                                                                         *)
(* "time" is the table's primary key, so the order of the list is total    *)
(* and a row's position is the number of addresses with a newer row.       *)
(***************************************************************************)
EXTENDS Naturals, FiniteSets, FiniteSetsExt

CONSTANTS
  Address,     \* ip_address
  Country,     \* the country column: a filter that a row passes or not
  AnyCountry,  \* a query without a country
  Absent,      \* a query without a date
  Unbounded,   \* the zero time, which a query may give as a date
  Limit,       \* the reader's page size
  Span,        \* thirty days, the default length of the window
  RoundPeriod, \* RoundPeriod
  Retention,   \* the retention policy's interval
  MaxStamp,    \* bound on what clients claim as their time (model checking only)
  MaxTime,     \* bound on the clock (model checking only)
  Explicit     \* dates the reader may give, in one model

ASSUME AddressAssumption == IsFiniteSet(Address)
ASSUME CountryAssumption == IsFiniteSet(Country) /\ AnyCountry \notin Country
ASSUME DateAssumption    ==
  /\ Unbounded \notin Nat /\ Absent \notin Nat \cup {Unbounded}
  /\ Explicit \subseteq Nat \cup {Unbounded}
ASSUME LimitAssumption   == Limit \in 1 .. 100
ASSUME SpanAssumption    == Span \in Nat /\ Retention \in Nat
ASSUME RoundAssumption   == RoundPeriod \in Nat \ {0} /\ Span % RoundPeriod = 0
ASSUME BoundAssumption   == MaxStamp \in Nat /\ MaxTime \in Nat

VARIABLES
  now,    \* the clock
  table,  \* the rows of the telemetry table
  pc,     \* the reader: "idle", "asking", "reading", "ended" or "refused"
  query,  \* what its requests say: from, to and country
  window, \* the dates of the request under way, as decodeRetrieve fills them in
  offset, \* its next offset
  last,   \* the rows its last page was taken from
  kept,   \* the rows that were listed, on whatever page, at every request so far
  came,   \* the rows that came between two of its pages
  seen,   \* the addresses it was shown
  repeats, \* how many times it was shown one again
  cut     \* a page was cut short on its way

vars == <<now, table, pc, query, window, offset, last, kept, came, seen, repeats, cut>>
walk == <<last, kept, came, seen, repeats, cut>>

Row   == [ip : Address, time : Nat, country : Country]
Date  == Nat \cup {Unbounded}
Query == [from : Date \cup {Absent}, to : Date \cup {Absent}, country : Country \cup {AnyCountry}]

----------------------------------------------------------------------------
(* Queries *)

\* time.Round, halves up.
Round(t) == ((t + RoundPeriod \div 2) \div RoundPeriod) * RoundPeriod

\* The dates left out: thirty days up to the rounded clock.
Window(q) ==
  [from |-> IF q.from # Absent THEN q.from
            ELSE IF Round(now) < Span THEN 0 ELSE Round(now) - Span,
   to   |-> IF q.to # Absent THEN q.to ELSE Round(now)]

\* listTelemetryReq.validate
Valid(w) == Unbounded \notin {w.from, w.to} => w.from <= w.to

\* The WHERE clause.
View ==
  {row \in table : /\ window.from = Unbounded \/ window.from <= row.time
                   /\ window.to = Unbounded \/ row.time <= window.to
                   /\ query.country \in {AnyCountry, row.country}}

\* Mutations of Latest: every row; the oldest of each.
EveryRow(view) == view
Oldest(view) ==
  {row \in view : \A r \in view : r.ip = row.ip => r.time >= row.time}

\* DISTINCT ON (ip_address) ... ORDER BY ip_address, time DESC
Latest(view) ==
  {row \in view : \A r \in view : r.ip = row.ip => r.time <= row.time}

\* The addresses with a newer row come before a row, and make up its position.
Before(view, row) == {r.ip : r \in {r \in view : r.time > row.time}}
Position(view, row) == Cardinality(Before(view, row))

\* ORDER BY time DESC LIMIT :limit OFFSET :offset
Page(view) ==
  {row \in Latest(view) : Position(view, row) \in offset .. offset + Limit - 1}

\* What of a page arrives: all of it, or what came before the row at which the
\* connection broke.  rows.Err is not looked at, so the caller cannot tell.
Arriving(page) ==
  {page} \cup {{r \in page : r.time > row.time} : row \in page}

Addresses(view) == {row.ip : row \in view}

\* Mutation of Deployments: COUNT(*).
Reports(view, c) == Cardinality({row \in view : row.country = c})

\* COUNT(DISTINCT ip_address) of one country's group, and their sum.
Deployments(view, c) == Cardinality(Addresses({row \in view : row.country = c}))
TotalDeployments(view) == MapThenSumSet(LAMBDA c : Deployments(view, c), Country)

----------------------------------------------------------------------------
(* The table *)

Init ==
  /\ now = 0
  /\ table = {}
  /\ pc = "idle"
  /\ query = [from |-> Absent, to |-> Absent, country |-> AnyCountry]
  /\ window = [from |-> 0, to |-> 0]
  /\ offset = 0
  /\ last = {} /\ kept = {} /\ came = {} /\ seen = {} /\ repeats = 0 /\ cut = FALSE

\* A report is saved, under whatever time its client claims but no other row has.
\* It may be late or early, but not late by as much as rows are kept.
Report(ip, t, c) ==
  /\ now <= t + Retention
  /\ \A row \in table : row.time # t
  /\ table' = table \cup {[ip |-> ip, time |-> t, country |-> c]}
  /\ UNCHANGED <<now, pc, query, window, offset, walk>>

\* The retention policy drops chunks that are old enough.
Purge(end) ==
  /\ end + Retention <= now
  /\ table' = {row \in table : row.time >= end}
  /\ UNCHANGED <<now, pc, query, window, offset, walk>>

Elapse ==
  /\ now < MaxTime
  /\ now' = now + 1
  /\ UNCHANGED <<table, pc, query, window, offset, walk>>

----------------------------------------------------------------------------
(* The reader *)

\* Someone starts to read, with dates and a country or without.
Start(q) ==
  /\ pc = "idle"
  /\ pc' = "asking"
  /\ query' = q
  /\ UNCHANGED <<now, table, window, offset, walk>>

\* Mutation of Ask: the dates are not validated.
AskAnything ==
  /\ pc = "asking"
  /\ window' = Window(query)
  /\ pc' = "reading"
  /\ UNCHANGED <<now, table, query, offset, walk>>

\* A request is decoded and validated.
Ask ==
  /\ pc = "asking"
  /\ \/ /\ Valid(Window(query))
        /\ window' = Window(query)
        /\ pc' = "reading"
     \/ /\ ~Valid(Window(query))
        /\ pc' = "refused"
        /\ UNCHANGED window
  /\ UNCHANGED <<now, table, query, offset, walk>>

\* The query fails, and the reader asks again.
Fail ==
  /\ pc = "reading"
  /\ pc' = "asking"
  /\ UNCHANGED <<now, table, query, window, offset, walk>>

\* A page arrives.  The answer's Total is the page's own length and says nothing of
\* what is left, so the reader goes on until a page is not full, as one is that was
\* cut short.
Read ==
  /\ pc = "reading"
  /\ \E page \in Arriving(Page(View)) :
       /\ seen' = seen \cup Addresses(page)
       /\ repeats' = repeats + Cardinality(Addresses(page) \cap seen)
       /\ cut' = (page # Page(View))
       /\ pc' = IF Cardinality(page) = Limit THEN "asking" ELSE "ended"
  /\ kept' = IF offset = 0 THEN Latest(View) ELSE kept \cap Latest(View)
  /\ came' = IF offset = 0 THEN {} ELSE came \cup (View \ last)
  /\ last' = View
  /\ offset' = offset + Limit
  /\ UNCHANGED <<now, table, query, window>>

Queries ==
  [from : Explicit \cup {Absent}, to : Explicit \cup {Absent},
   country : Country \cup {AnyCountry}]

Next ==
  \/ \E ip \in Address, t \in 0 .. MaxStamp, c \in Country : Report(ip, t, c)
  \/ \E end \in 0 .. now : Purge(end)
  \/ Elapse
  \/ \E q \in Queries : Start(q)
  \/ Ask \/ Fail \/ Read

Spec == Init /\ [][Next]_vars

----------------------------------------------------------------------------
(* Properties *)

\* Every variable has its type; no two rows share a time; dates are in order.
TypeOK ==
  /\ now \in Nat
  /\ table \subseteq Row
  /\ \A r1, r2 \in table : r1.time = r2.time => r1 = r2
  /\ pc \in {"idle", "asking", "reading", "ended", "refused"}
  /\ query \in Query
  /\ window \in [from : Date, to : Date] /\ Valid(window)
  /\ offset \in Nat /\ repeats \in Nat
  /\ last \subseteq Row /\ kept \subseteq Row /\ came \subseteq Row
  /\ seen \subseteq Address /\ cut \in BOOLEAN

\* A reader who gets to the end misses an address only if it moved meanwhile: one
\* that was listed with the same report at every request was shown.  Unless a page
\* was cut short, which looks like the last one (timescale.go:91-103).  Pages are
\* queries of their own, and what is saved, dropped or comes within the default
\* dates between two of them may push an address down the list but not up past
\* the reader's offset, unless it is its own report that comes.
WalkComplete == pc = "ended" /\ ~cut => Addresses(kept) \subseteq seen

\* An address is shown twice only because something came in between: a reader is
\* shown at most one repetition for each row that came while it read.
RepeatsPaid == repeats <= Cardinality(came)

\* The summary's total is the number of addresses exactly if no address has reports
\* from two countries; otherwise an address counts once for each (timescale.go:187).
TotalCounts ==
  LET view == View IN
    TotalDeployments(view) = Cardinality(Addresses(view))
      <=> \A r1, r2 \in view : r1.ip = r2.ip => r1.country = r2.country

----------------------------------------------------------------------------
(* The invariants behind WalkComplete and RepeatsPaid *)

\* A page cut short is not full, and is the reader's last.
CutInv == cut => pc = "ended"

\* What is still in its place has been shown or is yet to come.
InPlace ==
  offset > 0 /\ ~cut => \A row \in kept : row.ip \in seen \/ Position(last, row) >= offset

\* The reader's last rows are within its dates, which only move on.
DatesInv ==
  /\ pc = "idle" => offset = 0
  /\ offset = 0 => last = {} /\ kept = {}
  /\ \A row \in last : /\ window.to = Unbounded \/ row.time <= window.to
                       /\ query.country \in {AnyCountry, row.country}
  /\ offset > 0 \/ pc = "reading" =>
       IF query.to = Absent THEN window.to \in Nat /\ window.to <= Round(now)
       ELSE window.to = query.to

\* Rows leave the table oldest first and do not come back.
GoneInv ==
  \A row \in last \ table :
    /\ row.time + Retention < now
    /\ \A r \in table : row.time < r.time

WalkInv == DatesInv /\ GoneInv /\ CutInv /\ kept \subseteq Latest(last) /\ InPlace

\* The pages so far were full: what they showed is new or repeated.
CountInv == pc # "ended" => repeats + Cardinality(seen) = offset

\* An address is listed with a row that came while reading, or never moved.
CameInv ==
  /\ IsFiniteSet(came)
  /\ offset > 0 => Latest(last) \subseteq came \cup kept

PaidInv == CountInv /\ CameInv /\ RepeatsPaid
=============================================================================
