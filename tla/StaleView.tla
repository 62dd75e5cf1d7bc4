----------------------------- MODULE StaleView -----------------------------
(***************************************************************************)
(* What the dashboard promises: a page shows three views of the table, of  *)
(* its own filter, of everything and of its own filter again, each as the  *)
(* table was at some instant, at most Staleness before the request.  Or    *)
(* the request is refused.  There is no cache.                             *)
(***************************************************************************)
EXTENDS Naturals

CONSTANTS
  User,           \* requests of the dashboard
  Whole,          \* the filter that selects everything
  Staleness,      \* how old a view may be
  Selects(_, _)   \* whether a filter selects a row

VARIABLES
  now,    \* the clock
  table,  \* rows, each with the time it was saved ("at")
  want,   \* the filter of each request under way: one, or none
  since,  \* when the current or last request arrived
  page    \* what was answered: no view while there is no answer, or a refusal

vars == <<now, table, want, since, page>>

Init ==
  /\ now \in Nat
  /\ table = {}
  /\ want = [u \in User |-> {}]
  /\ since = [u \in User |-> 0]
  /\ page = [u \in User |-> {}]

\* Rows of the filter as of one instant: all that were saved before one of them, and
\* all that are old enough.
Recent(rows, f, t) ==
  /\ \A row \in rows : Selects(f, row)
  /\ \A row \in table :
       /\ Selects(f, row)
       /\ row.at + Staleness <= t \/ \E shown \in rows : row.at < shown.at
       => row \in rows

Views(f, t) == {rows \in SUBSET table : Recent(rows, f, t)}

Elapse == now' = now + 1 /\ UNCHANGED <<table, want, since, page>>

Save ==
  /\ \E row \in table' : row.at = now /\ table' = table \cup {row}
  /\ UNCHANGED <<now, want, since, page>>

Request(u) ==
  /\ want[u] = {}
  /\ \E f \in want'[u] : want' = [want EXCEPT ![u] = {f}]
  /\ since' = [since EXCEPT ![u] = now]
  /\ page' = [page EXCEPT ![u] = {}]
  /\ UNCHANGED <<now, table>>

Serve(u) ==
  /\ want' = [want EXCEPT ![u] = {}]
  /\ \E f \in want[u] :
       \E own \in Views(f, since[u]), listed \in Views(f, since[u]),
          all \in Views(Whole, since[u]) :
         page' = [page EXCEPT ![u] =
           {[kind |-> "summary", filter |-> f,     rows |-> own],
            [kind |-> "summary", filter |-> Whole, rows |-> all],
            [kind |-> "page",    filter |-> f,     rows |-> listed]}]
  /\ UNCHANGED <<now, table, since>>

Refuse(u) ==
  /\ want[u] # {}
  /\ want' = [want EXCEPT ![u] = {}]
  /\ UNCHANGED <<now, table, since, page>>

Next == Elapse \/ Save \/ \E u \in User : Request(u) \/ Serve(u) \/ Refuse(u)

Spec == Init /\ [][Next]_vars
=============================================================================
