-------------------------------- MODULE Api --------------------------------
(***************************************************************************)
(* The HTTP API: every request is decoded, validated, handed to the        *)
(* service and answered, or refused on the way with a status of its own.   *)
(* A query's parameters become the filter that the cache keys are made of, *)
(* so the API decides, with CacheKey, which requests share an answer.      *)
(* Requests have nothing in common but the service (whose saves SaveTx and *)
(* whose cache UICache interleaves): they come one after the other here.   *)
(***************************************************************************)
EXTENDS CacheKey

CONSTANTS
  Absent, Repeated, Garbled,  \* a parameter not given (or an empty date), given twice, or unreadable
  Query,                      \* the queries asked: functions from Param
  Format,                     \* [instants -> Stamp], the printed form of a date
  DefaultFrom, DefaultTo      \* the dates of a query that gives none

Texts == {"country", "city", "version", "service"}
Dates == {"from", "to"}
Param == {"offset", "limit"} \cup Dates \cup Texts

ASSUME QueryAssumption ==
  \A q \in Query :
    /\ DOMAIN q = Param
    /\ \A p \in Dates : q[p] \in DOMAIN Format \cup {Absent, Repeated, Garbled}
    /\ \A p \in Texts : q[p] \in Text \cup {Absent, Repeated}
ASSUME DefaultAssumption == {DefaultFrom, DefaultTo} \subseteq DOMAIN Format /\ <<>> \in Text
ASSUME AbsentAssumption  == Absent \notin {Repeated, Garbled}
ASSUME FormatAssumption ==
  /\ \A d \in DOMAIN Format : Format[d] \in Stamp
  /\ \A d, e \in DOMAIN Format : Format[d] = Format[e] => d = e

\* What is posted: of another content type, not JSON, lacking a field, or a report.
Body  == {"text", "malformed", "incomplete", "complete"}
Route == {"save", "retrieve", "summary", "ui"}
Error == {"none", "query", "date", "type", "malformed", "limit", "range", "service"}

VARIABLES
  pc,      \* "idle", "validate", "call", "respond" or "refuse"
  route,   \* the request's, or the last one's, with
  query,   \* its query, and
  body,    \* its body
  error,   \* why it is refused
  called,  \* it got to the service
  status,  \* of the answer, 0 before it is given
  meant    \* what the query asked for whose answer is stored (filled)

apiVars == <<pc, route, query, body, error, called, status, meant, vars>>

Defaults ==
  [p \in Dates \cup Texts |->
     CASE p = "from" -> DefaultFrom [] p = "to" -> DefaultTo [] OTHER -> <<>>]

\* What a query asks for: what it says or the default.
Meaning(q) == [p \in Dates \cup Texts |-> IF q[p] = Absent THEN Defaults[p] ELSE q[p]]

Unset == [p \in Param |-> Absent]

----------------------------------------------------------------------------
(* Decoding *)

ReadUintFails(v) == v \in {Repeated, Garbled}
ReadStringFails(v) == v = Repeated

\* The date strings are read before they are parsed, and the texts after that.
DecodeError(q) ==
  IF \/ \E p \in {"offset", "limit"} : ReadUintFails(q[p])
     \/ \E p \in Dates : ReadStringFails(q[p])
  THEN "query"
  ELSE IF \E p \in Dates : q[p] = Garbled THEN "date"
  ELSE IF \E p \in Texts : ReadStringFails(q[p]) THEN "query"
  ELSE "none"

\* Mutation of Decoded: the version is forgotten.
DecodedWithoutVersion(q) ==
  LET m == Meaning(q) IN
  [country |-> m["country"], city |-> m["city"], service |-> m["service"],
   version |-> <<>>, from |-> Format[m["from"]], to |-> Format[m["to"]]]

\* The filter of a query.
Decoded(q) ==
  LET m == Meaning(q) IN
  [country |-> m["country"], city |-> m["city"], service |-> m["service"],
   version |-> m["version"], from |-> Format[m["from"]], to |-> Format[m["to"]]]

DecodeSaveError(b) ==
  CASE b = "text" -> "type" [] b = "malformed" -> "malformed" [] OTHER -> "none"

Decide(err, next) ==
  /\ error' = err
  /\ pc' = IF err = "none" THEN next ELSE "refuse"

ApiInit ==
  /\ pc = "idle" /\ route = "ui" /\ query = Unset /\ body = "text"
  /\ error = "none" /\ called = FALSE /\ status = 0
  /\ meant = Meaning(Unset) /\ filled = Decoded(Unset) /\ asked = filled

ReceiveReport(b) ==
  /\ pc = "idle"
  /\ route' = "save" /\ body' = b /\ query' = Unset
  /\ Decide(DecodeSaveError(b), "validate")
  /\ called' = FALSE /\ status' = 0
  /\ UNCHANGED <<meant, vars>>

ReceiveQuery(r, q) ==
  /\ pc = "idle"
  /\ route' = r /\ query' = q /\ body' = "text"
  /\ Decide(DecodeError(q), "validate")
  /\ asked' = IF DecodeError(q) = "none" THEN Decoded(q) ELSE asked
  /\ called' = FALSE /\ status' = 0
  /\ UNCHANGED <<meant, filled>>

----------------------------------------------------------------------------
(* Validating *)

Limit(q) == IF q["limit"] = Absent THEN 10 ELSE q["limit"]

\* A date of zero is not compared.
Inverted(q) ==
  LET m == Meaning(q) IN m["from"] > 0 /\ m["to"] > 0 /\ m["to"] < m["from"]

ValidateQuery ==
  /\ pc = "validate" /\ route # "save"
  /\ Decide(IF Limit(query) \notin 1 .. 100 THEN "limit"
            ELSE IF Inverted(query) THEN "range" ELSE "none", "call")
  /\ UNCHANGED <<route, query, body, called, status, meant, vars>>

ValidateReport ==
  /\ pc = "validate" /\ route = "save"
  /\ Decide(IF body = "incomplete" THEN "malformed" ELSE "none", "call")
  /\ UNCHANGED <<route, query, body, called, status, meant, vars>>

----------------------------------------------------------------------------
(* The service and the answer *)

\* The endpoint calls the service, which may fail; ServeUI stores an answer under
\* its key unless there is one.
Call ==
  /\ pc = "call"
  /\ called' = TRUE
  /\ \E err \in {"none", "service"} : Decide(err, "respond")
  /\ IF route = "ui" /\ error' = "none" /\ KeyText(filled) # KeyText(asked)
     THEN filled' = asked /\ meant' = Meaning(query)
     ELSE UNCHANGED <<filled, meant>>
  /\ UNCHANGED <<route, query, body, status, asked>>

\* A page that is shown is answered like a report that is stored.
StatusOf(r) == IF r \in {"save", "ui"} THEN 201 ELSE 200

Answer(code) ==
  /\ status' = code
  /\ pc' = "idle"
  /\ UNCHANGED <<route, query, body, error, called, meant, vars>>

Respond == pc = "respond" /\ Answer(StatusOf(route))

\* Mutation of StatusOfError: an unknown error is the caller's.
StatusOfErrorBadRequest(err) == IF err = "type" THEN 415 ELSE 400

\* Mutation of StatusOfError: the error of an invalid event is recognised.
StatusOfErrorForbidden(err) ==
  CASE err \in {"query", "malformed", "limit"} -> 400
    [] err = "type" -> 415
    [] err = "service" -> 403
    [] OTHER -> 500

\* encodeError does not know the date errors; an invalid event reaches it as the text
\* of another error (timescale.go:133), so it is never answered as forbidden.
StatusOfError(err) ==
  CASE err \in {"query", "malformed", "limit"} -> 400
    [] err = "type" -> 415
    [] OTHER -> 500

Refuse == pc = "refuse" /\ Answer(StatusOfError(error))

Receive ==
  \/ \E b \in Body : ReceiveReport(b)
  \/ \E r \in Route \ {"save"}, q \in Query : ReceiveQuery(r, q)

ApiNext == Receive \/ ValidateQuery \/ ValidateReport \/ Call \/ Respond \/ Refuse

ApiSpec == ApiInit /\ [][ApiNext]_apiVars

----------------------------------------------------------------------------
(* Properties *)

\* Every variable has its type; 403 is not among the statuses (encodeError).
TypeOK ==
  /\ pc \in {"idle", "validate", "call", "respond", "refuse"}
  /\ route \in Route /\ query \in Query \cup {Unset} /\ body \in Body
  /\ error \in Error /\ called \in BOOLEAN
  /\ status \in {0, 200, 201, 400, 415, 500}
  /\ filled \in Filter /\ asked \in Filter

\* A stored answer serves another request only if both ask for the same, whatever
\* they say and leave out (decodeRetrieve, generateCacheKey).
SharedAnswersAgree ==
  pc = "call" /\ route = "ui" /\ KeyText(filled) = KeyText(asked) => Meaning(query) = meant

\* A status tells how far a request got, through five layers that hand errors up: one
\* that blames the caller means the service never saw it (so it may be corrected and
\* sent again), one of success that the service was called and reported no error (which
\* it does not for a commit that fails: SaveTx).
StatusHonest ==
  pc = "idle" =>
    /\ status \in {400, 415} => ~called
    /\ status \in {200, 201} => called /\ error = "none"

----------------------------------------------------------------------------
(* The invariants behind them *)

\* Filters are made of queries that could be decoded, the one asked for of the
\* request's own.
DecodedInv ==
  LET Decodable == {q \in Query \cup {Unset} : DecodeError(q) = "none"} IN
  /\ \E q \in Decodable : filled = Decoded(q) /\ meant = Meaning(q)
  /\ \E q \in Decodable : asked = Decoded(q)
  /\ pc \in {"validate", "call"} /\ route # "save" =>
       query \in Decodable /\ asked = Decoded(query)

\* How far a request has got.
CalledInv ==
  /\ pc \in {"validate", "call"} => ~called
  /\ pc = "respond" => called /\ error = "none"
  /\ pc = "refuse" => (called <=> error = "service")
=============================================================================
