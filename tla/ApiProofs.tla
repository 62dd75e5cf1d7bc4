----------------------------- MODULE ApiProofs -----------------------------
(***************************************************************************)
(* Theorems about Api, for any queries, dates and texts.                   *)
(***************************************************************************)
EXTENDS Api, CacheKeyProofs

Asked == Query \cup {Unset}

----------------------------------------------------------------------------
(* Decoding *)

\* A query that can be decoded asks for known dates and texts.
LEMMA MeaningType ==
  ASSUME NEW q \in Asked, DecodeError(q) = "none"
  PROVE  /\ Meaning(q) \in [Dates \cup Texts -> DOMAIN Format \cup Text]
         /\ \A p \in Dates : Meaning(q)[p] \in DOMAIN Format
         /\ \A p \in Texts : Meaning(q)[p] \in Text
<1>1. /\ \A p \in Dates : q[p] \in DOMAIN Format \cup {Absent, Repeated, Garbled}
      /\ \A p \in Texts : q[p] \in Text \cup {Absent, Repeated}
  BY QueryAssumption DEF Asked, Unset, Param
<1>2. \A p \in Dates : q[p] \notin {Repeated, Garbled}
  BY DEF DecodeError, ReadStringFails
<1>3. \A p \in Texts : q[p] # Repeated
  BY DEF DecodeError, ReadStringFails
<1>4. /\ \A p \in Dates : Defaults[p] \in DOMAIN Format
      /\ \A p \in Texts : Defaults[p] \in Text
  BY DefaultAssumption DEF Defaults, Dates, Texts
<1>5. \A p \in Dates \cup Texts : Meaning(q)[p] = IF q[p] = Absent THEN Defaults[p] ELSE q[p]
  BY DEF Meaning
<1>6. /\ \A p \in Dates : Meaning(q)[p] \in DOMAIN Format
      /\ \A p \in Texts : Meaning(q)[p] \in Text
  BY <1>1, <1>2, <1>3, <1>4, <1>5
<1>7. Meaning(q) = [p \in Dates \cup Texts |-> Meaning(q)[p]]
  BY DEF Meaning
<1> QED
  BY <1>6, <1>7

\* Its filter is one.
LEMMA DecodedType ==
  ASSUME NEW q \in Asked, DecodeError(q) = "none"
  PROVE  Decoded(q) \in Filter
<1> DEFINE m == Meaning(q)
<1>1. /\ {m["from"], m["to"]} \subseteq DOMAIN Format
      /\ {m["country"], m["city"], m["version"], m["service"]} \subseteq Text
  BY MeaningType DEF Dates, Texts
<1>2. Format[m["from"]] \in Stamp /\ Format[m["to"]] \in Stamp
  BY <1>1, FormatAssumption
<1> HIDE DEF m
<1>3. [country |-> m["country"], city |-> m["city"], service |-> m["service"],
       version |-> m["version"], from |-> Format[m["from"]], to |-> Format[m["to"]]] \in Filter
  BY <1>1, <1>2 DEF Filter
<1> QED
  BY <1>3 DEF Decoded, m

\* A filter says all that its query asked for.
LEMMA DecodedInjective ==
  ASSUME NEW q \in Asked, NEW r \in Asked,
         DecodeError(q) = "none", DecodeError(r) = "none", Decoded(q) = Decoded(r)
  PROVE  Meaning(q) = Meaning(r)
<1> DEFINE m == Meaning(q)  n == Meaning(r)
<1>1. /\ {m["from"], m["to"]} \subseteq DOMAIN Format
      /\ {n["from"], n["to"]} \subseteq DOMAIN Format
      /\ m \in [Dates \cup Texts -> DOMAIN Format \cup Text]
      /\ n \in [Dates \cup Texts -> DOMAIN Format \cup Text]
  BY MeaningType DEF Dates
<1>2. ASSUME NEW x
      PROVE  LET k == Meaning(x) IN
             /\ Decoded(x).country = k["country"] /\ Decoded(x).city = k["city"]
             /\ Decoded(x).service = k["service"] /\ Decoded(x).version = k["version"]
             /\ Decoded(x).from = Format[k["from"]] /\ Decoded(x).to = Format[k["to"]]
  BY DEF Decoded
<1>3. /\ m["country"] = n["country"] /\ m["city"] = n["city"]
      /\ m["service"] = n["service"] /\ m["version"] = n["version"]
      /\ Format[m["from"]] = Format[n["from"]] /\ Format[m["to"]] = Format[n["to"]]
  BY <1>2
<1> HIDE DEF m, n
<1>4. m["from"] = n["from"] /\ m["to"] = n["to"]
  BY <1>1, <1>3, FormatAssumption
<1>5. \A p \in Dates \cup Texts : m[p] = n[p]
  BY <1>3, <1>4 DEF Dates, Texts
<1>6. m = n
  BY <1>1, <1>5
<1> QED
  BY <1>6 DEF m, n

\* The query of no parameter can be decoded.
LEMMA UnsetDecodable == Unset \in Asked /\ DecodeError(Unset) = "none"
<1>1. \A p \in Param : Unset[p] = Absent
  BY DEF Unset
<1>2. {"offset", "limit"} \cup Dates \cup Texts \subseteq Param
  BY DEF Param
<1> QED
  BY <1>1, <1>2, AbsentAssumption DEF Asked, DecodeError, ReadUintFails, ReadStringFails

----------------------------------------------------------------------------
(* Types *)

LEMMA StatusType == \A err \in Error : StatusOfError(err) \in {400, 415, 500}
  BY DEF Error, StatusOfError

LEMMA TypeStep == TypeOK /\ [ApiNext]_apiVars => TypeOK'
<1> SUFFICES ASSUME TypeOK, [ApiNext]_apiVars PROVE TypeOK'
  OBVIOUS
<1> USE DEF TypeOK
<1>1. ASSUME NEW b \in Body, ReceiveReport(b) PROVE TypeOK'
  BY <1>1 DEF ReceiveReport, Decide, DecodeSaveError, Route, Error, vars
<1>2. ASSUME NEW r \in Route, NEW q \in Query, ReceiveQuery(r, q) PROVE TypeOK'
  <2>1. DecodeError(q) \in Error
    BY DEF DecodeError, Error
  <2>2. asked' \in Filter
    <3>1. CASE DecodeError(q) = "none"
      BY <1>2, <3>1, DecodedType DEF ReceiveQuery, Asked
    <3>2. CASE DecodeError(q) # "none"
      BY <1>2, <3>2 DEF ReceiveQuery
    <3> QED
      BY <3>1, <3>2
  <2> QED
    BY <1>2, <2>1, <2>2 DEF ReceiveQuery, Decide, Body
<1>3. CASE ValidateQuery
  BY <1>3 DEF ValidateQuery, Decide, Error, vars
<1>4. CASE ValidateReport
  BY <1>4 DEF ValidateReport, Decide, Error, vars
<1>5. CASE Call
  BY <1>5 DEF Call, Decide, Error
<1>6. CASE Respond
  BY <1>6 DEF Respond, Answer, StatusOf, vars
<1>7. CASE Refuse
  BY <1>7, StatusType DEF Refuse, Answer, vars
<1>8. CASE UNCHANGED apiVars
  BY <1>8 DEF apiVars, vars
<1> QED
  BY <1>1, <1>2, <1>3, <1>4, <1>5, <1>6, <1>7, <1>8 DEF ApiNext, Receive

\* Every variable of the API keeps its type; no request is answered as forbidden.
THEOREM TypeCorrect == ApiSpec => []TypeOK
<1>1. ApiInit => TypeOK
  BY UnsetDecodable, DecodedType DEF ApiInit, TypeOK, Route, Body, Error
<1> QED
  BY <1>1, TypeStep, PTL DEF ApiSpec

----------------------------------------------------------------------------
(* What a status says *)

LEMMA CalledStep == TypeOK /\ CalledInv /\ StatusHonest /\ [ApiNext]_apiVars
                      => CalledInv' /\ StatusHonest'
<1> SUFFICES ASSUME TypeOK, CalledInv, StatusHonest, [ApiNext]_apiVars
             PROVE  CalledInv' /\ StatusHonest'
  OBVIOUS
<1> USE DEF CalledInv, StatusHonest
<1>1. ASSUME NEW b \in Body, ReceiveReport(b) PROVE CalledInv' /\ StatusHonest'
  BY <1>1 DEF ReceiveReport, Decide, DecodeSaveError
<1>2. ASSUME NEW r, NEW q, ReceiveQuery(r, q) PROVE CalledInv' /\ StatusHonest'
  <2>1. DecodeError(q) \in {"query", "date", "none"}
    BY DEF DecodeError
  <2> QED
    BY <1>2, <2>1 DEF ReceiveQuery, Decide
<1>3. CASE ValidateQuery
  BY <1>3 DEF ValidateQuery, Decide
<1>4. CASE ValidateReport
  BY <1>4 DEF ValidateReport, Decide
<1>5. CASE Call
  BY <1>5 DEF Call, Decide
<1>6. CASE Respond
  BY <1>6 DEF Respond, Answer, StatusOf
<1>7. CASE Refuse
  BY <1>7 DEF Refuse, Answer, StatusOfError
<1>8. CASE UNCHANGED apiVars
  BY <1>8 DEF apiVars, vars
<1> QED
  BY <1>1, <1>2, <1>3, <1>4, <1>5, <1>6, <1>7, <1>8 DEF ApiNext, Receive

\* A status tells how far its request got (encodeError, the Code methods).
THEOREM StatusesHonest == ApiSpec => []StatusHonest
<1>1. ApiInit => CalledInv /\ StatusHonest
  BY DEF ApiInit, CalledInv, StatusHonest
<1> QED
  BY <1>1, CalledStep, TypeCorrect, PTL DEF ApiSpec

----------------------------------------------------------------------------
(* Which requests share an answer *)

Decodable == {q \in Asked : DecodeError(q) = "none"}

LEMMA DecodedStep == TypeOK /\ DecodedInv /\ [ApiNext]_apiVars => DecodedInv'
<1> SUFFICES ASSUME TypeOK, DecodedInv, [ApiNext]_apiVars PROVE DecodedInv'
  OBVIOUS
<1>0. DecodedInv <=>
        /\ \E q \in Decodable : filled = Decoded(q) /\ meant = Meaning(q)
        /\ \E q \in Decodable : asked = Decoded(q)
        /\ pc \in {"validate", "call"} /\ route # "save" =>
             query \in Decodable /\ asked = Decoded(query)
  BY DEF DecodedInv, Decodable, Asked
<1>1. DecodedInv' <=>
        /\ \E q \in Decodable : filled' = Decoded(q) /\ meant' = Meaning(q)
        /\ \E q \in Decodable : asked' = Decoded(q)
        /\ pc' \in {"validate", "call"} /\ route' # "save" =>
             query' \in Decodable /\ asked' = Decoded(query')
  BY DEF DecodedInv, Decodable, Asked
<1>2. ASSUME NEW b \in Body, ReceiveReport(b) PROVE DecodedInv'
  BY <1>0, <1>1, <1>2 DEF ReceiveReport, vars
<1>3. ASSUME NEW r, NEW q \in Query, ReceiveQuery(r, q) PROVE DecodedInv'
  <2>1. CASE DecodeError(q) = "none"
    <3>1. q \in Decodable
      BY <2>1 DEF Decodable, Asked
    <3> QED
      BY <1>0, <1>1, <1>3, <2>1, <3>1 DEF ReceiveQuery
  <2>2. CASE DecodeError(q) # "none"
    BY <1>0, <1>1, <1>3, <2>2 DEF ReceiveQuery, Decide
  <2> QED
    BY <2>1, <2>2
<1>4. CASE ValidateQuery
  BY <1>0, <1>1, <1>4 DEF ValidateQuery, vars
<1>5. CASE ValidateReport
  BY <1>0, <1>1, <1>5 DEF ValidateReport, vars
<1>6. CASE Call
  <2>1. pc' \in {"respond", "refuse"}
    BY <1>6 DEF Call, Decide
  <2>2. UNCHANGED <<asked, query, route>>
    BY <1>6 DEF Call
  <2>3. CASE filled' = asked /\ meant' = Meaning(query) /\ route = "ui"
    <3>1. query \in Decodable /\ asked = Decoded(query)
      BY <1>0, <1>6, <2>3 DEF Call
    <3> QED
      BY <1>0, <1>1, <2>1, <2>2, <2>3, <3>1
  <2>4. CASE UNCHANGED <<filled, meant>>
    BY <1>0, <1>1, <2>1, <2>2, <2>4
  <2> QED
    BY <1>6, <2>3, <2>4 DEF Call
<1>7. CASE Respond
  BY <1>0, <1>1, <1>7 DEF Respond, Answer, vars
<1>8. CASE Refuse
  BY <1>0, <1>1, <1>8 DEF Refuse, Answer, vars
<1>9. CASE UNCHANGED apiVars
  BY <1>0, <1>1, <1>9 DEF apiVars, vars
<1> QED
  BY <1>2, <1>3, <1>4, <1>5, <1>6, <1>7, <1>8, <1>9 DEF ApiNext, Receive

\* Requests that share a cached answer ask for the same, whatever they leave to the
\* defaults, when no text holds the separator (decodeRetrieve, generateCacheKey).
THEOREM SharersAgree ==
  ASSUME Text \subseteq Plain, Sep \in Char
  PROVE  ApiSpec => []SharedAnswersAgree
<1>1. ApiInit => DecodedInv
  BY UnsetDecodable DEF ApiInit, DecodedInv, Asked
<1>2. DecodedInv => SharedAnswersAgree
  <2> SUFFICES ASSUME DecodedInv, pc = "call", route = "ui",
                      KeyText(filled) = KeyText(asked)
               PROVE  Meaning(query) = meant
    BY DEF SharedAnswersAgree
  <2>1. query \in Asked /\ DecodeError(query) = "none" /\ asked = Decoded(query)
    BY DEF DecodedInv, Asked
  <2>2. PICK q \in Asked : DecodeError(q) = "none" /\ filled = Decoded(q) /\ meant = Meaning(q)
    BY DEF DecodedInv, Asked
  <2>3. asked \in Filter /\ filled \in Filter
    BY <2>1, <2>2, DecodedType
  <2>4. filled = asked
    BY <2>3, KeyTextInjective
  <2> QED
    BY <2>1, <2>2, <2>4, DecodedInjective
<1> QED
  BY <1>1, <1>2, DecodedStep, TypeCorrect, PTL DEF ApiSpec
=============================================================================
