------------------------------ MODULE CacheKey ------------------------------
(***************************************************************************)
(* The cache key of a filter (generateCacheKey): the six fields joined by  *)
(* a separator that is not escaped, then hashed.  The hash is taken to be  *)
(* injective, so the key is the text.                                      *)
(***************************************************************************)
EXTENDS Naturals, Sequences

CONSTANTS
  Char,  \* the characters of the fields
  Sep,   \* the separator "|"
  Text,  \* values of Country, City, Service and Version
  Stamp  \* formatted values of From and To

ASSUME TextAssumption  == Text \subseteq Seq(Char)
ASSUME StampAssumption == Stamp \subseteq Seq(Char \ {Sep})

VARIABLES
  filled, \* the filter whose answer was stored last
  asked   \* the filter looked up

vars == <<filled, asked>>

Filter == [country : Text, city : Text, service : Text, version : Text,
           from : Stamp, to : Stamp]

Join(a, b) == a \o <<Sep>> \o b

\* Mutation of KeyText: no separator between country and city.
KeyTextRunTogether(f) ==
  f.country \o Join(f.city, Join(f.service, Join(f.version, Join(f.from, f.to))))

KeyText(f) ==
  Join(f.country, Join(f.city, Join(f.service, Join(f.version, Join(f.from, f.to)))))

Init == filled \in Filter /\ asked = filled

Fill == filled' \in Filter /\ UNCHANGED asked
Ask  == asked' \in Filter /\ UNCHANGED filled

Next == Fill \/ Ask

Spec == Init /\ [][Next]_vars

\* "generateCacheKey creates a unique cache key from TelemetryFilters" (service.go:145):
\* the entry of a key answers the filter that is looked up.
KeyUnique == KeyText(filled) = KeyText(asked) => filled = asked
=============================================================================
