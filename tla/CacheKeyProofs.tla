--------------------------- MODULE CacheKeyProofs ---------------------------
(***************************************************************************)
(* Keys of filters whose fields are free of the separator are unique,      *)
(* whatever the length of the fields.                                      *)
(***************************************************************************)
EXTENDS CacheKey, TLAPS

Plain == Seq(Char \ {Sep})

\* Where the characters of a joined text come from.
LEMMA JoinChars ==
  ASSUME NEW a \in Seq(Char), NEW b \in Seq(Char), Sep \in Char
  PROVE  /\ Join(a, b) \in Seq(Char)
         /\ Len(Join(a, b)) = Len(a) + 1 + Len(b)
         /\ \A i \in 1 .. Len(a) : Join(a, b)[i] = a[i]
         /\ Join(a, b)[Len(a) + 1] = Sep
         /\ \A i \in 1 .. Len(b) : Join(a, b)[Len(a) + 1 + i] = b[i]
<1> DEFINE tail == <<Sep>> \o b
<1>1. /\ tail \in Seq(Char)
      /\ Len(tail) = 1 + Len(b)
      /\ tail[1] = Sep
      /\ \A i \in 1 .. Len(b) : tail[1 + i] = b[i]
  OBVIOUS
<1> HIDE DEF tail
<1>2. /\ a \o tail \in Seq(Char)
      /\ Len(a \o tail) = Len(a) + Len(tail)
      /\ \A i \in 1 .. Len(a) : (a \o tail)[i] = a[i]
      /\ \A i \in 1 .. Len(tail) : (a \o tail)[Len(a) + i] = tail[i]
  BY <1>1
<1>3. Join(a, b) = a \o tail
  BY DEF Join, tail
<1>4. Len(a) \in Nat /\ Len(b) \in Nat
  OBVIOUS
<1>5. Join(a, b)[Len(a) + 1] = Sep
  BY <1>1, <1>2, <1>3, <1>4
<1>6. ASSUME NEW i \in 1 .. Len(b) PROVE Join(a, b)[Len(a) + 1 + i] = b[i]
  <2>1. 1 + i \in 1 .. Len(tail) /\ Len(a) + (1 + i) = Len(a) + 1 + i
    BY <1>1, <1>4
  <2> QED
    BY <2>1, <1>1, <1>2, <1>3
<1> QED
  BY <1>1, <1>2, <1>3, <1>4, <1>5, <1>6

\* Two sequences of the same length and elements are the same.
LEMMA SameSeq ==
  ASSUME NEW a \in Seq(Char), NEW b \in Seq(Char), Len(a) = Len(b),
         \A i \in 1 .. Len(a) : a[i] = b[i]
  PROVE  a = b
OBVIOUS

\* The first separator tells where a plain field ends.
LEMMA JoinInjective ==
  ASSUME NEW a \in Plain, NEW c \in Plain, NEW b \in Seq(Char), NEW d \in Seq(Char),
         Sep \in Char, Join(a, b) = Join(c, d)
  PROVE  a = c /\ b = d
<1> DEFINE t == Join(a, b)
<1>1. a \in Seq(Char) /\ c \in Seq(Char)
  BY DEF Plain
<1>2. \A i \in 1 .. Len(a) : a[i] # Sep
  BY DEF Plain
<1>3. \A i \in 1 .. Len(c) : c[i] # Sep
  BY DEF Plain
<1>4. Len(a) \in Nat /\ Len(b) \in Nat /\ Len(c) \in Nat /\ Len(d) \in Nat
  BY <1>1
<1>5. /\ Len(t) = Len(a) + 1 + Len(b)
      /\ \A i \in 1 .. Len(a) : t[i] = a[i]
      /\ t[Len(a) + 1] = Sep
      /\ \A i \in 1 .. Len(b) : t[Len(a) + 1 + i] = b[i]
  BY <1>1, JoinChars
<1>6. /\ Len(t) = Len(c) + 1 + Len(d)
      /\ \A i \in 1 .. Len(c) : t[i] = c[i]
      /\ t[Len(c) + 1] = Sep
      /\ \A i \in 1 .. Len(d) : t[Len(c) + 1 + i] = d[i]
  <2> DEFINE u == Join(c, d)
  <2>1. /\ Len(u) = Len(c) + 1 + Len(d)
        /\ \A i \in 1 .. Len(c) : u[i] = c[i]
        /\ u[Len(c) + 1] = Sep
        /\ \A i \in 1 .. Len(d) : u[Len(c) + 1 + i] = d[i]
    BY <1>1, JoinChars
  <2>2. t = u
    OBVIOUS
  <2> HIDE DEF t, u
  <2> QED
    BY <2>1, <2>2
<1> HIDE DEF t
<1>7. ~ Len(a) < Len(c)
  <2> SUFFICES ASSUME Len(a) < Len(c) PROVE FALSE
    OBVIOUS
  <2>1. Len(a) + 1 \in 1 .. Len(c)
    BY <1>4
  <2>2. t[Len(a) + 1] = c[Len(a) + 1]
    BY <2>1, <1>6
  <2> QED
    BY <2>1, <2>2, <1>3, <1>5
<1>8. ~ Len(c) < Len(a)
  <2> SUFFICES ASSUME Len(c) < Len(a) PROVE FALSE
    OBVIOUS
  <2>1. Len(c) + 1 \in 1 .. Len(a)
    BY <1>4
  <2>2. t[Len(c) + 1] = a[Len(c) + 1]
    BY <2>1, <1>5
  <2> QED
    BY <2>1, <2>2, <1>2, <1>6
<1>9. Len(a) = Len(c) /\ Len(b) = Len(d)
  BY <1>4, <1>5, <1>6, <1>7, <1>8
<1>10. \A i \in 1 .. Len(a) : a[i] = c[i]
  BY <1>5, <1>6, <1>9
<1>11. \A i \in 1 .. Len(b) : b[i] = d[i]
  <2> SUFFICES ASSUME NEW i \in 1 .. Len(b) PROVE b[i] = d[i]
    OBVIOUS
  <2>1. t[Len(a) + 1 + i] = b[i] /\ t[Len(c) + 1 + i] = d[i]
    BY <1>5, <1>6, <1>9
  <2> QED
    BY <2>1, <1>9
<1> QED
  BY <1>1, <1>9, <1>10, <1>11, SameSeq

\* Joined texts are texts.
LEMMA JoinType ==
  ASSUME NEW a \in Seq(Char), NEW b \in Seq(Char), Sep \in Char
  PROVE  Join(a, b) \in Seq(Char)
BY JoinChars

\* A key determines its filter when the fields are plain.
LEMMA KeyTextInjective ==
  ASSUME Text \subseteq Plain, Sep \in Char,
         NEW f \in Filter, NEW g \in Filter, KeyText(f) = KeyText(g)
  PROVE  f = g
<1>1. /\ \A x \in Text : x \in Plain /\ x \in Seq(Char)
      /\ \A x \in Stamp : x \in Plain /\ x \in Seq(Char)
  BY TextAssumption, StampAssumption DEF Plain
<1>2. ASSUME NEW h \in Filter
      PROVE  /\ h.country \in Plain /\ h.city \in Plain /\ h.service \in Plain
             /\ h.version \in Plain /\ h.from \in Plain
             /\ h.to \in Seq(Char)
             /\ Join(h.from, h.to) \in Seq(Char)
             /\ Join(h.version, Join(h.from, h.to)) \in Seq(Char)
             /\ Join(h.service, Join(h.version, Join(h.from, h.to))) \in Seq(Char)
             /\ Join(h.city, Join(h.service, Join(h.version, Join(h.from, h.to)))) \in Seq(Char)
  <2>1. /\ h.country \in Text /\ h.city \in Text /\ h.service \in Text /\ h.version \in Text
        /\ h.from \in Stamp /\ h.to \in Stamp
    BY DEF Filter
  <2>2. Join(h.from, h.to) \in Seq(Char)
    BY <1>1, <2>1, JoinType
  <2>3. Join(h.version, Join(h.from, h.to)) \in Seq(Char)
    BY <1>1, <2>1, <2>2, JoinType
  <2>4. Join(h.service, Join(h.version, Join(h.from, h.to))) \in Seq(Char)
    BY <1>1, <2>1, <2>3, JoinType
  <2>5. Join(h.city, Join(h.service, Join(h.version, Join(h.from, h.to)))) \in Seq(Char)
    BY <1>1, <2>1, <2>4, JoinType
  <2> QED
    BY <1>1, <2>1, <2>2, <2>3, <2>4, <2>5
<1>3. f.country = g.country /\
      Join(f.city, Join(f.service, Join(f.version, Join(f.from, f.to)))) =
      Join(g.city, Join(g.service, Join(g.version, Join(g.from, g.to))))
  BY <1>2, JoinInjective DEF KeyText
<1>4. f.city = g.city /\
      Join(f.service, Join(f.version, Join(f.from, f.to))) =
      Join(g.service, Join(g.version, Join(g.from, g.to)))
  BY <1>2, <1>3, JoinInjective
<1>5. f.service = g.service /\
      Join(f.version, Join(f.from, f.to)) = Join(g.version, Join(g.from, g.to))
  BY <1>2, <1>4, JoinInjective
<1>6. f.version = g.version /\ Join(f.from, f.to) = Join(g.from, g.to)
  BY <1>2, <1>5, JoinInjective
<1>7. f.from = g.from /\ f.to = g.to
  BY <1>2, <1>6, JoinInjective
<1> QED
  BY <1>3, <1>4, <1>5, <1>6, <1>7 DEF Filter

\* Filters without the separator in their fields never meet in the cache (KeyUnique).
THEOREM PlainKeysUnique ==
  ASSUME Text \subseteq Plain, Sep \in Char
  PROVE  Spec => []KeyUnique
<1> DEFINE Typed == filled \in Filter /\ asked \in Filter
<1>1. Init => Typed
  BY DEF Init
<1>2. Typed /\ [Next]_vars => Typed'
  BY DEF Next, Fill, Ask, vars
<1>3. Typed => KeyUnique
  BY KeyTextInjective DEF KeyUnique
<1> QED
  BY <1>1, <1>2, <1>3, PTL DEF Spec
=============================================================================
