--------------------------- MODULE ListingProofs ---------------------------
(***************************************************************************)
(* Theorems about Listing, for every value of its constants.               *)
(***************************************************************************)
EXTENDS Listing, FiniteSetTheorems, TLAPS

----------------------------------------------------------------------------
(* Dates *)

\* Rounding gives a time, and keeps the order of times.
LEMMA RoundType == ASSUME NEW t \in Nat PROVE Round(t) \in Nat
<1> DEFINE a == t + RoundPeriod \div 2
<1>1. RoundPeriod \in Nat \ {0}
  BY RoundAssumption
<1>2. RoundPeriod \div 2 \in Nat
  BY <1>1
<1>3. a \in Nat
  BY <1>2
<1> HIDE DEF a
<1>4. a \div RoundPeriod \in Nat
  BY <1>1, <1>3
<1>5. (a \div RoundPeriod) * RoundPeriod \in Nat
  BY <1>1, <1>4
<1> QED
  BY <1>5 DEF Round, a

LEMMA DivMonotone ==
  ASSUME NEW d \in Nat \ {0}, NEW a \in Nat, NEW b \in Nat, a <= b
  PROVE  (a \div d) * d <= (b \div d) * d
<1>1. a \div d \in Nat /\ b \div d \in Nat
  OBVIOUS
<1>2. a \div d <= b \div d
  OBVIOUS
<1> QED
  BY <1>1, <1>2

LEMMA RoundMonotone ==
  ASSUME NEW s \in Nat, NEW t \in Nat, s <= t PROVE Round(s) <= Round(t)
<1>1. RoundPeriod \in Nat \ {0} /\ RoundPeriod \div 2 \in Nat
  BY RoundAssumption
<1> QED
  BY <1>1, DivMonotone DEF Round

----------------------------------------------------------------------------
(* Types *)

LEMMA WindowType ==
  ASSUME NEW q \in Query, now \in Nat
  PROVE  Window(q) \in [from : Date, to : Date]
  BY RoundType, SpanAssumption DEF Window, Query, Date

LEMMA ViewType ==
  ASSUME TypeOK
  PROVE  View \subseteq table /\ View \subseteq Row
  BY DEF TypeOK, View

\* What arrives of a page is part of it.
LEMMA PageType ==
  ASSUME TypeOK, NEW page \in Arriving(Page(View))
  PROVE  page \subseteq Page(View) /\ Addresses(page) \subseteq Address
<1>1. page \subseteq Page(View)
  BY DEF Arriving
<1> QED
  BY <1>1, ViewType DEF Addresses, Page, Latest, Row

LEMMA TypeInit == Init => TypeOK
<1> SUFFICES ASSUME Init PROVE TypeOK
  OBVIOUS
<1> USE DEF Init
<1>1. query \in Query
  BY DEF Query
<1>2. window \in [from : Date, to : Date]
  BY DEF Date
<1>3. window.from = 0 /\ window.to = 0
  OBVIOUS
<1>4. Valid(window)
  BY <1>3 DEF Valid
<1> QED
  BY <1>1, <1>2, <1>4 DEF TypeOK

LEMMA TypeStep == TypeOK /\ [Next]_vars => TypeOK'
<1> SUFFICES ASSUME TypeOK, [Next]_vars PROVE TypeOK'
  OBVIOUS
<1> USE DEF TypeOK
<1>1. ASSUME NEW ip \in Address, NEW t \in 0 .. MaxStamp, NEW c \in Country, Report(ip, t, c)
      PROVE  TypeOK'
  BY <1>1, BoundAssumption DEF Report, Row, walk
<1>2. ASSUME NEW end \in 0 .. now, Purge(end) PROVE TypeOK'
  BY <1>2 DEF Purge, walk
<1>3. CASE Elapse
  BY <1>3 DEF Elapse, walk
<1>4. ASSUME NEW q \in Queries, Start(q) PROVE TypeOK'
  BY <1>4, DateAssumption DEF Start, Queries, Query, Date, walk
<1>5. CASE Ask
  BY <1>5, WindowType DEF Ask, walk
<1>6. CASE Fail
  BY <1>6 DEF Fail, walk
<1>7. CASE Read
  <2>1. PICK page \in Arriving(Page(View)) :
          /\ seen' = seen \cup Addresses(page)
          /\ repeats' = repeats + Cardinality(Addresses(page) \cap seen)
          /\ cut' = (page # Page(View))
          /\ pc' \in {"asking", "ended"}
    BY <1>7 DEF Read
  <2>2. Addresses(page) \subseteq Address
    BY PageType
  <2>3. Cardinality(Addresses(page) \cap seen) \in Nat
    BY <2>2, AddressAssumption, FS_Subset, FS_CardinalityType
  <2>4. View \subseteq Row /\ Latest(View) \subseteq Row
    BY ViewType DEF Latest
  <2> QED
    BY <1>7, <2>1, <2>2, <2>3, <2>4, LimitAssumption DEF Read
<1>8. CASE UNCHANGED vars
  BY <1>8 DEF vars
<1> QED
  BY <1>1, <1>2, <1>3, <1>4, <1>5, <1>6, <1>7, <1>8 DEF Next

\* Every variable of the listing keeps its type (TypeOK).
THEOREM TypeCorrect == Spec => []TypeOK
  BY TypeInit, TypeStep, PTL DEF Spec

----------------------------------------------------------------------------
(* Rows that stay in their place *)

\* A page's window does not end before the last one's.
LEMMA DatesStep == TypeOK /\ DatesInv /\ [Next]_vars => DatesInv'
<1> SUFFICES ASSUME TypeOK, DatesInv, [Next]_vars PROVE DatesInv'
  OBVIOUS
<1> USE DEF DatesInv
<1>1. CASE UNCHANGED <<now, pc, query, window, offset, walk>>
  BY <1>1 DEF walk, Round
<1>2. CASE Elapse
  <2>1. now \in Nat /\ now' \in Nat /\ now <= now' /\ UNCHANGED <<pc, query, window, offset, walk>>
    BY <1>2 DEF Elapse, TypeOK
  <2>2. Round(now) <= Round(now') /\ Round(now) \in Nat /\ Round(now') \in Nat
    BY <2>1, RoundMonotone, RoundType
  <2>3. Round(now)' = Round(now')
    BY DEF Round
  <2> HIDE DEF Round
  <2> QED
    BY <2>1, <2>2, <2>3 DEF walk
<1>3. ASSUME NEW q \in Queries, Start(q) PROVE DatesInv'
  BY <1>3 DEF Start, walk
<1>4. CASE Ask
  <2>1. UNCHANGED <<now, query, offset, walk>> /\ pc = "asking" /\ pc' # "idle"
    BY <1>4 DEF Ask
  <2>2. CASE window' = window /\ pc' # "reading"
    BY <2>1, <2>2 DEF walk, Round
  <2>3. CASE window' = Window(query)
    <3>1. IF query.to = Absent THEN window'.to \in Nat /\ window'.to = Round(now)
          ELSE window'.to = query.to
      BY <2>3, RoundType DEF Window, TypeOK
    <3>2. last # {} => offset > 0
      BY DEF TypeOK
    <3>3. \A row \in last : window'.to = Unbounded \/ row.time <= window'.to
      <4> SUFFICES ASSUME NEW row \in last PROVE window'.to = Unbounded \/ row.time <= window'.to
        OBVIOUS
      <4>1. row.time \in Nat
        BY DEF TypeOK, Row
      <4>2. CASE query.to = Absent
        <5>1. window.to \in Nat /\ window.to <= Round(now) /\ window'.to = Round(now)
          BY <3>1, <3>2, <4>2
        <5>2. row.time <= window.to
          BY <5>1, DateAssumption
        <5> QED
          BY <4>1, <5>1, <5>2, <3>1, <4>2
      <4>3. CASE query.to # Absent
        BY <3>1, <3>2, <4>3
      <4> QED
        BY <4>2, <4>3
    <3>4. Round(now)' = Round(now) /\ Round(now) <= Round(now)
      BY <2>1, RoundType DEF Round, TypeOK
    <3> HIDE DEF Round
    <3> QED
      BY <2>1, <3>1, <3>3, <3>4 DEF walk
  <2> QED
    BY <1>4, <2>2, <2>3 DEF Ask
<1>5. CASE Fail
  BY <1>5 DEF Fail, walk, Round
<1>6. CASE Read
  <2>1. offset' > 0 /\ offset' # 0 /\ pc' # "idle" /\ last' = View /\ pc = "reading"
        /\ UNCHANGED <<now, query, window>>
    BY <1>6, LimitAssumption DEF Read, TypeOK
  <2>2. \A row \in View : /\ window.to = Unbounded \/ row.time <= window.to
                          /\ query.country \in {AnyCountry, row.country}
    BY DEF View
  <2>3. Round(now)' = Round(now)
    BY <2>1 DEF Round
  <2> HIDE DEF Round
  <2> QED
    BY <2>1, <2>2, <2>3
<1>7. ASSUME NEW ip \in Address, NEW t \in 0 .. MaxStamp, NEW c \in Country, Report(ip, t, c)
      PROVE  DatesInv'
  BY <1>1, <1>7 DEF Report
<1>8. ASSUME NEW end \in 0 .. now, Purge(end) PROVE DatesInv'
  BY <1>1, <1>8 DEF Purge
<1>9. CASE UNCHANGED vars
  BY <1>1, <1>9 DEF vars, walk
<1> HIDE DEF DatesInv
<1> QED
  BY <1>2, <1>3, <1>4, <1>5, <1>6, <1>7, <1>8, <1>9 DEF Next

LEMMA GoneStep == TypeOK /\ GoneInv /\ [Next]_vars => GoneInv'
<1> SUFFICES ASSUME TypeOK, GoneInv, [Next]_vars PROVE GoneInv'
  OBVIOUS
<1> USE SpanAssumption DEF TypeOK, GoneInv, Row
<1>1. ASSUME NEW ip \in Address, NEW t \in 0 .. MaxStamp, NEW c \in Country, Report(ip, t, c)
      PROVE  GoneInv'
  BY <1>1, BoundAssumption DEF Report, walk
<1>2. ASSUME NEW end \in 0 .. now, Purge(end) PROVE GoneInv'
  BY <1>2 DEF Purge, walk
<1>3. CASE Elapse
  BY <1>3 DEF Elapse, walk
<1>4. CASE Read
  BY <1>4 DEF Read, View
<1>5. CASE UNCHANGED <<now, table, walk>>
  BY <1>5 DEF walk
<1> QED
  BY <1>1, <1>2, <1>3, <1>4, <1>5 DEF Next, Start, Ask, Fail, vars

\* A newer row of the last page's view is in this one's, if an older one is.
LEMMA NewerKept ==
  ASSUME TypeOK, DatesInv, GoneInv, pc = "reading",
         NEW row \in last \cap View, NEW r \in last, row.time <= r.time
  PROVE  r \in View
<1>1. r \in table
  BY DEF GoneInv, View, TypeOK, Row
<1>2. /\ window.to = Unbounded \/ r.time <= window.to
      /\ query.country \in {AnyCountry, r.country}
  BY DEF DatesInv
<1>3. window.from = Unbounded \/ window.from <= r.time
  BY <1>1 DEF View, TypeOK, Row, Date
<1> QED
  BY <1>1, <1>2, <1>3 DEF View

\* Positions are numbers, and grow with the addresses before.
LEMMA PositionType ==
  ASSUME NEW view, view \subseteq Row, NEW row
  PROVE  /\ Before(view, row) \subseteq Address
         /\ IsFiniteSet(Before(view, row))
         /\ Position(view, row) \in Nat
<1>1. Before(view, row) \subseteq Address
  BY DEF Before, Row
<1> QED
  BY <1>1, AddressAssumption, FS_Subset, FS_CardinalityType DEF Position

LEMMA PositionGrows ==
  ASSUME NEW view1, NEW view2, view2 \subseteq Row, NEW row,
         Before(view1, row) \subseteq Before(view2, row)
  PROVE  Position(view1, row) <= Position(view2, row)
  BY PositionType, FS_Subset DEF Position

\* What keeps its place was shown, or is not before the reader's offset yet: nothing
\* between two pages moves a listed row up the list.
LEMMA PushedDown ==
  ASSUME TypeOK, DatesInv, GoneInv, kept \subseteq Latest(last), InPlace,
         pc = "reading", ~cut, offset > 0, NEW row \in kept \cap Latest(View)
  PROVE  row.ip \in seen \/ offset <= Position(View, row)
<1>1. row \in View /\ row \in last
  BY DEF Latest
<1>2. Before(last, row) \subseteq Before(View, row)
  <2>1. ASSUME NEW r \in last, r.time > row.time PROVE r \in View
    BY <1>1, <2>1, NewerKept DEF TypeOK, Row
  <2> QED
    BY <2>1 DEF Before
<1>3. Position(last, row) <= Position(View, row)
  BY <1>2, PositionGrows, ViewType
<1>4. Position(last, row) \in Nat /\ Position(View, row) \in Nat /\ offset \in Nat
  BY PositionType, ViewType DEF TypeOK
<1> QED
  BY <1>3, <1>4 DEF InPlace

\* A whole page shows the rows of its positions, and what was in its place stays there.
LEMMA InPlaceStep ==
  TypeOK /\ WalkInv /\ [Next]_vars => (kept \subseteq Latest(last) /\ InPlace)'
<1> SUFFICES ASSUME TypeOK, WalkInv, [Next]_vars
             PROVE  (kept \subseteq Latest(last) /\ InPlace)'
  OBVIOUS
<1> USE DEF WalkInv
<1>1. CASE Read
  <2>1. kept' \subseteq Latest(View) /\ last' = View
    BY <1>1 DEF Read
  <2>2. (kept \subseteq Latest(last))'
    BY <2>1 DEF Latest
  <2>3. ASSUME ~cut', NEW row \in kept'
        PROVE  row.ip \in seen' \/ Position(View, row) >= offset'
    <3>1. row \in Latest(View) /\ row \in View
      BY <2>1 DEF Latest
    <3>2. Position(View, row) \in Nat /\ offset \in Nat /\ Limit \in Nat
      BY PositionType, ViewType, LimitAssumption DEF TypeOK
    <3>3. CASE row.ip \in seen
      BY <1>1, <3>3 DEF Read
    <3>4. CASE row.ip \notin seen /\ offset <= Position(View, row)
      <4>1. CASE Position(View, row) < offset + Limit
        <5>1. row \in Page(View)
          BY <3>1, <3>2, <3>4, <4>1 DEF Page
        <5>2. seen' = seen \cup Addresses(Page(View))
          BY <1>1, <2>3 DEF Read
        <5> QED
          BY <5>1, <5>2 DEF Addresses
      <4>2. CASE Position(View, row) >= offset + Limit
        BY <1>1, <4>2 DEF Read
      <4> QED
        BY <3>2, <4>1, <4>2
    <3>5. CASE row.ip \notin seen /\ ~(offset <= Position(View, row))
      <4>1. offset > 0
        BY <3>2, <3>5
      <4>2. row \in kept /\ pc = "reading" /\ ~cut
        BY <1>1, <4>1 DEF Read, CutInv
      <4> QED
        BY <3>1, <3>5, <4>1, <4>2, PushedDown
    <3> QED
      BY <3>3, <3>4, <3>5
  <2> QED
    BY <2>1, <2>2, <2>3 DEF InPlace, Position, Before
<1>2. CASE UNCHANGED <<offset, walk>>
  BY <1>2 DEF walk, InPlace, Position, Before, Latest
<1> QED
  BY <1>1, <1>2 DEF Next, Report, Purge, Elapse, Start, Ask, Fail, vars, walk

----------------------------------------------------------------------------
(* Full pages *)

\* A finite set of rows, no two of one time, as every view is.
Ordered(view) ==
  /\ view \subseteq Row /\ IsFiniteSet(view)
  /\ \A r1, r2 \in view : r1.time = r2.time => r1 = r2

\* An address has a latest row: were each of its rows older than another one, the
\* numbers of newer rows would be as many as the rows, and between 1 and one less.
LEMMA LatestExists ==
  ASSUME NEW view, Ordered(view), NEW row \in view
  PROVE  \E r \in Latest(view) : r.ip = row.ip /\ row.time <= r.time
<1> DEFINE T == {r \in view : r.ip = row.ip}
           Newer(r) == {s \in T : s.time > r.time}
           n == Cardinality(T)
           f == [r \in T |-> Cardinality(Newer(r))]
<1>1. IsFiniteSet(T) /\ n \in Nat /\ \A r \in T : r.time \in Nat
  BY FS_Subset, FS_CardinalityType DEF Ordered, Row
<1>2. ASSUME NEW r \in T
      PROVE  IsFiniteSet(Newer(r)) /\ f[r] = Cardinality(Newer(r)) /\ f[r] \in Nat
  BY <1>1, FS_Subset, FS_CardinalityType
<1>3. ASSUME NEW x \in T, NEW y \in T, x.time < y.time PROVE f[x] # f[y]
  <2>1. Newer(y) \subseteq Newer(x) /\ y \in Newer(x) /\ y \notin Newer(y)
    BY <1>1, <1>3
  <2> QED
    BY <1>2, <2>1, FS_Subset
<1>4. SUFFICES ASSUME \A r \in T : Newer(r) # {} PROVE FALSE
  <2>1. PICK r \in T : Newer(r) = {}
    BY <1>4
  <2> QED
    BY <1>1, <2>1 DEF Latest
<1>5. ASSUME NEW r \in T PROVE f[r] \in 1 .. n - 1
  <2>1. f[r] # 0
    BY <1>2, <1>4, FS_EmptySet
  <2>2. Newer(r) \subseteq T \ {r}
    BY <1>1
  <2>3. IsFiniteSet(T \ {r}) /\ Cardinality(T \ {r}) = n - 1
    BY <1>1, FS_RemoveElement
  <2>4. Cardinality(Newer(r)) <= n - 1
    BY <2>2, <2>3, FS_Subset
  <2>5. f[r] \in Nat /\ f[r] <= n - 1
    BY <1>2, <2>4
  <2> HIDE DEF f, n
  <2> QED
    BY <1>1, <2>1, <2>5
<1>6. IsFiniteSet(1 .. n - 1) /\ Cardinality(1 .. n - 1) < n
  <2>1. n # 0
    <3>1. row \in T
      OBVIOUS
    <3> HIDE DEF T
    <3> QED
      BY <1>1, <3>1, FS_EmptySet
  <2> HIDE DEF n
  <2>2. 1 \in Int /\ n - 1 \in Int
    BY <1>1
  <2>3. /\ IsFiniteSet(1 .. n - 1)
        /\ Cardinality(1 .. n - 1) = IF 1 > n - 1 THEN 0 ELSE (n - 1) - 1 + 1
    BY <2>2, FS_Interval
  <2> QED
    BY <1>1, <2>1, <2>3
<1>7. f \in [T -> 1 .. n - 1]
  BY <1>5
<1> HIDE DEF f
<1>8. PICK x \in T, y \in T : x # y /\ f[x] = f[y]
  BY <1>1, <1>6, <1>7, FS_PigeonHole
<1>9. x.time # y.time
  BY <1>8 DEF Ordered
<1> QED
  BY <1>1, <1>3, <1>8, <1>9

\* Newer rows come first.
LEMMA NewerFirst ==
  ASSUME NEW view, Ordered(view), NEW r1 \in Latest(view), NEW r2 \in Latest(view),
         r1.time < r2.time
  PROVE  Position(view, r2) < Position(view, r1)
<1>1. view \subseteq Row /\ r1 \in view /\ r2 \in view
  BY DEF Ordered, Latest
<1>2. \A r \in view : r.time \in Nat
  BY <1>1 DEF Row
<1>3. Before(view, r2) \subseteq Before(view, r1)
  BY <1>1, <1>2 DEF Before
<1>4. r2.ip \in Before(view, r1) /\ r2.ip \notin Before(view, r2)
  BY <1>1, <1>2 DEF Before, Latest
<1> QED
  BY <1>1, <1>3, <1>4, PositionType, FS_Subset DEF Position

LEMMA PositionUnique ==
  ASSUME NEW view, Ordered(view), NEW r1 \in Latest(view), NEW r2 \in Latest(view),
         Position(view, r1) = Position(view, r2)
  PROVE  r1 = r2
<1>1. r1 \in view /\ r2 \in view /\ r1.time \in Nat /\ r2.time \in Nat
  BY DEF Ordered, Latest, Row
<1>2. Position(view, r1) \in Nat
  BY PositionType DEF Ordered
<1>3. ~(r1.time < r2.time) /\ ~(r2.time < r1.time)
  BY <1>2, NewerFirst
<1> QED
  BY <1>1, <1>3 DEF Ordered

\* Every position before a listed row's is another row's.
LEMMA PositionsFilled ==
  ASSUME NEW view, Ordered(view), NEW row \in Latest(view),
         NEW k \in 0 .. Position(view, row) - 1
  PROVE  \E r \in Latest(view) : Position(view, r) = k
<1> DEFINE A == Before(view, row)
           p == Position(view, row)
           Top(ip) == CHOOSE r \in Latest(view) : r.ip = ip /\ row.time < r.time
           f == [ip \in A |-> Position(view, Top(ip))]
<1>1. IsFiniteSet(A) /\ Cardinality(A) = p /\ p \in Nat
  BY PositionType DEF Ordered, Position
<1>2. ASSUME NEW ip \in A
      PROVE  Top(ip) \in Latest(view) /\ Top(ip).ip = ip /\ row.time < Top(ip).time
  <2>1. PICK r \in view : r.ip = ip /\ row.time < r.time
    BY DEF Before
  <2>2. PICK s \in Latest(view) : s.ip = ip /\ r.time <= s.time
    BY <2>1, LatestExists
  <2>3. row.time \in Nat /\ r.time \in Nat /\ s.time \in Nat
    BY DEF Ordered, Latest, Row
  <2>4. s.ip = ip /\ row.time < s.time
    BY <2>1, <2>2, <2>3
  <2> QED
    BY <2>4
<1> HIDE DEF Top
<1>3. ASSUME NEW ip \in A PROVE f[ip] \in 0 .. p - 1
  <2>1. f[ip] < p
    BY <1>2, NewerFirst
  <2>2. f[ip] \in Nat
    BY PositionType DEF Ordered
  <2> QED
    BY <1>1, <2>1, <2>2
<1>4. ASSUME NEW x \in A, NEW y \in A, f[x] = f[y] PROVE x = y
  <2>1. Top(x) = Top(y)
    BY <1>2, <1>4, PositionUnique
  <2> QED
    BY <1>2, <2>1
<1>5. f \in Injection(A, 0 .. p - 1)
  BY <1>3, <1>4 DEF Injection, IsInjective
<1>6. IsFiniteSet(0 .. p - 1) /\ Cardinality(0 .. p - 1) = p
  BY <1>1, FS_Interval
<1>7. f \in Surjection(A, 0 .. p - 1)
  BY <1>1, <1>5, <1>6, FS_Injection
<1>8. PICK ip \in A : f[ip] = k
  BY <1>7 DEF Surjection
<1> QED
  BY <1>2, <1>8

\* A page has Limit rows at most, and as many if it ends before a listed row.
LEMMA PageBound ==
  ASSUME NEW view, Ordered(view), offset \in Nat
  PROVE  /\ IsFiniteSet(Page(view)) /\ Cardinality(Page(view)) <= Limit
         /\ \A row \in Latest(view) :
              Position(view, row) >= offset + Limit => Cardinality(Page(view)) = Limit
<1> DEFINE I == offset .. offset + Limit - 1
           h == [r \in Page(view) |-> Position(view, r)]
<1>1. Limit \in Nat /\ Limit > 0
  BY LimitAssumption
<1>2. IsFiniteSet(I) /\ Cardinality(I) = Limit
  <2>1. offset \in Int /\ offset + Limit - 1 \in Int
    BY <1>1
  <2>2. /\ IsFiniteSet(I)
        /\ Cardinality(I) = IF offset > offset + Limit - 1 THEN 0
                            ELSE (offset + Limit - 1) - offset + 1
    BY <2>1, FS_Interval
  <2> QED
    BY <1>1, <2>2
<1>3. Page(view) \subseteq Latest(view)
  BY DEF Page
<1>4. h \in [Page(view) -> I]
  BY DEF Page
<1>5. h \in Injection(Page(view), I)
  BY <1>3, <1>4, PositionUnique DEF Injection, IsInjective
<1>6. ASSUME NEW row \in Latest(view), Position(view, row) >= offset + Limit
      PROVE  h \in Surjection(Page(view), I)
  <2>1. Position(view, row) \in Nat
    BY PositionType DEF Ordered
  <2>2. ASSUME NEW k \in I PROVE \E r \in Page(view) : h[r] = k
    <3>1. k \in 0 .. Position(view, row) - 1
      BY <1>1, <1>6, <2>1
    <3>2. PICK r \in Latest(view) : Position(view, r) = k
      BY <3>1, PositionsFilled
    <3> QED
      BY <3>2 DEF Page
  <2> QED
    BY <1>4, <2>2 DEF Surjection
<1> HIDE DEF h, I
<1> QED
  BY <1>2, <1>5, <1>6, FS_Injection

----------------------------------------------------------------------------
(* The walk *)

FiniteTable == IsFiniteSet(table)

LEMMA FiniteStep == TypeOK /\ FiniteTable /\ [Next]_vars => FiniteTable'
<1> SUFFICES ASSUME TypeOK, FiniteTable, [Next]_vars PROVE FiniteTable'
  OBVIOUS
<1>1. ASSUME NEW ip \in Address, NEW t \in 0 .. MaxStamp, NEW c \in Country, Report(ip, t, c)
      PROVE  FiniteTable'
  BY <1>1, FS_AddElement DEF FiniteTable, Report
<1>2. ASSUME NEW end \in 0 .. now, Purge(end) PROVE FiniteTable'
  <2>1. table' \subseteq table
    BY <1>2 DEF Purge
  <2> QED
    BY <2>1, FS_Subset DEF FiniteTable
<1>3. CASE UNCHANGED table
  BY <1>3 DEF FiniteTable
<1> QED
  BY <1>1, <1>2, <1>3 DEF Next, Elapse, Start, Ask, Fail, Read, vars

LEMMA ViewOrdered ==
  ASSUME TypeOK, FiniteTable PROVE Ordered(View)
BY ViewType, FS_Subset DEF Ordered, FiniteTable, TypeOK

LEMMA InPlaceInit == Init => FiniteTable /\ WalkInv /\ WalkComplete
  BY FS_EmptySet
     DEF Init, FiniteTable, WalkInv, DatesInv, GoneInv, CutInv, InPlace, WalkComplete, Latest

\* What was cut short is less than a page.
LEMMA CutStep == TypeOK /\ FiniteTable /\ CutInv /\ [Next]_vars => CutInv'
<1> SUFFICES ASSUME TypeOK, FiniteTable, CutInv, [Next]_vars PROVE CutInv'
  OBVIOUS
<1>1. CASE Read
  <2>1. PICK page \in Arriving(Page(View)) :
          /\ cut' = (page # Page(View))
          /\ pc' = IF Cardinality(page) = Limit THEN "asking" ELSE "ended"
    BY <1>1 DEF Read
  <2>2. page \subseteq Page(View)
    BY PageType
  <2>3. IsFiniteSet(Page(View)) /\ Cardinality(Page(View)) <= Limit
    BY ViewOrdered, PageBound DEF TypeOK
  <2>4. /\ Cardinality(page) \in Nat /\ Cardinality(Page(View)) \in Nat
        /\ Cardinality(page) <= Cardinality(Page(View))
        /\ Cardinality(page) = Cardinality(Page(View)) => page = Page(View)
    BY <2>2, <2>3, FS_Subset, FS_CardinalityType
  <2>5. page # Page(View) => Cardinality(page) # Limit
    BY <2>3, <2>4, LimitAssumption
  <2> QED
    BY <2>1, <2>5 DEF CutInv
<1>2. CASE cut' = cut /\ (pc = "ended" => pc' = "ended")
  BY <1>2 DEF CutInv
<1> QED
  BY <1>1, <1>2 DEF Next, Report, Purge, Elapse, Start, Ask, Fail, vars, walk

LEMMA WalkStep == TypeOK /\ FiniteTable /\ WalkInv /\ [Next]_vars => WalkInv'
  BY DatesStep, GoneStep, CutStep, InPlaceStep DEF WalkInv

\* The last page is not full, so nothing of the list is left behind it.
LEMMA CompleteStep ==
  TypeOK /\ FiniteTable /\ WalkInv /\ WalkInv' /\ WalkComplete /\ [Next]_vars => WalkComplete'
<1> SUFFICES ASSUME TypeOK, FiniteTable, WalkInv, WalkInv', WalkComplete, [Next]_vars
             PROVE  WalkComplete'
  OBVIOUS
<1>1. CASE Read
  <2> SUFFICES ASSUME Cardinality(Page(View)) # Limit, ~cut', NEW row \in kept'
               PROVE  row.ip \in seen'
    BY <1>1 DEF Read, WalkComplete, Addresses
  <2>1. Ordered(View)
    BY ViewOrdered
  <2>2. row \in Latest(View) /\ last' = View /\ offset' = offset + Limit
    BY <1>1 DEF Read
  <2>3. offset' > 0
    BY <2>2, LimitAssumption DEF TypeOK
  <2>4. row.ip \in seen' \/ Position(View, row) >= offset + Limit
    BY <2>2, <2>3 DEF WalkInv, InPlace, Position, Before
  <2>5. ~(Position(View, row) >= offset + Limit)
    BY <2>1, <2>2, PageBound DEF TypeOK
  <2> QED
    BY <2>4, <2>5
<1>2. CASE UNCHANGED <<pc, walk>>
  BY <1>2 DEF WalkComplete, walk
<1>3. CASE pc' # "ended"
  BY <1>3 DEF WalkComplete
<1> QED
  BY <1>1, <1>2, <1>3 DEF Next, Report, Purge, Elapse, Start, Ask, Fail, vars, walk

\* Whoever reads the list to its end, and no page cut short for it, sees every deployment
\* that stayed in its place (WalkComplete): pages without a cursor lose only what moves.
THEOREM NothingLost == Spec => []WalkComplete
  BY InPlaceInit, WalkStep, FiniteStep, CompleteStep, TypeCorrect, PTL DEF Spec

\* The invariant behind it (WalkInv) holds of every walk, cut short or not.
THEOREM WalkInvariant == Spec => []WalkInv
  BY InPlaceInit, WalkStep, FiniteStep, TypeCorrect, PTL DEF Spec

----------------------------------------------------------------------------
(* Repetitions *)

\* A set of rows has at most as many addresses, and a set of latest rows just as many.
LEMMA AddressCount ==
  ASSUME NEW rows, IsFiniteSet(rows)
  PROVE  /\ IsFiniteSet(Addresses(rows))
         /\ Cardinality(Addresses(rows)) \in Nat
         /\ Cardinality(rows) \in Nat
         /\ Cardinality(Addresses(rows)) <= Cardinality(rows)
         /\ (\A r1, r2 \in rows : r1.ip = r2.ip => r1 = r2)
              => Cardinality(Addresses(rows)) = Cardinality(rows)
<1> DEFINE f == [row \in rows |-> row.ip]
<1>1. f \in Surjection(rows, Addresses(rows))
  BY DEF Surjection, Addresses
<1>2. (\A r1, r2 \in rows : r1.ip = r2.ip => r1 = r2) => f \in Injection(rows, Addresses(rows))
  BY DEF Injection, IsInjective, Addresses
<1> HIDE DEF f
<1>3. /\ IsFiniteSet(Addresses(rows))
      /\ Cardinality(Addresses(rows)) <= Cardinality(rows)
      /\ f \in Injection(rows, Addresses(rows))
           => Cardinality(Addresses(rows)) = Cardinality(rows)
  BY <1>1, FS_Surjection
<1> QED
  BY <1>2, <1>3, FS_CardinalityType

LEMMA LatestUnique ==
  ASSUME NEW view, Ordered(view), NEW r1 \in Latest(view), NEW r2 \in Latest(view),
         r1.ip = r2.ip
  PROVE  r1 = r2
<1>1. r1 \in view /\ r2 \in view /\ r1.time \in Nat /\ r2.time \in Nat
  BY DEF Ordered, Latest, Row
<1>2. r1.time <= r2.time /\ r2.time <= r1.time
  BY <1>1 DEF Latest
<1> QED
  BY <1>1, <1>2 DEF Ordered

\* A page, or what arrives of it, shows an address once.
LEMMA PageCount ==
  ASSUME NEW view, Ordered(view), NEW page \in SUBSET Page(view)
  PROVE  /\ IsFiniteSet(page) /\ IsFiniteSet(Addresses(page))
         /\ Cardinality(Addresses(page)) = Cardinality(page)
<1>1. page \subseteq Latest(view) /\ page \subseteq view
  BY DEF Page, Latest
<1>2. IsFiniteSet(page)
  BY <1>1, FS_Subset DEF Ordered
<1>3. \A r1, r2 \in page : r1.ip = r2.ip => r1 = r2
  BY <1>1, LatestUnique
<1> QED
  BY <1>2, <1>3, AddressCount

\* Before a row that is listed at the reader's offset or after it there are as many
\* addresses as the offset.
LEMMA CountBefore ==
  ASSUME NEW view, Ordered(view), offset \in Nat,
         NEW row \in Latest(view), Position(view, row) >= offset,
         NEW front, front = {r \in Latest(view) : Position(view, r) < offset}
  PROVE  /\ IsFiniteSet(Addresses(front))
         /\ Cardinality(Addresses(front)) = offset
<1> DEFINE I == 0 .. offset - 1
           h == [r \in front |-> Position(view, r)]
<1>1. front \subseteq Latest(view) /\ IsFiniteSet(front)
  <2>1. front \subseteq view
    BY DEF Latest
  <2> QED
    BY <2>1, FS_Subset DEF Ordered
<1>2. \A r \in view : Position(view, r) \in Nat
  BY PositionType DEF Ordered
<1>3. h \in [front -> I]
  BY <1>2 DEF Latest
<1>4. h \in Injection(front, I)
  BY <1>1, <1>3, PositionUnique DEF Injection, IsInjective
<1>5. ASSUME NEW k \in I PROVE \E r \in front : h[r] = k
  <2>1. Position(view, row) \in Nat
    BY <1>2 DEF Latest
  <2>2. k \in 0 .. Position(view, row) - 1 /\ k < offset
    BY <2>1
  <2>3. PICK r \in Latest(view) : Position(view, r) = k
    BY <2>2, PositionsFilled
  <2> QED
    BY <2>2, <2>3
<1>6. h \in Surjection(front, I)
  BY <1>3, <1>5 DEF Surjection
<1> HIDE DEF h
<1>7. IsFiniteSet(I) /\ Cardinality(I) = offset
  <2>1. 0 \in Int /\ offset - 1 \in Int
    OBVIOUS
  <2>2. /\ IsFiniteSet(I)
        /\ Cardinality(I) = IF 0 > offset - 1 THEN 0 ELSE (offset - 1) - 0 + 1
    BY <2>1, FS_Interval
  <2> QED
    BY <2>2
<1>8. Cardinality(front) = offset
  BY <1>4, <1>6, <1>7, FS_Injection
<1>9. \A r1, r2 \in front : r1.ip = r2.ip => r1 = r2
  BY <1>1, LatestUnique
<1> QED
  BY <1>1, <1>8, <1>9, AddressCount

\* What is listed came while reading, or was in its place all along.
LEMMA CameStep ==
  TypeOK /\ FiniteTable /\ DatesInv /\ GoneInv /\ CameInv /\ [Next]_vars => CameInv'
<1> SUFFICES ASSUME TypeOK, FiniteTable, DatesInv, GoneInv, CameInv, [Next]_vars
             PROVE  CameInv'
  OBVIOUS
<1>1. CASE Read
  <2>1. /\ kept' = IF offset = 0 THEN Latest(View) ELSE kept \cap Latest(View)
        /\ came' = IF offset = 0 THEN {} ELSE came \cup (View \ last)
        /\ last' = View /\ pc = "reading"
    BY <1>1 DEF Read
  <2>2. IsFiniteSet(came')
    <3>1. IsFiniteSet(View \ last) /\ IsFiniteSet(came)
      BY ViewOrdered, FS_Difference DEF Ordered, CameInv
    <3> QED
      BY <2>1, <3>1, FS_Union, FS_EmptySet
  <2>3. ASSUME NEW row \in Latest(View), offset # 0 PROVE row \in came' \cup kept'
    <3>1. CASE row \notin last
      BY <2>1, <2>3, <3>1 DEF Latest
    <3>2. CASE row \in last
      <4>1. row \in Latest(last)
        <5> SUFFICES ASSUME NEW r \in last, r.ip = row.ip, ~(r.time <= row.time) PROVE FALSE
          BY <3>2 DEF Latest
        <5>1. row.time <= r.time
          BY <3>2 DEF TypeOK, Row
        <5>2. r \in View
          BY <2>1, <3>2, <5>1, NewerKept DEF Latest
        <5> QED
          BY <5>2 DEF Latest
      <4>2. row \in came \cup kept
        BY <2>3, <4>1 DEF CameInv, TypeOK
      <4> QED
        BY <2>1, <2>3, <4>2
    <3> QED
      BY <3>1, <3>2
  <2>4. Latest(View) \subseteq came' \cup kept'
    BY <2>1, <2>3
  <2> QED
    BY <2>1, <2>2, <2>4 DEF CameInv, Latest
<1>2. CASE UNCHANGED <<offset, walk>>
  BY <1>2 DEF walk, CameInv, Latest
<1> QED
  BY <1>1, <1>2 DEF Next, Report, Purge, Elapse, Start, Ask, Fail, vars, walk

\* A repetition means that the list has grown: as many addresses as the offset are before
\* the page, each of them shown already or come since.
LEMMA RepeatsCome ==
  ASSUME TypeOK, FiniteTable, WalkInv, CameInv, CameInv', Read,
         NEW again, again = Addresses(Page(View)) \cap seen, again # {}
  PROVE  offset + Cardinality(again) <= Cardinality(seen) + Cardinality(came')
<1> DEFINE front == {r \in Latest(View) : Position(View, r) < offset}
           A == Addresses(front)
           C == Addresses(came')
<1>0. /\ offset \in Nat /\ seen \subseteq Address
      /\ pc = "reading" /\ Ordered(View) /\ View \subseteq Row
  BY ViewOrdered, ViewType DEF Read, TypeOK
<1>1. Page(View) \subseteq Latest(View) /\ \A r \in Page(View) : Position(View, r) >= offset
  BY DEF Page
<1>2. \A r \in View : Position(View, r) \in Nat
  BY <1>0, PositionType
<1>3. PICK first \in Page(View) : first.ip \in again
  BY DEF Addresses
<1>4. IsFiniteSet(A) /\ Cardinality(A) = offset
  BY <1>0, <1>1, <1>3, CountBefore
<1>5. IsFiniteSet(again) /\ Cardinality(again) \in Nat /\ again \subseteq seen
  BY <1>0, AddressAssumption, FS_Subset, FS_CardinalityType
<1>6. A \cap again = {}
  <2> SUFFICES ASSUME NEW r1 \in front, NEW r2 \in Page(View), r1.ip = r2.ip PROVE FALSE
    BY DEF Addresses
  <2>1. r1 = r2
    BY <1>0, <1>1, LatestUnique
  <2>2. Position(View, r1) \in Nat
    BY <1>2 DEF Latest
  <2> QED
    BY <1>0, <1>1, <2>1, <2>2
<1>7. A \cup again \subseteq seen \cup C
  <2> SUFFICES ASSUME NEW row \in front, row.ip \notin C PROVE row.ip \in seen
    BY <1>5 DEF Addresses
  <2>1. /\ offset > 0 /\ offset' > 0
        /\ last' = View /\ kept' = kept \cap Latest(View)
    <3>1. Position(View, row) \in Nat /\ Position(View, row) < offset
      BY <1>2 DEF Latest
    <3>2. offset > 0 /\ offset # 0
      BY <1>0, <3>1
    <3> QED
      BY <1>0, <3>2, LimitAssumption DEF Read
  <2>2. row \in came' \cup kept'
    BY <2>1 DEF CameInv, Latest
  <2>3. row \in kept \cap Latest(View)
    BY <2>1, <2>2 DEF Addresses
  <2>4. Position(View, row) \in Nat
    BY <1>2 DEF Latest
  <2> QED
    BY <1>0, <2>1, <2>3, <2>4, PushedDown DEF WalkInv, CutInv
<1>8. IsFiniteSet(came') /\ IsFiniteSet(seen)
  BY <1>0, AddressAssumption, FS_Subset DEF CameInv
<1>9. IsFiniteSet(C) /\ Cardinality(C) \in Nat /\ Cardinality(C) <= Cardinality(came')
      /\ Cardinality(came') \in Nat /\ Cardinality(seen) \in Nat
  BY <1>8, AddressCount, FS_CardinalityType
<1> HIDE DEF front, A, C
<1>10. Cardinality(A \cup again) = offset + Cardinality(again)
  <2>1. Cardinality(A \cup again)
          = Cardinality(A) + Cardinality(again) - Cardinality(A \cap again)
    BY <1>4, <1>5, FS_Union
  <2>2. Cardinality(A \cap again) = 0
    BY <1>6, FS_EmptySet
  <2> QED
    BY <1>0, <1>4, <1>5, <2>1, <2>2
<1>11. /\ IsFiniteSet(seen \cup C) /\ Cardinality(seen \cup C) \in Nat
       /\ Cardinality(seen \cup C) <= Cardinality(seen) + Cardinality(C)
  <2>1. /\ IsFiniteSet(seen \cup C)
        /\ Cardinality(seen \cup C) = Cardinality(seen) + Cardinality(C) - Cardinality(seen \cap C)
    BY <1>8, <1>9, FS_Union
  <2>2. Cardinality(seen \cap C) \in Nat /\ Cardinality(seen \cup C) \in Nat
    BY <1>8, <2>1, FS_Intersection, FS_CardinalityType
  <2> QED
    BY <1>9, <2>1, <2>2
<1>12. Cardinality(A \cup again) <= Cardinality(seen \cup C)
  BY <1>7, <1>11, FS_Subset
<1> QED
  BY <1>0, <1>5, <1>9, <1>10, <1>11, <1>12

LEMMA PaidStep ==
  TypeOK /\ FiniteTable /\ WalkInv /\ PaidInv /\ [Next]_vars => PaidInv'
<1> SUFFICES ASSUME TypeOK, FiniteTable, WalkInv, PaidInv, [Next]_vars PROVE PaidInv'
  OBVIOUS
<1>1. CameInv'
  BY CameStep DEF WalkInv, PaidInv
<1>2. CASE Read
  <2>0. PICK page \in Arriving(Page(View)) :
          /\ seen' = seen \cup Addresses(page)
          /\ repeats' = repeats + Cardinality(Addresses(page) \cap seen)
          /\ pc' = IF Cardinality(page) = Limit THEN "asking" ELSE "ended"
    BY <1>2 DEF Read
  <2> DEFINE shown == Addresses(page)
             again == shown \cap seen
             whole == Addresses(Page(View)) \cap seen
  <2>1. /\ offset \in Nat /\ repeats \in Nat /\ seen \subseteq Address
        /\ Limit \in Nat
        /\ Cardinality(seen) \in Nat /\ IsFiniteSet(seen)
    BY AddressAssumption, LimitAssumption, FS_Subset, FS_CardinalityType DEF TypeOK
  <2>2. /\ IsFiniteSet(shown) /\ Cardinality(shown) \in Nat
        /\ Cardinality(shown) = Cardinality(page)
    BY ViewOrdered, PageType, PageCount, FS_CardinalityType
  <2>3. /\ repeats' = repeats + Cardinality(again) /\ seen' = seen \cup shown
        /\ offset' = offset + Limit
        /\ pc = "reading"
        /\ pc' = IF Cardinality(page) = Limit THEN "asking" ELSE "ended"
    BY <1>2, <2>0 DEF Read
  <2>4. repeats + Cardinality(seen) = offset
    BY <2>3 DEF PaidInv, CountInv
  <2> HIDE DEF shown
  <2>5. Cardinality(again) \in Nat /\ Cardinality(again) = Cardinality(seen \cap shown)
    <3>1. again = seen \cap shown
      OBVIOUS
    <3> QED
      BY <2>1, <3>1, FS_Intersection, FS_CardinalityType
  <2>6. Cardinality(seen') = Cardinality(seen) + Cardinality(shown) - Cardinality(again)
    BY <2>1, <2>2, <2>3, <2>5, FS_Union
  <2>7. CountInv'
    BY <2>1, <2>2, <2>3, <2>4, <2>5, <2>6 DEF CountInv
  <2>8. Cardinality(came') \in Nat
    BY <1>1, FS_CardinalityType DEF CameInv
  <2>9. repeats' <= Cardinality(came')
    <3>1. CASE again # {}
      <4>1. again \subseteq whole
        BY PageType DEF Addresses, shown
      <4>2. IsFiniteSet(whole)
        BY <2>1, FS_Subset
      <4>3. Cardinality(again) <= Cardinality(whole) /\ Cardinality(whole) \in Nat
        BY <4>1, <4>2, FS_Subset, FS_CardinalityType
      <4>4. offset + Cardinality(whole) <= Cardinality(seen) + Cardinality(came')
        BY <1>1, <1>2, <3>1, <4>1, RepeatsCome DEF PaidInv
      <4> HIDE DEF again, whole
      <4> QED
        BY <2>1, <2>3, <2>4, <2>5, <2>8, <4>3, <4>4
    <3>2. CASE again = {} /\ offset = 0
      <4>1. repeats' = 0
        <5>1. repeats = 0
          BY <2>1, <2>4, <3>2
        <5>2. Cardinality(again) = 0
          BY <3>2, FS_EmptySet
        <5> HIDE DEF again
        <5> QED
          BY <2>3, <5>1, <5>2
      <4> QED
        BY <2>8, <4>1
    <3>3. CASE again = {} /\ offset # 0
      <4>1. repeats' = repeats
        BY <2>1, <2>3, <3>3, FS_EmptySet
      <4>2. came \subseteq came'
        BY <1>2, <3>3 DEF Read
      <4>3. Cardinality(came) <= Cardinality(came') /\ Cardinality(came) \in Nat
        BY <1>1, <4>2, FS_Subset, FS_CardinalityType DEF CameInv, PaidInv
      <4> QED
        BY <2>1, <2>8, <4>1, <4>3 DEF PaidInv, RepeatsPaid
    <3> QED
      BY <3>1, <3>2, <3>3
  <2> QED
    BY <1>1, <2>7, <2>9 DEF PaidInv, RepeatsPaid
<1>3. CASE UNCHANGED <<offset, walk>> /\ (pc' # "ended" => pc # "ended")
  BY <1>1, <1>3 DEF walk, PaidInv, CountInv, RepeatsPaid
<1>4. Read \/ (UNCHANGED <<offset, walk>> /\ (pc' # "ended" => pc # "ended"))
  BY DEF Next, Report, Purge, Elapse, Start, Ask, Fail, vars, walk
<1> QED
  BY <1>2, <1>3, <1>4

\* Paging without a cursor repeats an address at most once for each row that came while
\* it was read (RepeatsPaid), whatever reports, the retention policy and the clock do
\* between two pages.
THEOREM RepeatsArePaid == Spec => []RepeatsPaid
<1>1. Init => PaidInv
  <2> SUFFICES ASSUME Init PROVE PaidInv
    OBVIOUS
  <2>1. Cardinality({}) = 0 /\ IsFiniteSet({})
    BY FS_EmptySet
  <2> QED
    BY <2>1 DEF Init, PaidInv, CountInv, CameInv, RepeatsPaid
<1>2. PaidInv => RepeatsPaid
  BY DEF PaidInv
<1> QED
  BY <1>1, <1>2, InPlaceInit, PaidStep, FiniteStep, WalkInvariant, TypeCorrect, PTL DEF Spec

----------------------------------------------------------------------------
(* The summary's total *)

\* The addresses that reported from one of the countries, each with its country.
Homes(view, countries) ==
  {<<r.ip, r.country>> : r \in {row \in view : row.country \in countries}}

Picked(s) == CHOOSE x \in s : TRUE

\* The total is summed up country by country, in an order of its own.
Summing(view, sum) ==
  [s \in SUBSET Country |->
     IF s = {} THEN 0 ELSE Deployments(view, Picked(s)) + sum[s \ {Picked(s)}]]

LEMMA TotalIsSum ==
  ASSUME NEW view
  PROVE  TotalDeployments(view) = (CHOOSE sum : sum = Summing(view, sum))[Country]
BY Zenon DEF TotalDeployments, MapThenSumSet, MapThenFoldSet, Summing, Picked

LEMMA HomesType ==
  ASSUME NEW view, IsFiniteSet(view), NEW T
  PROVE  IsFiniteSet(Homes(view, T)) /\ Cardinality(Homes(view, T)) \in Nat
<1> DEFINE rows == {row \in view : row.country \in T}
           f == [r \in rows |-> <<r.ip, r.country>>]
<1>1. f \in Surjection(rows, Homes(view, T))
  BY DEF Surjection, Homes
<1>2. IsFiniteSet(rows)
  BY FS_Subset
<1> QED
  BY <1>1, <1>2, FS_Surjection, FS_CardinalityType

\* Leaving out the country loses something only if an address has two.
LEMMA WithoutCountry ==
  ASSUME NEW rows, NEW H, H = {<<r.ip, r.country>> : r \in rows}, IsFiniteSet(H)
  PROVE  Cardinality(Addresses(rows)) = Cardinality(H)
           <=> \A r1, r2 \in rows : r1.ip = r2.ip => r1.country = r2.country
<1> DEFINE f == [h \in H |-> h[1]]
<1>1. /\ \A r \in rows : <<r.ip, r.country>> \in H /\ f[<<r.ip, r.country>>] = r.ip
      /\ \A h \in H : \E r \in rows : h = <<r.ip, r.country>> /\ f[h] = r.ip
  OBVIOUS
<1>2. f \in [H -> Addresses(rows)]
  BY DEF Addresses
<1> HIDE DEF f
<1>3. f \in Surjection(H, Addresses(rows))
  <2>1. ASSUME NEW ip \in Addresses(rows) PROVE \E h \in H : f[h] = ip
    <3>1. PICK r \in rows : ip = r.ip
      BY DEF Addresses
    <3> QED
      BY <1>1, <3>1
  <2> QED
    BY <1>2, <2>1 DEF Surjection
<1>4. ASSUME \A r1, r2 \in rows : r1.ip = r2.ip => r1.country = r2.country
      PROVE  f \in Injection(H, Addresses(rows))
  BY <1>1, <1>2, <1>4 DEF Injection, IsInjective
<1>5. ASSUME f \in Injection(H, Addresses(rows)), NEW r1 \in rows, NEW r2 \in rows, r1.ip = r2.ip
      PROVE  r1.country = r2.country
  <2>1. <<r1.ip, r1.country>> = <<r2.ip, r2.country>>
    <3>1. \A g, h \in H : f[g] = f[h] => g = h
      BY <1>5 DEF Injection, IsInjective
    <3> DEFINE h1 == <<r1.ip, r1.country>>
               h2 == <<r2.ip, r2.country>>
    <3>2. h1 \in H /\ h2 \in H /\ f[h1] = r1.ip /\ f[h2] = r2.ip
      BY <1>1
    <3> HIDE DEF h1, h2
    <3>3. h1 = h2
      BY <1>5, <3>1, <3>2
    <3> QED
      BY <3>3 DEF h1, h2
  <2> QED
    BY <2>1
<1>6. Cardinality(Addresses(rows)) = Cardinality(H) <=> f \in Injection(H, Addresses(rows))
  BY <1>3, FS_Surjection
<1> QED
  BY <1>4, <1>5, <1>6

\* A country's deployments are its addresses.
LEMMA OneCountry ==
  ASSUME NEW view, IsFiniteSet(view), NEW c
  PROVE  Deployments(view, c) = Cardinality(Homes(view, {c}))
<1> DEFINE rows == {row \in view : row.country = c}
<1>1. Homes(view, {c}) = {<<r.ip, r.country>> : r \in rows}
  BY DEF Homes
<1>2. \A r1, r2 \in rows : r1.ip = r2.ip => r1.country = r2.country
  OBVIOUS
<1>3. IsFiniteSet(Homes(view, {c}))
  BY HomesType
<1> HIDE DEF rows
<1>4. Cardinality(Addresses(rows)) = Cardinality(Homes(view, {c}))
  BY <1>1, <1>2, <1>3, WithoutCountry
<1> QED
  BY <1>4 DEF Deployments, rows

\* One country more adds its own deployments.
LEMMA HomesSplit ==
  ASSUME NEW view, IsFiniteSet(view), NEW T, NEW c \in T
  PROVE  Cardinality(Homes(view, T))
           = Deployments(view, c) + Cardinality(Homes(view, T \ {c}))
<1> DEFINE H1 == Homes(view, {c})
           H2 == Homes(view, T \ {c})
<1>1. Homes(view, T) = H1 \cup H2 /\ H1 \cap H2 = {}
  BY DEF Homes
<1>2. /\ IsFiniteSet(H1) /\ Cardinality(H1) \in Nat
      /\ IsFiniteSet(H2) /\ Cardinality(H2) \in Nat
  BY HomesType
<1>3. Deployments(view, c) = Cardinality(H1)
  BY OneCountry
<1> HIDE DEF H1, H2
<1>4. Cardinality(H1 \cup H2) = Cardinality(H1) + Cardinality(H2) - Cardinality(H1 \cap H2)
  BY <1>2, FS_Union
<1>5. Cardinality(H1 \cap H2) = 0
  BY <1>1, FS_EmptySet
<1>6. Cardinality(Homes(view, T)) = Cardinality(H1) + Cardinality(H2)
  BY <1>1, <1>2, <1>4, <1>5
<1> QED
  BY <1>3, <1>6 DEF H2

\* Whatever the order of the countries, the sum counts each address once for each of
\* its countries.
LEMMA TotalIsHomes ==
  ASSUME NEW view, IsFiniteSet(view)
  PROVE  TotalDeployments(view) = Cardinality(Homes(view, Country))
<1> DEFINE homes == [T \in SUBSET Country |-> Cardinality(Homes(view, T))]
           sum == CHOOSE g : g = Summing(view, g)
<1>1. Cardinality(Homes(view, {})) = 0
  BY FS_EmptySet DEF Homes
<1>2. ASSUME NEW T \in SUBSET Country, T # {}
      PROVE  Picked(T) \in T /\ T \ {Picked(T)} \in SUBSET Country
  BY <1>2 DEF Picked
<1>3. ASSUME NEW T \in SUBSET Country
      PROVE  homes[T] = IF T = {} THEN 0
                        ELSE Deployments(view, Picked(T)) + homes[T \ {Picked(T)}]
  <2>1. CASE T = {}
    BY <1>1, <2>1
  <2>2. CASE T # {}
    <3>1. Cardinality(Homes(view, T))
            = Deployments(view, Picked(T)) + Cardinality(Homes(view, T \ {Picked(T)}))
      BY <1>2, <2>2, HomesSplit
    <3> QED
      BY <1>2, <2>2, <3>1
  <2> QED
    BY <2>1, <2>2
<1>4. homes = Summing(view, homes)
  BY <1>3 DEF Summing
<1> HIDE DEF homes
<1>5. sum = Summing(view, sum)
  BY <1>4
<1> HIDE DEF sum
<1>6. ASSUME NEW T \in SUBSET Country
      PROVE  sum[T] = IF T = {} THEN 0
                      ELSE Deployments(view, Picked(T)) + sum[T \ {Picked(T)}]
  BY <1>5 DEF Summing
<1>7. sum[Country] = homes[Country]
  <2> DEFINE R == StrictSubsetOrdering(Country)
             Wrong == {T \in SUBSET Country : sum[T] # homes[T]}
  <2> SUFFICES ASSUME Wrong # {} PROVE FALSE
    OBVIOUS
  <2>1. IsWellFoundedOn(R, SUBSET Country)
    BY CountryAssumption, FS_StrictSubsetOrderingWellFounded, FS_FiniteSubsetsOfFinite
  <2>2. PICK T \in Wrong : \A U \in Wrong : ~(<<U, T>> \in R)
    <3> HIDE DEF R
    <3>1. Wrong \subseteq SUBSET Country
      OBVIOUS
    <3> HIDE DEF Wrong
    <3> QED
      BY <2>1, <3>1, WFMin
  <2>3. T # {}
    BY <1>3, <1>6
  <2>4. T \ {Picked(T)} \notin Wrong
    BY <1>2, <2>2, <2>3 DEF StrictSubsetOrdering
  <2>5. sum[T \ {Picked(T)}] = homes[T \ {Picked(T)}]
    BY <1>2, <2>3, <2>4
  <2> QED
    BY <1>3, <1>6, <2>3, <2>5
<1>8. TotalDeployments(view) = sum[Country]
  BY TotalIsSum DEF sum
<1> QED
  BY <1>7, <1>8 DEF homes

\* The summary's total is too large just when an address reported from two countries
\* (TotalCounts), for any table and any filter.
THEOREM TotalRight == Spec => []TotalCounts
<1>1. TypeOK /\ FiniteTable => TotalCounts
  <2> SUFFICES ASSUME TypeOK, FiniteTable PROVE TotalCounts
    OBVIOUS
  <2> DEFINE view == View
  <2>1. view \subseteq Row /\ IsFiniteSet(view)
    BY ViewOrdered DEF Ordered
  <2> HIDE DEF view
  <2>2. Homes(view, Country) = {<<r.ip, r.country>> : r \in view}
    BY <2>1 DEF Homes, Row
  <2>3. /\ IsFiniteSet(Homes(view, Country))
        /\ TotalDeployments(view) = Cardinality(Homes(view, Country))
    BY <2>1, HomesType, TotalIsHomes
  <2>4. Cardinality(Addresses(view)) = Cardinality(Homes(view, Country))
          <=> \A r1, r2 \in view : r1.ip = r2.ip => r1.country = r2.country
    BY <2>2, <2>3, WithoutCountry
  <2> QED
    BY <2>3, <2>4 DEF TotalCounts, view
<1> QED
  BY <1>1, InPlaceInit, FiniteStep, TypeCorrect, PTL DEF Spec

=============================================================================
