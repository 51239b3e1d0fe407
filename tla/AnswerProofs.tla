----------------------------- MODULE AnswerProofs -----------------------------
(***************************************************************************)
(* What is found and shown: theorems about the shopping preview, for any   *)
(* catalogue, queries, filters, limits and bounds, about what a turn is    *)
(* grounded on, for any history, scope, knowledge and service, about the   *)
(* pages that show runs and documents, for any records and times, and      *)
(* about all the components behind the pages together.                     *)
(***************************************************************************)
EXTENDS ComponentProofs

-----------------------------------------------------------------------------
(* Lists in an order *)

\* The elements of S that R puts before i.
PutBefore(S, R, i) == {j \in S : <<j, i>> \in R}

\* R is a strict order of all of S.
OrdersAll(R, S) ==
  /\ \A i \in S : <<i, i>> \notin R
  /\ \A i, j, k \in S : <<i, j>> \in R /\ <<j, k>> \in R => <<i, k>> \in R
  /\ \A i, j \in S : i # j => <<i, j>> \in R \/ <<j, i>> \in R

\* In a finite set that is ordered, an element comes before another just if fewer come before it.
LEMMA FewerAhead ==
  ASSUME NEW S, IsFiniteSet(S), NEW R, OrdersAll(R, S)
  PROVE  /\ \A i \in S : Cardinality(PutBefore(S, R, i)) \in 0..(Cardinality(S) - 1)
         /\ \A i, j \in S : <<i, j>> \in R <=> Cardinality(PutBefore(S, R, i)) < Cardinality(PutBefore(S, R, j))
<1>0. \A i \in S : IsFiniteSet(PutBefore(S, R, i)) /\ Cardinality(PutBefore(S, R, i)) \in Nat
  BY FS_Subset, FS_CardinalityType DEF PutBefore
<1>1. ASSUME NEW i \in S
      PROVE  Cardinality(PutBefore(S, R, i)) \in 0..(Cardinality(S) - 1)
  <2>1. PutBefore(S, R, i) \in SUBSET (S \ {i})
    BY DEF PutBefore, OrdersAll
  <2>2. IsFiniteSet(S \ {i}) /\ Cardinality(S \ {i}) = Cardinality(S) - 1
    BY FS_RemoveElement
  <2>3. Cardinality(PutBefore(S, R, i)) <= Cardinality(S) - 1
    BY <2>1, <2>2, FS_Subset
  <2> QED
    BY <1>0, <2>3, FS_CardinalityType
<1>2. ASSUME NEW i \in S, NEW j \in S, <<i, j>> \in R
      PROVE  Cardinality(PutBefore(S, R, i)) < Cardinality(PutBefore(S, R, j))
  <2>1. PutBefore(S, R, i) \in SUBSET PutBefore(S, R, j)
    BY <1>2 DEF PutBefore, OrdersAll
  <2>2. i \in PutBefore(S, R, j) /\ i \notin PutBefore(S, R, i)
    BY <1>2 DEF PutBefore, OrdersAll
  <2>3. /\ Cardinality(PutBefore(S, R, i)) <= Cardinality(PutBefore(S, R, j))
        /\ Cardinality(PutBefore(S, R, i)) # Cardinality(PutBefore(S, R, j))
    BY <1>0, <2>1, <2>2, FS_Subset
  <2> QED
    BY <1>0, <2>3
<1>3. ASSUME NEW i \in S, NEW j \in S, Cardinality(PutBefore(S, R, i)) < Cardinality(PutBefore(S, R, j))
      PROVE  <<i, j>> \in R
  <2>1. i # j /\ <<j, i>> \notin R
    BY <1>0, <1>2, <1>3
  <2> QED
    BY <2>1 DEF OrdersAll
<1> QED
  BY <1>1, <1>2, <1>3

\* And for each number below its size there is the element that has as many before it.
LEMMA EachPlaceIsTaken ==
  ASSUME NEW S, IsFiniteSet(S), NEW R, OrdersAll(R, S), NEW n \in 0..(Cardinality(S) - 1)
  PROVE  \E i \in S : Cardinality(PutBefore(S, R, i)) = n
<1> DEFINE places == 0..(Cardinality(S) - 1)
           f == [i \in S |-> Cardinality(PutBefore(S, R, i))]
<1>1. Cardinality(S) \in Nat
  BY FS_CardinalityType
<1>2. IsFiniteSet(places) /\ Cardinality(places) = Cardinality(S)
  BY <1>1, FS_Interval
<1>3. f \in [S -> places]
  BY FewerAhead
<1>4. ASSUME NEW i \in S, NEW j \in S, f[i] = f[j]
      PROVE  i = j
  <2>1. Cardinality(PutBefore(S, R, i)) = Cardinality(PutBefore(S, R, j))
    BY <1>4
  <2>2. Cardinality(PutBefore(S, R, i)) \in Nat
    BY FewerAhead
  <2>3. <<i, j>> \notin R /\ <<j, i>> \notin R
    BY <2>1, <2>2, FewerAhead
  <2> QED
    BY <2>3 DEF OrdersAll
<1>5. f \in Injection(S, places)
  BY <1>3, <1>4 DEF Injection, IsInjective
<1> HIDE DEF f, places
<1>6. f \in Surjection(S, places)
  BY <1>2, <1>5, FS_Injection
<1>7. \E i \in S : f[i] = n
  BY <1>6 DEF Surjection, places
<1> QED
  BY <1>7 DEF f

\* A list that has at each place an element with as many ahead of it as come before that place:
\* it has each element once, and in the order of R.
IsRanked(s, S, R) ==
  /\ s \in Seq(S) /\ Len(s) = Cardinality(S) /\ DOMAIN s = 1..Cardinality(S)
  /\ \A n \in DOMAIN s : Cardinality(PutBefore(S, R, s[n])) = n - 1
  /\ \A m, n \in DOMAIN s : m < n <=> <<s[m], s[n]>> \in R
  /\ \A i \in S : \E n \in DOMAIN s : s[n] = i

\* Whatever is chosen for each place, the list is so.
LEMMA RankedList ==
  ASSUME NEW S, IsFiniteSet(S), NEW R, OrdersAll(R, S),
         NEW s, s = [n \in 1..Cardinality(S) |-> s[n]],
         \A n \in 1..Cardinality(S) : s[n] \in S /\ Cardinality(PutBefore(S, R, s[n])) = n - 1
  PROVE  IsRanked(s, S, R)
<1>1. Cardinality(S) \in Nat
  BY FS_CardinalityType
<1>2. DOMAIN s = 1..Cardinality(S)
  OBVIOUS
<1>3. s \in [1..Cardinality(S) -> S]
  OBVIOUS
<1>4. s \in Seq(S) /\ Len(s) = Cardinality(S)
  BY <1>1, <1>2, <1>3
<1>5. ASSUME NEW m \in DOMAIN s, NEW n \in DOMAIN s
      PROVE  m < n <=> <<s[m], s[n]>> \in R
  <2>1. s[m] \in S /\ s[n] \in S /\ Cardinality(PutBefore(S, R, s[m])) = m - 1 /\ Cardinality(PutBefore(S, R, s[n])) = n - 1
    BY <1>2
  <2>2. m \in Int /\ n \in Int
    BY <1>2
  <2> QED
    BY <2>1, <2>2, FewerAhead
<1>6. ASSUME NEW i \in S
      PROVE  \E n \in DOMAIN s : s[n] = i
  <2> DEFINE n == Cardinality(PutBefore(S, R, i)) + 1
  <2>1. Cardinality(PutBefore(S, R, i)) \in 0..(Cardinality(S) - 1)
    BY FewerAhead
  <2>2. n \in 1..Cardinality(S) /\ n - 1 = Cardinality(PutBefore(S, R, i))
    BY <1>1, <2>1
  <2> HIDE DEF n
  <2>3. s[n] \in S /\ Cardinality(PutBefore(S, R, s[n])) = Cardinality(PutBefore(S, R, i))
    BY <2>2
  <2>4. <<s[n], i>> \notin R /\ <<i, s[n]>> \notin R
    BY <2>1, <2>3, FewerAhead
  <2>5. s[n] = i
    BY <2>3, <2>4 DEF OrdersAll
  <2> QED
    BY <1>2, <2>2, <2>5
<1> QED
  BY <1>2, <1>4, <1>5, <1>6 DEF IsRanked

\* The elements of a list.
Shown(cards) == {cards[n] : n \in DOMAIN cards}

\* A list of different elements has as many as it has places.
LEMMA AsManyAsPlaces ==
  ASSUME NEW k \in Nat, NEW s, DOMAIN s = 1..k, \A m, n \in 1..k : s[m] = s[n] => m = n
  PROVE  IsFiniteSet(Shown(s)) /\ Cardinality(Shown(s)) = k
<1> DEFINE T == Shown(s)
           f == [n \in 1..k |-> s[n]]
<1>1. IsFiniteSet(1..k) /\ Cardinality(1..k) = k
  BY FS_Interval
<1>2. f \in [1..k -> T] /\ \A t \in T : \E n \in 1..k : f[n] = t
  BY DEF Shown
<1>3. \A m, n \in 1..k : f[m] = f[n] => m = n
  OBVIOUS
<1>4. f \in Surjection(1..k, T) /\ f \in Injection(1..k, T)
  BY <1>2, <1>3 DEF Surjection, Injection, IsInjective
<1> HIDE DEF f, T
<1>5. IsFiniteSet(T) /\ Cardinality(T) = k
  BY <1>1, <1>4, FS_Surjection
<1> QED
  BY <1>5 DEF T

-----------------------------------------------------------------------------
(* The shopping preview *)

\* What the assumption says of one product.
ProductFacts ==
  /\ IsFiniteSet(ProductIds) /\ ProductIds \subseteq Nat \ {0}
  /\ \A i \in ProductIds :
       /\ Catalog[i].price \in 0..HighestPrice /\ Catalog[i].year \in Nat /\ Catalog[i].name \in Int
       /\ Catalog[i].weight \in Nat /\ Catalog[i].battery \in Nat \cup {NoValue}
       /\ Catalog[i].ram \in (Nat \ {0}) \cup {NoValue} /\ Catalog[i].storage \in (Nat \ {0}) \cup {NoValue}
       /\ Catalog[i].words \subseteq QueryWords

\* The catalogue is as it is assumed to be.
LEMMA CatalogFacts == ProductFacts
<1>1. IsFiniteSet(ProductIds) /\ ProductIds = 1..Cardinality(ProductIds)
  BY CatalogAssumption
<1>2. Cardinality(ProductIds) \in Nat
  BY <1>1, FS_CardinalityType
<1>3. ProductIds \subseteq Nat \ {0}
  BY <1>1, <1>2
<1> QED
  BY <1>1, <1>3, CatalogAssumption DEF ProductFacts

\* The numbers of one product.
LEMMA ProductNumbers ==
  ASSUME NEW i \in ProductIds
  PROVE  /\ i \in Int /\ i > 0 /\ i # 0
         /\ Catalog[i].price \in Int /\ Catalog[i].price >= 0 /\ Catalog[i].price <= HighestPrice
         /\ Catalog[i].year \in Int /\ Catalog[i].name \in Int
         /\ Catalog[i].weight \in Int /\ Catalog[i].weight >= 0
         /\ Catalog[i].battery \in Int /\ (HasSpec(i, "battery") => Catalog[i].battery >= 0)
         /\ Catalog[i].ram \in Int /\ (HasSpec(i, "ram") => Catalog[i].ram > 0)
         /\ Catalog[i].storage \in Int /\ (HasSpec(i, "storage") => Catalog[i].storage > 0)
<1>1. /\ i \in Nat \ {0}
      /\ Catalog[i].price \in 0..HighestPrice /\ Catalog[i].year \in Nat /\ Catalog[i].name \in Int
      /\ Catalog[i].weight \in Nat /\ Catalog[i].battery \in Nat \cup {NoValue}
      /\ Catalog[i].ram \in (Nat \ {0}) \cup {NoValue} /\ Catalog[i].storage \in (Nat \ {0}) \cup {NoValue}
  BY CatalogFacts DEF ProductFacts
<1>2. NoValue \in Int /\ HighestPrice \in Int
  BY DEF NoValue, HighestPrice
<1>3. HasSpec(i, "battery") => Catalog[i].battery \in Nat
  BY <1>1 DEF HasSpec
<1>4. HasSpec(i, "ram") => Catalog[i].ram \in Nat \ {0}
  BY <1>1 DEF HasSpec
<1>5. HasSpec(i, "storage") => Catalog[i].storage \in Nat \ {0}
  BY <1>1 DEF HasSpec
<1> HIDE DEF HasSpec
<1>6. i \in Int /\ i > 0 /\ i # 0
  BY <1>1
<1>7. Catalog[i].price \in Int /\ Catalog[i].price >= 0 /\ Catalog[i].price <= HighestPrice
  BY <1>1, <1>2
<1>8. Catalog[i].battery \in Int /\ Catalog[i].ram \in Int /\ Catalog[i].storage \in Int
  BY <1>1, <1>2
<1> QED
  BY <1>1, <1>3, <1>4, <1>5, <1>6, <1>7, <1>8

\* Of keys of three numbers the first that differs decides ...
LEMMA ThreeNumbers ==
  ASSUME NEW left, NEW right, DOMAIN left = 1..3
  PROVE  ComesFirst(left, right) <=>
           \/ left[1] < right[1]
           \/ left[2] < right[2] /\ left[1] = right[1]
           \/ left[3] < right[3] /\ left[1] = right[1] /\ left[2] = right[2]
<1>1. 1..0 = {} /\ 1..1 = {1} /\ 1..2 = {1, 2} /\ 1..3 = {1, 2, 3}
  OBVIOUS
<1>2. ComesFirst(left, right) <=>
        \E n \in {1, 2, 3} : left[n] < right[n] /\ \A m \in 1..(n - 1) : left[m] = right[m]
  BY <1>1 DEF ComesFirst
<1> QED
  BY <1>1, <1>2

\* ... and so it is of five.
LEMMA FiveNumbers ==
  ASSUME NEW left, NEW right, DOMAIN left = 1..5
  PROVE  ComesFirst(left, right) <=>
           \/ left[1] < right[1]
           \/ left[2] < right[2] /\ left[1] = right[1]
           \/ left[3] < right[3] /\ left[1] = right[1] /\ left[2] = right[2]
           \/ left[4] < right[4] /\ left[1] = right[1] /\ left[2] = right[2] /\ left[3] = right[3]
           \/ left[5] < right[5] /\ left[1] = right[1] /\ left[2] = right[2] /\ left[3] = right[3] /\ left[4] = right[4]
<1>1. 1..0 = {} /\ 1..1 = {1} /\ 1..2 = {1, 2} /\ 1..3 = {1, 2, 3} /\ 1..4 = {1, 2, 3, 4} /\ 1..5 = {1, 2, 3, 4, 5}
  OBVIOUS
<1>2. ComesFirst(left, right) <=>
        \E n \in {1, 2, 3, 4, 5} : left[n] < right[n] /\ \A m \in 1..(n - 1) : left[m] = right[m]
  BY <1>1 DEF ComesFirst
<1> QED
  BY <1>1, <1>2

\* The pairs of S whose first has the smaller key.
ByKey(S, key) == {p \in S \X S : ComesFirst(key[p[1]], key[p[2]])}

\* Where the keys order S, Ordered has each element once, and in that order.
LEMMA OrderedIsRanked ==
  ASSUME NEW S, IsFiniteSet(S), NEW key, OrdersAll(ByKey(S, key), S)
  PROVE  IsRanked(Ordered(S, key), S, ByKey(S, key))
<1> DEFINE R == ByKey(S, key)
           s == Ordered(S, key)
<1>1. \A i \in S : {j \in S : ComesFirst(key[j], key[i])} = PutBefore(S, R, i)
  BY DEF PutBefore, ByKey
<1>2. ASSUME NEW n \in 1..Cardinality(S)
      PROVE  s[n] \in S /\ Cardinality(PutBefore(S, R, s[n])) = n - 1
  <2>1. Cardinality(S) \in Nat
    BY FS_CardinalityType
  <2>2. n - 1 \in 0..(Cardinality(S) - 1)
    BY <2>1
  <2>3. \E i \in S : Cardinality(PutBefore(S, R, i)) = n - 1
    BY <2>2, EachPlaceIsTaken
  <2>4. \E i \in S : Cardinality({j \in S : ComesFirst(key[j], key[i])}) = n - 1
    BY <1>1, <2>3
  <2>5. s[n] = CHOOSE i \in S : Cardinality({j \in S : ComesFirst(key[j], key[i])}) = n - 1
    BY DEF Ordered
  <2>6. s[n] \in S /\ Cardinality({j \in S : ComesFirst(key[j], key[s[n]])}) = n - 1
    BY <2>4, <2>5
  <2> QED
    BY <1>1, <2>6
<1>3. s = [n \in 1..Cardinality(S) |-> s[n]]
  BY DEF Ordered
<1> HIDE DEF s, R
<1>4. OrdersAll(R, S)
  BY DEF R
<1>5. IsRanked(s, S, R)
  BY <1>2, <1>3, <1>4, RankedList
<1> QED
  BY <1>5 DEF s, R

\* The smaller of two numbers.
LEMMA SmallerOfTwo ==
  \A a, b \in Nat : \E k \in 0..a : (a < b /\ k = a) \/ (b <= a /\ k = b)
<1> SUFFICES ASSUME NEW a \in Nat, NEW b \in Nat
             PROVE  \E k \in 0..a : (a < b /\ k = a) \/ (b <= a /\ k = b)
  OBVIOUS
<1>1. CASE a < b
  BY <1>1
<1>2. CASE b <= a
  BY <1>2
<1> QED
  BY <1>1, <1>2

\* A list that is cut is its first part, whole if it is not longer than that.
LEMMA CutList ==
  ASSUME NEW E, NEW s \in Seq(E), NEW limit \in Nat
  PROVE  /\ Cut(s, limit) \in Seq(E)
         /\ Len(Cut(s, limit)) = IF Len(s) < limit THEN Len(s) ELSE limit
         /\ DOMAIN Cut(s, limit) = 1..Len(Cut(s, limit)) /\ Len(Cut(s, limit)) <= Len(s)
         /\ \A n \in DOMAIN Cut(s, limit) : n \in DOMAIN s /\ Cut(s, limit)[n] = s[n]
         /\ Len(s) <= limit => Cut(s, limit) = s
<1>0. Len(s) \in Nat /\ DOMAIN s = 1..Len(s)
  OBVIOUS
<1>1. PICK k \in 0..Len(s) : (Len(s) < limit /\ k = Len(s)) \/ (limit <= Len(s) /\ k = limit)
  BY <1>0, SmallerOfTwo
<1>2. /\ SubSeq(s, 1, k) \in Seq(E) /\ Len(SubSeq(s, 1, k)) = k /\ DOMAIN SubSeq(s, 1, k) = 1..k
      /\ \A n \in 1..k : SubSeq(s, 1, k)[n] = s[n]
  OBVIOUS
<1>3. Cut(s, limit) = SubSeq(s, 1, k)
  BY <1>1 DEF Cut
<1>4. Len(s) <= limit => k = Len(s)
  <2> DEFINE l == Len(s)
  <2>1. l \in Nat /\ ((l < limit /\ k = l) \/ (limit <= l /\ k = limit))
    BY <1>0, <1>1
  <2> HIDE DEF l
  <2>2. l <= limit => k = l
    BY ONLY <2>1, limit \in Nat
  <2> QED
    BY <2>2 DEF l
<1>5. Len(s) <= limit => Cut(s, limit) = s
  BY <1>2, <1>3, <1>4
<1>6. \A n \in 1..k : n \in DOMAIN s
  BY <1>0
<1>7. /\ Cut(s, limit) \in Seq(E) /\ Len(Cut(s, limit)) = k /\ DOMAIN Cut(s, limit) = 1..k
      /\ \A n \in 1..k : Cut(s, limit)[n] = s[n]
  BY <1>2, <1>3
<1>8. k <= Len(s)
  BY <1>0
<1> HIDE DEF Cut
<1> QED
  BY ONLY <1>1, <1>5, <1>6, <1>7, <1>8

\* Of a ranked list that is cut: each element once and in order, all there are if there are fewer
\* than it may show, and none left out that comes before one shown.
LEMMA CutOfRanked ==
  ASSUME NEW S, IsFiniteSet(S), NEW R, OrdersAll(R, S), NEW o, IsRanked(o, S, R), NEW limit \in Nat
  PROVE  /\ Shown(Cut(o, limit)) \subseteq S /\ Cardinality(Shown(Cut(o, limit))) = Len(Cut(o, limit))
         /\ Len(Cut(o, limit)) = limit \/ (Len(Cut(o, limit)) < limit /\ Shown(Cut(o, limit)) = S)
         /\ \A m, n \in DOMAIN Cut(o, limit) : m < n => <<Cut(o, limit)[m], Cut(o, limit)[n]>> \in R
         /\ \A i \in S \ Shown(Cut(o, limit)), j \in Shown(Cut(o, limit)) : <<j, i>> \in R
<1> DEFINE c == Cut(o, limit)
<1>1. /\ o \in Seq(S) /\ Len(o) = Cardinality(S) /\ DOMAIN o = 1..Cardinality(S)
      /\ \A m, n \in DOMAIN o : m < n <=> <<o[m], o[n]>> \in R
      /\ \A i \in S : \E n \in DOMAIN o : o[n] = i
  BY DEF IsRanked
<1>2. /\ c \in Seq(S) /\ Len(c) = IF Len(o) < limit THEN Len(o) ELSE limit
      /\ DOMAIN c = 1..Len(c) /\ Len(c) <= Len(o)
      /\ \A n \in DOMAIN c : n \in DOMAIN o /\ c[n] = o[n]
      /\ (Len(o) <= limit => c = o)
  BY <1>1, CutList
<1>3. Len(c) \in Nat /\ \A n \in DOMAIN c : c[n] \in S /\ n \in Int
  BY <1>2
<1> HIDE DEF c
<1>4. \A m, n \in DOMAIN c : m < n => <<c[m], c[n]>> \in R
  BY <1>1, <1>2
<1>5. \A m, n \in DOMAIN c : c[m] = c[n] => m = n
  <2> SUFFICES ASSUME NEW m \in DOMAIN c, NEW n \in DOMAIN c, c[m] = c[n], m # n PROVE FALSE
    OBVIOUS
  <2>1. m < n \/ n < m
    BY <1>3
  <2>2. <<c[m], c[m]>> \in R
    BY <1>4, <2>1
  <2> QED
    BY <1>3, <2>2 DEF OrdersAll
<1>6. Cardinality(Shown(c)) = Len(c)
  <2> DEFINE k == Len(c)
  <2>1. k \in Nat /\ DOMAIN c = 1..k /\ \A m, n \in 1..k : c[m] = c[n] => m = n
    BY <1>2, <1>3, <1>5
  <2> HIDE DEF k
  <2>2. Cardinality(Shown(c)) = k
    BY <2>1, AsManyAsPlaces
  <2> QED
    BY <2>2 DEF k
<1>7. Shown(c) \subseteq S
  BY <1>3 DEF Shown
<1>8. Len(c) = limit \/ (Len(c) < limit /\ Shown(c) = S)
  <2>1. CASE Len(o) < limit
    <3>1. c = o
      BY <1>1, <1>2, <2>1, FS_CardinalityType
    <3>2. Shown(c) = S
      BY <1>1, <1>7, <3>1 DEF Shown
    <3> QED
      BY <2>1, <3>1, <3>2
  <2>2. CASE ~(Len(o) < limit)
    BY <1>2, <2>2
  <2> QED
    BY <2>1, <2>2
<1>9. ASSUME NEW i \in S \ Shown(c), NEW j \in Shown(c)
      PROVE  <<j, i>> \in R
  <2>1. PICK n \in DOMAIN o : o[n] = i
    BY <1>1
  <2>2. PICK m \in DOMAIN c : c[m] = j
    BY DEF Shown
  <2>3. Cardinality(S) \in Nat
    BY FS_CardinalityType
  <2>4. c = o \/ Len(c) = limit
    BY <1>1, <1>2, <2>3
  <2>5. n \notin DOMAIN c
    BY <1>2, <2>1 DEF Shown
  <2>6. n \in 1..Cardinality(S) /\ m \in 1..Len(c) /\ ~(n \in 1..Len(c))
    BY <1>1, <1>2, <2>5
  <2>7. m < n
    BY <1>3, <2>3, <2>6
  <2>8. m \in DOMAIN o /\ c[m] = o[m]
    BY <1>2
  <2> QED
    BY <1>1, <2>1, <2>2, <2>7, <2>8
<1> QED
  BY <1>4, <1>6, <1>7, <1>8, <1>9 DEF c

\* What the two engines sort by, and what they sort.
PythonKey(q, i) ==
  <<IF q.words = {} THEN 0 ELSE -_keyword_match_score(i, q), -Catalog[i].year, Catalog[i].price, Catalog[i].name, i>>
LocalKey(q, i) == <<-scoreProduct(i, q), Catalog[i].price, i>>
PythonFit(q, f) == {i \in ProductIds : _passes_filters(i, f) /\ (q.words # {} => _keyword_match_score(i, q) > 0)}
LocalFit(f) == {i \in ProductIds : PassesInBrowser(i, f)}

\* How many of the words a product has is a number, not 0 just if it has one.
LEMMA HitsAreCounted ==
  ASSUME NEW q \in Queries, NEW i \in ProductIds
  PROVE  /\ Cardinality(Catalog[i].words \cap q.words) \in Nat
         /\ Cardinality(Catalog[i].words \cap q.words) > 0 <=> Catalog[i].words \cap q.words # {}
<1>1. Catalog[i].words \cap q.words \in SUBSET QueryWords
  BY CatalogFacts DEF ProductFacts
<1>2. IsFiniteSet(Catalog[i].words \cap q.words)
  BY <1>1, CatalogAssumption, FS_Subset
<1>3. Cardinality(Catalog[i].words \cap q.words) \in Nat
  BY <1>2, FS_CardinalityType
<1>4. Cardinality(Catalog[i].words \cap q.words) = 0 <=> Catalog[i].words \cap q.words = {}
  BY <1>2, FS_EmptySet
<1> QED
  BY <1>3, <1>4

\* The score of the browser is a number.
LEMMA ScoreIsNumber ==
  ASSUME NEW q \in Queries, NEW i \in ProductIds
  PROVE  scoreProduct(i, q) \in Int
<1>1. Cardinality(Catalog[i].words \cap q.words) \in Nat
  BY HitsAreCounted
<1>2. /\ Catalog[i].price \in Int /\ Catalog[i].weight \in Int
      /\ Amount(i, "ram") \in Int /\ Amount(i, "battery") \in Int
  BY ProductNumbers DEF Amount
<1>3. \A n \in Int : Plus(n) \in Int
  BY DEF Plus
<1> DEFINE a == 9000 * Cardinality(Catalog[i].words \cap q.words)
           b == IF "value" \in q.wishes THEN Plus(12000 - 6 * Catalog[i].price) ELSE 0
           c == IF "power" \in q.wishes THEN 375 * Amount(i, "ram") + (IF Catalog[i].rtx THEN 9000 ELSE 0) ELSE 0
           d == IF "travel" \in q.wishes THEN Plus(9000 - 3 * Catalog[i].weight) + 100 * Amount(i, "battery") ELSE 0
           e == IF "camera" \in q.wishes /\ Catalog[i].category = "phone" THEN 12000 ELSE 0
           g == IF "screen" \in q.wishes /\ Catalog[i].screen THEN 9000 ELSE 0
<1>4. a \in Int /\ e \in Int /\ g \in Int
  BY <1>1
<1>5. b \in Int
  BY <1>2, <1>3
<1>6. c \in Int
  BY <1>2
<1>7. d \in Int
  <2>1. Plus(9000 - 3 * Catalog[i].weight) \in Int
    BY <1>2, <1>3
  <2> QED
    BY <1>2, <2>1
<1>8. scoreProduct(i, q) = a + b + c + d + e + g
  BY DEF scoreProduct
<1> HIDE DEF a, b, c, d, e, g
<1> QED
  BY <1>4, <1>5, <1>6, <1>7, <1>8

\* What either engine sorts by orders any of the products, and in the order of what makes one a
\* better find.
LEMMA PythonOrder ==
  ASSUME NEW q \in Queries, NEW S, S \subseteq ProductIds, NEW key, key = [i \in S |-> PythonKey(q, i)]
  PROVE  /\ IsFiniteSet(S) /\ OrdersAll(ByKey(S, key), S)
         /\ engine = "python" => \A i, j \in S : <<j, i>> \in ByKey(S, key) => ~Better(i, j, q)
<1> DEFINE h(i) == IF q.words = {} THEN 0 ELSE -_keyword_match_score(i, q)
           y(i) == -Catalog[i].year
           p(i) == Catalog[i].price
           n(i) == Catalog[i].name
           First(i, j) == \/ h(i) < h(j)
                          \/ h(i) = h(j) /\ y(i) < y(j)
                          \/ h(i) = h(j) /\ y(i) = y(j) /\ p(i) < p(j)
                          \/ h(i) = h(j) /\ y(i) = y(j) /\ p(i) = p(j) /\ n(i) < n(j)
                          \/ h(i) = h(j) /\ y(i) = y(j) /\ p(i) = p(j) /\ n(i) = n(j) /\ i < j
<1>1. IsFiniteSet(S)
  BY CatalogFacts, FS_Subset DEF ProductFacts
<1>2. \A i \in S : h(i) \in Int /\ y(i) \in Int /\ p(i) \in Int /\ n(i) \in Int /\ i \in Int
  <2> SUFFICES ASSUME NEW i \in S PROVE h(i) \in Int /\ y(i) \in Int /\ p(i) \in Int /\ n(i) \in Int /\ i \in Int
    OBVIOUS
  <2>1. i \in ProductIds
    OBVIOUS
  <2>2. h(i) \in Int
    BY <2>1, HitsAreCounted DEF _keyword_match_score
  <2> QED
    BY <2>1, <2>2, ProductNumbers
<1>3. \A i \in S : key[i] = <<h(i), y(i), p(i), n(i), i>>
  BY DEF PythonKey
<1>4. ASSUME NEW i \in S, NEW j \in S
      PROVE  <<i, j>> \in ByKey(S, key) <=> First(i, j)
  <2>1. <<i, j>> \in ByKey(S, key) <=> ComesFirst(key[i], key[j])
    BY DEF ByKey
  <2>2. key[i] = <<h(i), y(i), p(i), n(i), i>> /\ key[j] = <<h(j), y(j), p(j), n(j), j>>
    BY <1>3
  <2> DEFINE left == key[i]
             right == key[j]
  <2>3. /\ DOMAIN left = 1..5 /\ left[1] = h(i) /\ left[2] = y(i) /\ left[3] = p(i) /\ left[4] = n(i) /\ left[5] = i
        /\ right[1] = h(j) /\ right[2] = y(j) /\ right[3] = p(j) /\ right[4] = n(j) /\ right[5] = j
    BY <2>2
  <2> HIDE DEF h, y, p, n, left, right
  <2>4. ComesFirst(left, right) <=> First(i, j)
    BY <2>3, FiveNumbers
  <2> QED
    BY <2>1, <2>4 DEF left, right
<1>5. OrdersAll(ByKey(S, key), S)
  <2> HIDE DEF h, y, p, n
  <2>1. \A i \in S : ~First(i, i)
    BY <1>2
  <2>2. \A i, j, k \in S : First(i, j) /\ First(j, k) => First(i, k)
    BY <1>2
  <2>3. \A i, j \in S : i # j => First(i, j) \/ First(j, i)
    BY <1>2
  <2> HIDE DEF First
  <2> QED
    BY <1>4, <2>1, <2>2, <2>3 DEF OrdersAll
<1>6. ASSUME engine = "python", NEW i \in S, NEW j \in S, First(j, i)
      PROVE  ~Better(i, j, q)
  <2> DEFINE hits(x) == IF q.words = {} THEN 0 ELSE Cardinality(Catalog[x].words \cap q.words)
  <2>1. h(i) = -hits(i) /\ h(j) = -hits(j) /\ hits(i) \in Int /\ hits(j) \in Int
    <3>1. i \in ProductIds /\ j \in ProductIds
      OBVIOUS
    <3> QED
      BY <3>1, HitsAreCounted DEF _keyword_match_score
  <2>2. Better(i, j, q) <=>
          \/ hits(i) > hits(j)
          \/ hits(i) = hits(j) /\ Catalog[i].year > Catalog[j].year
          \/ hits(i) = hits(j) /\ Catalog[i].year = Catalog[j].year /\ Catalog[i].price < Catalog[j].price
    BY <1>6 DEF Better
  <2>3. /\ Catalog[i].year \in Int /\ Catalog[j].year \in Int /\ Catalog[i].price \in Int /\ Catalog[j].price \in Int
    <3>1. i \in ProductIds /\ j \in ProductIds
      OBVIOUS
    <3> QED
      BY <3>1, ProductNumbers
  <2> HIDE DEF h, hits, n
  <2> QED
    BY <1>2, <1>6, <2>1, <2>2, <2>3
<1> HIDE DEF First
<1> QED
  BY <1>1, <1>4, <1>5, <1>6

\* So does what the browser sorts by.
LEMMA LocalOrder ==
  ASSUME NEW q \in Queries, NEW S, S \subseteq ProductIds, NEW key, key = [i \in S |-> LocalKey(q, i)]
  PROVE  /\ IsFiniteSet(S) /\ OrdersAll(ByKey(S, key), S)
         /\ engine = "local" => \A i, j \in S : <<j, i>> \in ByKey(S, key) => ~Better(i, j, q)
<1> DEFINE h(i) == -scoreProduct(i, q)
           p(i) == Catalog[i].price
           First(i, j) == \/ h(i) < h(j)
                          \/ h(i) = h(j) /\ p(i) < p(j)
                          \/ h(i) = h(j) /\ p(i) = p(j) /\ i < j
<1>1. IsFiniteSet(S)
  BY CatalogFacts, FS_Subset DEF ProductFacts
<1>2. \A i \in S : scoreProduct(i, q) \in Int /\ h(i) \in Int /\ p(i) \in Int /\ i \in Int
  <2> SUFFICES ASSUME NEW i \in S PROVE scoreProduct(i, q) \in Int /\ h(i) \in Int /\ p(i) \in Int /\ i \in Int
    OBVIOUS
  <2>1. i \in ProductIds
    OBVIOUS
  <2>2. scoreProduct(i, q) \in Int
    BY <2>1, ScoreIsNumber
  <2> QED
    BY <2>1, <2>2, ProductNumbers
<1>3. \A i \in S : key[i] = <<h(i), p(i), i>>
  BY DEF LocalKey
<1>4. ASSUME NEW i \in S, NEW j \in S
      PROVE  <<i, j>> \in ByKey(S, key) <=> First(i, j)
  <2>1. <<i, j>> \in ByKey(S, key) <=> ComesFirst(key[i], key[j])
    BY DEF ByKey
  <2>2. key[i] = <<h(i), p(i), i>> /\ key[j] = <<h(j), p(j), j>>
    BY <1>3
  <2> DEFINE left == key[i]
             right == key[j]
  <2>3. /\ DOMAIN left = 1..3 /\ left[1] = h(i) /\ left[2] = p(i) /\ left[3] = i
        /\ right[1] = h(j) /\ right[2] = p(j) /\ right[3] = j
    BY <2>2
  <2> HIDE DEF h, p, left, right
  <2>4. ComesFirst(left, right) <=> First(i, j)
    BY <2>3, ThreeNumbers
  <2> QED
    BY <2>1, <2>4 DEF left, right
<1>5. OrdersAll(ByKey(S, key), S)
  <2> HIDE DEF h, p
  <2>1. \A i \in S : ~First(i, i)
    BY <1>2
  <2>2. \A i, j, k \in S : First(i, j) /\ First(j, k) => First(i, k)
    BY <1>2
  <2>3. \A i, j \in S : i # j => First(i, j) \/ First(j, i)
    BY <1>2
  <2> HIDE DEF First
  <2> QED
    BY <1>4, <2>1, <2>2, <2>3 DEF OrdersAll
<1>6. ASSUME engine = "local", NEW i \in S, NEW j \in S, First(j, i)
      PROVE  ~Better(i, j, q)
  <2>1. Better(i, j, q) <=>
          \/ scoreProduct(i, q) > scoreProduct(j, q)
          \/ scoreProduct(i, q) = scoreProduct(j, q) /\ p(i) < p(j)
    BY <1>6 DEF Better
  <2>2. /\ scoreProduct(i, q) \in Int /\ scoreProduct(j, q) \in Int /\ p(i) \in Int /\ p(j) \in Int
    BY <1>2
  <2>3. (h(j) < h(i) <=> scoreProduct(j, q) > scoreProduct(i, q)) /\ (h(j) = h(i) <=> scoreProduct(j, q) = scoreProduct(i, q))
    BY <2>2
  <2> HIDE DEF h, p
  <2> QED
    BY <1>6, <2>1, <2>2, <2>3
<1> HIDE DEF First
<1> QED
  BY <1>1, <1>4, <1>5, <1>6

\* The search that was answered, the comparison that was.
SearchAnswered ==
  \E q \in Queries, f \in Filters, limit \in SearchLimits \cup {0} :
    /\ engine = "local" => limit # 0
    /\ asked = <<"search", q, f, limit>>
    /\ reply = <<IF engine = "python" THEN internal_ecommerce_search(q, f, ForwardedLimit(limit)) ELSE localSearch(q, f, limit)>>

CompareAnswered ==
  \E ids \in IdLists :
    /\ asked = <<"compare", ids>>
    /\ reply = <<IF engine = "python" THEN internal_ecommerce_compare(ids) ELSE localCompare(ids)>>

CardsAreWeighed ==
  \E n \in DOMAIN reply[1].cards \ {1} :
    verdicts = <<reply[1].cards[n], buildCompareHighlights(Card(reply[1].cards[1]), Card(reply[1].cards[n]))>>

\* What is asked is what was answered, and the verdicts are on the cards of the answer.
ShoppingInv ==
  /\ engine \in Engines
  /\ asked # <<>> => SearchAnswered \/ CompareAnswered
  /\ verdicts # <<>> =>
       /\ asked # <<>> /\ asked[1] = "search"
       /\ CardsAreWeighed

\* It holds before anything is asked ...
LEMMA InitShopping == ShoppingInit => ShoppingInv
BY DEF ShoppingInit, ShoppingInv

\* ... and after each step.
LEMMA NextShopping == ShoppingInv /\ [ShoppingNext]_shoppingVars => ShoppingInv'
<1> SUFFICES ASSUME ShoppingInv, [ShoppingNext]_shoppingVars PROVE ShoppingInv'
  OBVIOUS
<1>1. CASE Search
  <2>1. PICK q \in Queries, f \in Filters, limit \in SearchLimits \cup {0} :
          /\ IF engine = "python" THEN q.wishes = {} ELSE f.minRam = NoValue /\ f.minYear = 0 /\ limit # 0
          /\ asked' = <<"search", q, f, limit>>
          /\ reply' = <<IF engine = "python" THEN internal_ecommerce_search(q, f, ForwardedLimit(limit))
                        ELSE localSearch(q, f, limit)>>
    BY <1>1 DEF Search
  <2>2. engine' = engine /\ verdicts' = verdicts /\ asked = <<>>
    BY <1>1 DEF Search
  <2>3. engine = "local" => limit # 0
    BY <2>1
  <2>4. SearchAnswered'
    BY <2>1, <2>2, <2>3 DEF SearchAnswered
  <2> QED
    BY <2>2, <2>4 DEF ShoppingInv
<1>2. CASE CompareProducts
  <2>1. PICK ids \in IdLists :
          /\ asked' = <<"compare", ids>>
          /\ reply' = <<IF engine = "python" THEN internal_ecommerce_compare(ids) ELSE localCompare(ids)>>
    BY <1>2 DEF CompareProducts
  <2>2. engine' = engine /\ verdicts' = verdicts /\ asked = <<>>
    BY <1>2 DEF CompareProducts
  <2>3. CompareAnswered'
    BY <2>1, <2>2 DEF CompareAnswered
  <2> QED
    BY <2>2, <2>3 DEF ShoppingInv
<1>3. CASE Weigh
  <2>1. engine' = engine /\ asked' = asked /\ reply' = reply
    BY <1>3 DEF Weigh
  <2>2. SearchAnswered' = SearchAnswered /\ CompareAnswered' = CompareAnswered
    BY <2>1 DEF SearchAnswered, CompareAnswered
  <2>3. PICK n \in DOMAIN reply[1].cards \ {1} :
          verdicts' = <<reply[1].cards[n], buildCompareHighlights(Card(reply[1].cards[1]), Card(reply[1].cards[n]))>>
    BY <1>3 DEF Weigh
  <2>4. Card(reply[1].cards[1])' = Card(reply[1].cards[1]) /\ Card(reply[1].cards[n])' = Card(reply[1].cards[n])
    BY <2>1 DEF Card
  <2>5. CardsAreWeighed'
    BY <2>1, <2>3, <2>4 DEF CardsAreWeighed
  <2>6. asked # <<>> /\ asked[1] = "search"
    BY <1>3 DEF Weigh
  <2> QED
    BY <2>1, <2>2, <2>5, <2>6 DEF ShoppingInv
<1>4. CASE UNCHANGED shoppingVars
  BY <1>4 DEF shoppingVars, ShoppingInv, SearchAnswered, CompareAnswered, CardsAreWeighed, Card
<1> QED
  BY <1>1, <1>2, <1>3, <1>4 DEF ShoppingNext

\* What fits a search, and what it is sorted by.
Sought(q, f) == IF engine = "python" THEN PythonFit(q, f) ELSE LocalFit(f)
KeysOf(q, f) == [i \in Sought(q, f) |-> IF engine = "python" THEN PythonKey(q, i) ELSE LocalKey(q, i)]

\* What is asked for with q, f and limit is answered from the list s.
AnswersFrom(q, f, limit, s) ==
  /\ asked[2] = q /\ asked[3] = f /\ asked[4] \in Nat
  /\ limit = IF asked[4] = 0 /\ engine = "python" THEN 6 ELSE asked[4]
  /\ reply[1].cards = Cut(s, limit)
  /\ reply[1].total = IF engine = "python" THEN Len(Cut(s, limit)) ELSE Len(s)

\* The answer to a search is the first part of the ranked list of what fits.
LEMMA AnswerIsRanked ==
  ASSUME ShoppingInv, asked # <<>>, asked[1] = "search"
  PROVE  \E q \in Queries, f \in Filters, limit \in Nat :
           Sought(q, f) \subseteq ProductIds /\ AnswersFrom(q, f, limit, Ordered(Sought(q, f), KeysOf(q, f)))
<1>1. asked = <<>> \/ SearchAnswered
  BY DEF ShoppingInv, CompareAnswered
<1>2. PICK q \in Queries, f \in Filters, limit \in SearchLimits \cup {0} :
        /\ engine = "local" => limit # 0
        /\ asked = <<"search", q, f, limit>>
        /\ reply = <<IF engine = "python" THEN internal_ecommerce_search(q, f, ForwardedLimit(limit)) ELSE localSearch(q, f, limit)>>
  BY <1>1 DEF SearchAnswered
<1>3. asked[2] = q /\ asked[3] = f /\ asked[4] = limit /\ limit \in Nat
  <2>1. SearchLimits \subseteq Nat
    BY CatalogAssumption
  <2>2. limit \in Nat
    BY <2>1
  <2>3. asked = <<"search", q, f, limit>>
    BY <1>2
  <2> QED
    BY ONLY <2>2, <2>3
<1>4. CASE engine = "python"
  <2> DEFINE S == PythonFit(q, f)
             key == [i \in S |-> PythonKey(q, i)]
  <2>1. search_products(q, f) = Ordered(S, key)
    BY DEF search_products, PythonFit, PythonKey
  <2>2. reply[1] = [cards |-> Cut(Ordered(S, key), ForwardedLimit(limit)), total |-> Len(Cut(Ordered(S, key), ForwardedLimit(limit)))]
    BY <1>2, <1>4, <2>1 DEF internal_ecommerce_search
  <2>3. ForwardedLimit(limit) \in Nat /\ ForwardedLimit(limit) = IF limit = 0 /\ engine = "python" THEN 6 ELSE limit
    BY <1>3, <1>4 DEF ForwardedLimit
  <2>4. S \subseteq ProductIds
    BY DEF PythonFit
  <2>5. S = Sought(q, f)
    BY <1>4 DEF Sought
  <2>6. key = KeysOf(q, f)
    BY <1>4, <2>5 DEF KeysOf
  <2> HIDE DEF S, key
  <2>7. AnswersFrom(q, f, ForwardedLimit(limit), Ordered(S, key))
    BY <1>3, <1>4, <2>2, <2>3 DEF AnswersFrom
  <2> QED
    BY <2>3, <2>4, <2>5, <2>6, <2>7
<1>5. CASE engine # "python"
  <2> DEFINE S == LocalFit(f)
             key == [i \in S |-> LocalKey(q, i)]
  <2>1. localSearch(q, f, limit) = [cards |-> Cut(Ordered(S, key), limit), total |-> Len(Ordered(S, key))]
    BY DEF localSearch, LocalFit, LocalKey
  <2>2. reply[1] = [cards |-> Cut(Ordered(S, key), limit), total |-> Len(Ordered(S, key))]
    BY <1>2, <1>5, <2>1
  <2>3. limit = IF limit = 0 /\ engine = "python" THEN 6 ELSE limit
    BY <1>5
  <2>4. S \subseteq ProductIds
    BY DEF LocalFit
  <2>5. S = Sought(q, f)
    BY <1>5 DEF Sought
  <2>6. key = KeysOf(q, f)
    BY <1>5, <2>5 DEF KeysOf
  <2> HIDE DEF S, key
  <2>7. AnswersFrom(q, f, limit, Ordered(S, key))
    BY <1>3, <1>5, <2>2, <2>3 DEF AnswersFrom
  <2> QED
    BY <1>3, <2>4, <2>5, <2>6, <2>7
<1> QED
  BY <1>4, <1>5

\* So what is shown is the best of what fits.
LEMMA BestIsShown == ShoppingInv => ResultsAreBest
<1> SUFFICES ASSUME ShoppingInv, asked # <<>>, asked[1] = "search" PROVE ResultsAreBest
  BY DEF ResultsAreBest
<1>0. PICK q \in Queries, f \in Filters, limit \in Nat :
        Sought(q, f) \subseteq ProductIds /\ AnswersFrom(q, f, limit, Ordered(Sought(q, f), KeysOf(q, f)))
  BY AnswerIsRanked
<1> DEFINE S == Sought(q, f)
           key == KeysOf(q, f)
<1>1. /\ asked[2] = q /\ asked[3] = f /\ asked[4] \in Nat
      /\ limit = IF asked[4] = 0 /\ engine = "python" THEN 6 ELSE asked[4]
      /\ S = (IF engine = "python" THEN PythonFit(q, f) ELSE LocalFit(f)) /\ S \subseteq ProductIds
      /\ key = [i \in S |-> IF engine = "python" THEN PythonKey(q, i) ELSE LocalKey(q, i)]
      /\ reply[1].cards = Cut(Ordered(S, key), limit)
      /\ reply[1].total = IF engine = "python" THEN Len(Cut(Ordered(S, key), limit)) ELSE Len(Ordered(S, key))
  BY <1>0 DEF AnswersFrom, Sought, KeysOf
<1> HIDE DEF S, key
<1> DEFINE fit == {i \in ProductIds :
                  IF engine = "local" THEN PassesInBrowser(i, asked[3])
                  ELSE _passes_filters(i, asked[3]) /\ (q.words # {} => Catalog[i].words \cap q.words # {})}
           cards == reply[1].cards
           R == ByKey(S, key)
<1>2. engine = "python" \/ (engine = "local" /\ engine # "python")
  BY DEF ShoppingInv, Engines
<1>3. fit = S
  <2>1. CASE engine = "python"
    <3>1. \A i \in ProductIds : _keyword_match_score(i, q) > 0 <=> Catalog[i].words \cap q.words # {}
      BY HitsAreCounted DEF _keyword_match_score
    <3> QED
      BY <1>1, <2>1, <3>1 DEF PythonFit
  <2>2. CASE engine = "local"
    BY <1>1, <2>2 DEF LocalFit
  <2> QED
    BY <1>2, <2>1, <2>2
<1>4. IsFiniteSet(S) /\ OrdersAll(R, S) /\ \A i, j \in S : <<j, i>> \in R => ~Better(i, j, q)
  <2>1. CASE engine = "python"
    <3>1. key = [i \in S |-> PythonKey(q, i)]
      BY <1>1, <2>1
    <3> QED
      BY <1>1, <2>1, <3>1, PythonOrder
  <2>2. CASE engine = "local"
    <3>1. key = [i \in S |-> LocalKey(q, i)]
      BY <1>1, <2>2
    <3> QED
      BY <1>1, <2>2, <3>1, LocalOrder
  <2> QED
    BY <1>2, <2>1, <2>2
<1>5. IsRanked(Ordered(S, key), S, R)
  BY <1>4, OrderedIsRanked
<1> HIDE DEF R, fit
<1>6. /\ Shown(cards) \subseteq S /\ Cardinality(Shown(cards)) = Len(cards)
      /\ Len(cards) = limit \/ (Len(cards) < limit /\ Shown(cards) = S)
      /\ \A m, n \in DOMAIN cards : m < n => <<cards[m], cards[n]>> \in R
      /\ \A i \in S \ Shown(cards), j \in Shown(cards) : <<j, i>> \in R
  <2>1. cards = Cut(Ordered(S, key), limit)
    BY <1>1
  <2> HIDE DEF cards
  <2> QED
    BY <1>4, <1>5, <2>1, CutOfRanked
<1>7. reply[1].total \in {Len(cards), Cardinality(S)}
  BY <1>1, <1>2, <1>5 DEF IsRanked
<1> HIDE DEF cards
<1>8. \A m, n \in DOMAIN cards : m < n => ~Better(cards[n], cards[m], q)
  BY <1>4, <1>6 DEF Shown
<1>9. \A i \in S \ Shown(cards), j \in Shown(cards) : ~Better(i, j, q)
  BY <1>4, <1>6
<1> QED
  BY <1>1, <1>3, <1>6, <1>7, <1>8, <1>9 DEF ResultsAreBest, Shown, fit, cards

\* What a comparison was asked for: ids of products or of nothing.
LEMMA AskedIds ==
  ASSUME NEW ids \in IdLists
  PROVE  /\ ids \in Seq(ProductIds \cup UnknownIds) /\ Cut(ids, CompareColumns) \in Seq(ProductIds \cup UnknownIds)
         /\ Len(Cut(ids, CompareColumns)) <= CompareColumns
         /\ \A n \in DOMAIN Cut(ids, CompareColumns) : n \in DOMAIN ids /\ Cut(ids, CompareColumns)[n] = ids[n]
         /\ Len(ids) \in Nat /\ (Len(ids) <= CompareColumns => Cut(ids, CompareColumns) = ids)
<1>1. PICK n \in 0..MaxCompared : ids \in [1..n -> ProductIds \cup UnknownIds]
  BY DEF IdLists
<1>2. n \in Nat /\ CompareColumns \in Nat
  BY CatalogAssumption
<1>3. ids \in Seq(ProductIds \cup UnknownIds)
  BY <1>1, <1>2
<1>4. Len(ids) \in Nat
  BY <1>3
<1>5. /\ Cut(ids, CompareColumns) \in Seq(ProductIds \cup UnknownIds)
      /\ Len(Cut(ids, CompareColumns)) = IF Len(ids) < CompareColumns THEN Len(ids) ELSE CompareColumns
      /\ \A m \in DOMAIN Cut(ids, CompareColumns) : m \in DOMAIN ids /\ Cut(ids, CompareColumns)[m] = ids[m]
      /\ Len(ids) <= CompareColumns => Cut(ids, CompareColumns) = ids
  BY <1>2, <1>3, CutList
<1>6. Len(Cut(ids, CompareColumns)) <= CompareColumns
  BY <1>2, <1>4, <1>5
<1> QED
  BY <1>3, <1>4, <1>5, <1>6

\* The range of a list is what is shown of it.
LEMMA ShownIsRange ==
  ASSUME NEW E, NEW s \in Seq(E)
  PROVE  Shown(s) = Range(s)
BY DEF Shown, Range

\* Every id of a comparison has its column or is accounted for.
LEMMA IdsAreAccounted == ShoppingInv => EveryIdIsAccounted
<1> SUFFICES ASSUME ShoppingInv, asked # <<>>, asked[1] = "compare" PROVE EveryIdIsAccounted
  BY DEF EveryIdIsAccounted
<1>1. CompareAnswered
  BY DEF ShoppingInv, SearchAnswered
<1>2. PICK ids \in IdLists :
        /\ asked = <<"compare", ids>>
        /\ reply = <<IF engine = "python" THEN internal_ecommerce_compare(ids) ELSE localCompare(ids)>>
  BY <1>1 DEF CompareAnswered
<1>3. engine = "python" \/ (engine = "local" /\ engine # "python")
  BY DEF ShoppingInv, Engines
<1> DEFINE E == ProductIds \cup UnknownIds
           c == CompareColumns
           answer == reply[1]
<1>4. /\ ids \in Seq(E) /\ Cut(ids, c) \in Seq(E) /\ Len(Cut(ids, c)) <= c
      /\ Range(Cut(ids, c)) \subseteq Range(ids) /\ Range(ids) \subseteq E
      /\ Len(ids) \in Nat /\ (Len(ids) <= c => Cut(ids, c) = ids)
  BY AskedIds DEF Range
<1>5. c \in Nat /\ UnknownIds \cap ProductIds = {}
  BY CatalogAssumption
<1> DEFINE Accounted(columns, missing, truncated) ==
             /\ Len(columns) <= c
             /\ Range(ids) \ (Range(columns) \cup Range(missing)) # {} => truncated
             /\ Range(columns) \cap Range(missing) = {} /\ UnknownIds \cap Range(ids) \subseteq Range(missing)
             /\ Range(missing) \cap ProductIds # {} => engine = "local" /\ truncated
<1>8. ASSUME answer.columns \in Seq(E), answer.missing \in Seq(E), Accounted(answer.columns, answer.missing, answer.truncated)
      PROVE  EveryIdIsAccounted
  <2> DEFINE columns == reply[1].columns
             missing == reply[1].missing
             truncated == reply[1].truncated
  <2>1. asked[2] = ids
    BY <1>2
  <2>2. Shown(ids) = Range(ids) /\ Shown(columns) = Range(columns) /\ Shown(missing) = Range(missing)
    BY <1>4, <1>8, ShownIsRange
  <2>3. /\ {asked[2][n] : n \in DOMAIN asked[2]} = Range(ids)
        /\ {reply[1].columns[n] : n \in DOMAIN reply[1].columns} = Range(columns)
        /\ {reply[1].missing[n] : n \in DOMAIN reply[1].missing} = Range(missing)
    BY <2>1, <2>2 DEF Shown
  <2>4. /\ Len(columns) <= CompareColumns
        /\ Range(ids) \ (Range(columns) \cup Range(missing)) # {} => truncated
        /\ Range(columns) \cap Range(missing) = {} /\ UnknownIds \cap Range(ids) \subseteq Range(missing)
        /\ Range(missing) \cap ProductIds # {} => engine = "local" /\ truncated
    BY <1>8
  <2> DEFINE I == Range(ids)
             C == Range(columns)
             M == Range(missing)
  <2>5. I \ (C \cup M) # {} => truncated
    BY <2>4
  <2> HIDE DEF I, C, M
  <2>6. EveryIdIsAccounted <=>
          /\ Len(columns) <= CompareColumns
          /\ I \ (C \cup M) # {} => truncated
          /\ C \cap M = {} /\ UnknownIds \cap I \subseteq M
          /\ M \cap ProductIds # {} => engine = "local" /\ truncated
    BY <2>3 DEF EveryIdIsAccounted, I, C, M
  <2> QED
    BY <2>4, <2>6 DEF I, C, M
<1>6. CASE engine = "python"
  <2> DEFINE resolved == SelectIn(ids, ProductIds)
             missing == SelectIn(ids, UnknownIds)
  <2>1. /\ answer.columns = Cut(resolved, c) /\ answer.missing = missing /\ answer.truncated = (Len(resolved) > c)
    BY <1>2, <1>6 DEF internal_ecommerce_compare
  <2>2. resolved \in Seq(E) /\ Range(resolved) = Range(ids) \cap ProductIds
    BY <1>4, SelectInType
  <2>3. missing \in Seq(E) /\ Range(missing) = Range(ids) \cap UnknownIds
    BY <1>4, SelectInType
  <2> HIDE DEF resolved, missing, E, c, answer
  <2>4. /\ Cut(resolved, c) \in Seq(E) /\ Len(Cut(resolved, c)) = IF Len(resolved) < c THEN Len(resolved) ELSE c
        /\ \A n \in DOMAIN Cut(resolved, c) : n \in DOMAIN resolved /\ Cut(resolved, c)[n] = resolved[n]
        /\ Len(resolved) <= c => Cut(resolved, c) = resolved
    BY <1>5, <2>2, CutList
  <2>5. Len(resolved) \in Nat
    BY <2>2
  <2>6. Len(Cut(resolved, c)) <= c
    BY <1>5, <2>4, <2>5
  <2>7. Range(Cut(resolved, c)) \subseteq Range(resolved)
    BY <2>4 DEF Range
  <2>8. ~(Len(resolved) > c) => Range(Cut(resolved, c)) = Range(resolved)
    BY <1>5, <2>4, <2>5
  <2>9. Accounted(Cut(resolved, c), missing, Len(resolved) > c)
    BY <1>4, <1>5, <2>2, <2>3, <2>6, <2>7, <2>8 DEF E
  <2> QED
    BY <1>8, <2>1, <2>3, <2>4, <2>9
<1>7. CASE engine = "local"
  <2> DEFINE selected == SelectIn(Cut(ids, c), ProductIds)
             rest == E \ Shown(selected)
             missing == SelectIn(ids, rest)
  <2>1. /\ answer.columns = selected /\ answer.missing = missing /\ answer.truncated = (Len(ids) > c)
    BY <1>2, <1>3, <1>7 DEF localCompare, Shown
  <2>2. selected \in Seq(E) /\ Range(selected) = Range(Cut(ids, c)) \cap ProductIds /\ Len(selected) <= Len(Cut(ids, c))
    BY <1>4, SelectInType
  <2>3. missing \in Seq(E) /\ Range(missing) = Range(ids) \cap rest
    BY <1>4, SelectInType
  <2>4. rest = E \ Range(selected)
    BY <2>2, ShownIsRange
  <2> HIDE DEF selected, missing, rest, E, c, answer
  <2>5. Len(selected) <= c
    BY <1>4, <1>5, <2>2
  <2>6. ~(Len(ids) > c) => Range(Cut(ids, c)) = Range(ids)
    BY <1>4, <1>5
  <2>7. Accounted(selected, missing, Len(ids) > c)
    BY <1>4, <1>5, <1>7, <2>2, <2>3, <2>4, <2>5, <2>6 DEF E
  <2> QED
    BY <1>8, <2>1, <2>2, <2>3, <2>7
<1> QED
  BY <1>3, <1>6, <1>7

\* The specs a product has.
SpecsOf(i) ==
  {"weight"} \cup (IF Amount(i, "ram") > 0 THEN {"memory"} ELSE {})
  \cup (IF Amount(i, "storage") > 0 THEN {"storage"} ELSE {})
  \cup (IF Amount(i, "battery") > 0 THEN {"battery"} ELSE {})

\* A card has something to say of just these.
LEMMA CardsSayWhatThereIs ==
  ASSUME NEW i \in ProductIds, NEW f \in SpecFields
  PROVE  /\ product_to_card_block(i)[f] # NoSpec <=> f \in SpecsOf(i)
         /\ toBlock(i)[f] # NoSpec <=> f \in SpecsOf(i)
<1>1. /\ Catalog[i].battery \in Int /\ (HasSpec(i, "battery") => Catalog[i].battery >= 0)
      /\ Catalog[i].ram \in Int /\ (HasSpec(i, "ram") => Catalog[i].ram > 0)
      /\ Catalog[i].storage \in Int /\ (HasSpec(i, "storage") => Catalog[i].storage > 0)
  BY ProductNumbers
<1>2. \A n, u : u # "-" => Written(n, u) # NoSpec
  BY DEF Written, NoSpec
<1>3. \A n, u, m, v : Written(n, u) = Written(m, v) => u = v
  BY DEF Written
<1>4. /\ HasSpec(i, "ram") <=> Catalog[i].ram # NoValue
      /\ HasSpec(i, "storage") <=> Catalog[i].storage # NoValue
      /\ HasSpec(i, "battery") <=> Catalog[i].battery # NoValue
  BY DEF HasSpec
<1>5. /\ Amount(i, "ram") = IF HasSpec(i, "ram") THEN Catalog[i].ram ELSE 0
      /\ Amount(i, "storage") = IF HasSpec(i, "storage") THEN Catalog[i].storage ELSE 0
      /\ Amount(i, "battery") = IF HasSpec(i, "battery") THEN Catalog[i].battery ELSE 0
  BY DEF Amount
<1> HIDE DEF HasSpec, Amount, NoSpec, Written
<1>6. product_to_card_block(i).weight # NoSpec /\ toBlock(i).weight # NoSpec
  BY <1>2 DEF product_to_card_block, toBlock, _format_weight
<1>7. /\ product_to_card_block(i).memory # NoSpec <=> Amount(i, "ram") > 0
      /\ toBlock(i).memory # NoSpec <=> Amount(i, "ram") > 0
  BY <1>1, <1>2, <1>4, <1>5 DEF product_to_card_block, toBlock, _format_ram
<1>8. /\ product_to_card_block(i).storage # NoSpec <=> Amount(i, "storage") > 0
      /\ toBlock(i).storage # NoSpec <=> Amount(i, "storage") > 0
  <2>1. CASE Catalog[i].storage = NoValue
    <3>1. _format_storage(Catalog[i].storage) = NoSpec
      BY <2>1 DEF _format_storage, NoValue
    <3>2. Amount(i, "storage") = 0
      BY <1>4, <1>5, <2>1
    <3> QED
      BY <3>1, <3>2 DEF product_to_card_block, toBlock
  <2>2. CASE Catalog[i].storage # NoValue
    <3>1. _format_storage(Catalog[i].storage) # NoSpec
      BY <1>2, <2>2 DEF _format_storage
    <3>2. Amount(i, "storage") > 0
      BY <1>1, <1>4, <1>5, <2>2
    <3> QED
      BY <1>2, <3>1, <3>2 DEF product_to_card_block, toBlock
  <2> QED
    BY <2>1, <2>2
<1>9. /\ product_to_card_block(i).battery # NoSpec <=> Amount(i, "battery") > 0
      /\ toBlock(i).battery # NoSpec <=> Amount(i, "battery") > 0
  BY <1>1, <1>2, <1>4, <1>5 DEF product_to_card_block, toBlock, _format_battery, NoValue
<1>10. CASE f = "weight"
  BY <1>6, <1>10 DEF SpecsOf
<1>11. CASE f = "memory"
  BY <1>7, <1>11 DEF SpecsOf
<1>12. CASE f = "storage"
  BY <1>8, <1>12 DEF SpecsOf
<1>13. CASE f = "battery"
  BY <1>9, <1>13 DEF SpecsOf
<1> QED
  BY <1>10, <1>11, <1>12, <1>13 DEF SpecFields

\* What a table says of its columns.
IsWholeTable(columns, rows) ==
  /\ \A f \in DOMAIN rows :
       /\ Len(rows[f].values) = Len(columns)
       /\ \A n \in DOMAIN columns : rows[f].values[n] # NoSpec <=> f \in SpecsOf(columns[n])
       /\ rows[f].has_data <=> \E n \in DOMAIN columns : f \in SpecsOf(columns[n])
  /\ \A n \in DOMAIN columns : SpecsOf(columns[n]) \subseteq DOMAIN rows

\* Two lists of numbers that go as far have as many.
LEMMA SameInterval ==
  ASSUME NEW m \in Nat, NEW n \in Nat, 1..m = 1..n
  PROVE  m = n
<1>1. m < n => n \in 1..n /\ n \notin 1..m
  OBVIOUS
<1>2. n < m => m \in 1..m /\ m \notin 1..n
  OBVIOUS
<1> QED
  BY <1>1, <1>2

\* So does a table whose cells are those of the cards, if it has a row for what any of them has.
LEMMA TableOfCells ==
  ASSUME NEW columns \in Seq(ProductIds), NEW cells, NEW rows, NEW data \in SUBSET SpecFields,
         DOMAIN cells = SpecFields,
         \A f \in SpecFields : /\ Len(cells[f]) = Len(columns)
                               /\ \A n \in DOMAIN columns : cells[f][n] # NoSpec <=> f \in SpecsOf(columns[n]),
         data = WithData(cells), data \subseteq DOMAIN rows, DOMAIN rows \subseteq SpecFields,
         \A f \in DOMAIN rows : rows[f] = [values |-> cells[f], has_data |-> f \in data]
  PROVE  IsWholeTable(columns, rows)
<1>1. \A f \in SpecFields : f \in data <=> \E n \in DOMAIN columns : f \in SpecsOf(columns[n])
  BY DEF WithData
<1>2. ASSUME NEW f \in DOMAIN rows
      PROVE  /\ Len(rows[f].values) = Len(columns)
             /\ \A n \in DOMAIN columns : rows[f].values[n] # NoSpec <=> f \in SpecsOf(columns[n])
             /\ rows[f].has_data <=> \E n \in DOMAIN columns : f \in SpecsOf(columns[n])
  <2>1. rows[f].values = cells[f] /\ rows[f].has_data = (f \in data) /\ f \in SpecFields
    OBVIOUS
  <2>2. Len(cells[f]) = Len(columns)
    BY <2>1
  <2> QED
    BY <1>1, <2>1, <2>2
<1>3. ASSUME NEW n \in DOMAIN columns
      PROVE  SpecsOf(columns[n]) \subseteq DOMAIN rows
  <2>1. SpecsOf(columns[n]) \subseteq SpecFields
    BY DEF SpecsOf, SpecFields
  <2> QED
    BY <1>1, <2>1
<1> QED
  BY <1>2, <1>3 DEF IsWholeTable

\* What a row has in its cells.
LEMMA CellsOfCards ==
  ASSUME NEW columns \in Seq(ProductIds)
  PROVE  /\ DOMAIN Cells(columns, product_to_card_block) = SpecFields /\ DOMAIN Cells(columns, toBlock) = SpecFields
         /\ \A f \in SpecFields :
              /\ Cells(columns, product_to_card_block)[f] = [n \in DOMAIN columns |-> product_to_card_block(columns[n])[f]]
              /\ Cells(columns, toBlock)[f] = [n \in DOMAIN columns |-> toBlock(columns[n])[f]]
BY DEF Cells

\* The tables of both engines are whole.
LEMMA TablesAreWhole ==
  ASSUME NEW columns \in Seq(ProductIds)
  PROVE  IsWholeTable(columns, build_spec_compare_block(columns)) /\ IsWholeTable(columns, COMPARE_ROWS(columns))
<1>1. /\ DOMAIN columns = 1..Len(columns) /\ Len(columns) \in Nat /\ \A n \in DOMAIN columns : columns[n] \in ProductIds
  OBVIOUS
<1>2. ASSUME NEW g, DOMAIN g = DOMAIN columns, g = [n \in DOMAIN columns |-> g[n]]
      PROVE  Len(g) = Len(columns)
  <2> DEFINE T == {g[n] : n \in DOMAIN columns}
  <2>1. g \in [1..Len(columns) -> T]
    BY <1>1, <1>2
  <2>2. g \in Seq(T)
    BY <1>1, <2>1
  <2> HIDE DEF T
  <2>3. DOMAIN g = 1..Len(g) /\ Len(g) \in Nat
    BY <2>2
  <2>4. 1..Len(g) = 1..Len(columns)
    BY <1>1, <1>2, <2>3
  <2> QED
    BY <1>1, <2>3, <2>4, SameInterval
<1>3. IsWholeTable(columns, build_spec_compare_block(columns))
  <2> DEFINE cells == Cells(columns, product_to_card_block)
             data == WithData(cells)
             rows == build_spec_compare_block(columns)
  <2>1. DOMAIN cells = SpecFields /\ \A f \in SpecFields : cells[f] = [n \in DOMAIN columns |-> product_to_card_block(columns[n])[f]]
    BY CellsOfCards
  <2>2. rows = [f \in data |-> [values |-> cells[f], has_data |-> TRUE]]
    BY DEF build_spec_compare_block
  <2>3. data \in SUBSET SpecFields
    BY DEF WithData
  <2> HIDE DEF cells, rows
  <2>4. ASSUME NEW f \in SpecFields
        PROVE  /\ Len(cells[f]) = Len(columns)
               /\ \A n \in DOMAIN columns : cells[f][n] # NoSpec <=> f \in SpecsOf(columns[n])
    <3>1. DOMAIN cells[f] = DOMAIN columns /\ cells[f] = [n \in DOMAIN columns |-> cells[f][n]]
      BY <2>1
    <3>2. \A n \in DOMAIN columns : cells[f][n] # NoSpec <=> f \in SpecsOf(columns[n])
      BY <1>1, <2>1, CardsSayWhatThereIs
    <3> QED
      BY <1>2, <3>1, <3>2
  <2>5. data = WithData(cells)
    OBVIOUS
  <2> HIDE DEF data
  <2>6. DOMAIN rows = data /\ \A f \in DOMAIN rows : rows[f] = [values |-> cells[f], has_data |-> f \in data]
    BY <2>2
  <2>7. \A f \in SpecFields : /\ Len(cells[f]) = Len(columns)
                            /\ \A n \in DOMAIN columns : cells[f][n] # NoSpec <=> f \in SpecsOf(columns[n])
    BY <2>4
  <2>8. DOMAIN cells = SpecFields /\ data \subseteq DOMAIN rows /\ DOMAIN rows \subseteq SpecFields
    BY <2>1, <2>3, <2>6
  <2>9. \A f \in DOMAIN rows : rows[f] = [values |-> cells[f], has_data |-> f \in data]
    BY <2>6
  <2>10. IsWholeTable(columns, rows)
    BY <2>3, <2>5, <2>7, <2>8, <2>9, TableOfCells
  <2> QED
    BY <2>10 DEF rows
<1>4. IsWholeTable(columns, COMPARE_ROWS(columns))
  <2> DEFINE cells == Cells(columns, toBlock)
             data == WithData(cells)
             rows == COMPARE_ROWS(columns)
  <2>1. DOMAIN cells = SpecFields /\ \A f \in SpecFields : cells[f] = [n \in DOMAIN columns |-> toBlock(columns[n])[f]]
    BY CellsOfCards
  <2>2. rows = [f \in SpecFields |-> [values |-> cells[f], has_data |-> f \in data]]
    BY DEF COMPARE_ROWS
  <2>3. data \in SUBSET SpecFields
    BY DEF WithData
  <2> HIDE DEF cells, rows
  <2>4. ASSUME NEW f \in SpecFields
        PROVE  /\ Len(cells[f]) = Len(columns)
               /\ \A n \in DOMAIN columns : cells[f][n] # NoSpec <=> f \in SpecsOf(columns[n])
    <3>1. DOMAIN cells[f] = DOMAIN columns /\ cells[f] = [n \in DOMAIN columns |-> cells[f][n]]
      BY <2>1
    <3>2. \A n \in DOMAIN columns : cells[f][n] # NoSpec <=> f \in SpecsOf(columns[n])
      BY <1>1, <2>1, CardsSayWhatThereIs
    <3> QED
      BY <1>2, <3>1, <3>2
  <2>5. data = WithData(cells)
    OBVIOUS
  <2> HIDE DEF data
  <2>6. DOMAIN rows = SpecFields /\ \A f \in DOMAIN rows : rows[f] = [values |-> cells[f], has_data |-> f \in data]
    BY <2>2
  <2>7. \A f \in SpecFields : /\ Len(cells[f]) = Len(columns)
                            /\ \A n \in DOMAIN columns : cells[f][n] # NoSpec <=> f \in SpecsOf(columns[n])
    BY <2>4
  <2>8. DOMAIN cells = SpecFields /\ data \subseteq DOMAIN rows /\ DOMAIN rows \subseteq SpecFields
    BY <2>1, <2>3, <2>6
  <2>9. \A f \in DOMAIN rows : rows[f] = [values |-> cells[f], has_data |-> f \in data]
    BY <2>6
  <2>10. IsWholeTable(columns, rows)
    BY <2>3, <2>5, <2>7, <2>8, <2>9, TableOfCells
  <2> QED
    BY <2>10 DEF rows
<1> QED
  BY <1>3, <1>4

\* And so is the table of every comparison.
LEMMA TableIsWholeAlways == ShoppingInv => TableIsWhole
<1> SUFFICES ASSUME ShoppingInv, asked # <<>>, asked[1] = "compare" PROVE TableIsWhole
  BY DEF TableIsWhole
<1>1. CompareAnswered
  BY DEF ShoppingInv, SearchAnswered
<1>2. PICK ids \in IdLists :
        /\ asked = <<"compare", ids>>
        /\ reply = <<IF engine = "python" THEN internal_ecommerce_compare(ids) ELSE localCompare(ids)>>
  BY <1>1 DEF CompareAnswered
<1> DEFINE E == ProductIds \cup UnknownIds
           c == CompareColumns
<1>3. ids \in Seq(E) /\ Cut(ids, c) \in Seq(E) /\ c \in Nat
  BY AskedIds, CatalogAssumption
<1>4. ASSUME NEW s \in Seq(E)
      PROVE  SelectIn(s, ProductIds) \in Seq(ProductIds)
  <2> DEFINE r == SelectIn(s, ProductIds)
  <2>1. r \in Seq(E) /\ Range(r) = Range(s) \cap ProductIds
    BY SelectInType
  <2> HIDE DEF r, E
  <2>2. \A n \in DOMAIN r : r[n] \in ProductIds
    BY <2>1 DEF Range
  <2>3. DOMAIN r = 1..Len(r) /\ Len(r) \in Nat
    BY <2>1
  <2>4. r \in [1..Len(r) -> ProductIds]
    BY <2>1, <2>2, <2>3
  <2>5. r \in Seq(ProductIds)
    BY <2>3, <2>4
  <2> QED
    BY <2>5 DEF r
<1>5. IsWholeTable(reply[1].columns, reply[1].rows)
  <2>1. CASE engine = "python"
    <3> DEFINE columns == Cut(SelectIn(ids, ProductIds), c)
    <3>1. reply[1].columns = columns /\ reply[1].rows = build_spec_compare_block(columns)
      BY <1>2, <2>1 DEF internal_ecommerce_compare
    <3>2. SelectIn(ids, ProductIds) \in Seq(ProductIds)
      BY <1>3, <1>4
    <3>3. columns \in Seq(ProductIds)
      BY <1>3, <3>2, CutList
    <3> QED
      BY <3>1, <3>3, TablesAreWhole
  <2>2. CASE engine # "python"
    <3> DEFINE columns == SelectIn(Cut(ids, c), ProductIds)
    <3>1. reply[1].columns = columns /\ reply[1].rows = COMPARE_ROWS(columns)
      BY <1>2, <2>2 DEF localCompare
    <3>2. columns \in Seq(ProductIds)
      BY <1>3, <1>4
    <3> QED
      BY <3>1, <3>2, TablesAreWhole
  <2> QED
    BY <2>1, <2>2
<1> QED
  BY <1>5 DEF IsWholeTable, TableIsWhole, SpecsOf

\* d is a list from T that t starts with.
IsHeadOf(d, t, T) == d \in Seq(T) /\ t \in Seq(T) /\ Len(d) <= Len(t) /\ \A n \in 1..Len(d) : d[n] = t[n]

\* What is taken out of the head of a ranked list, in its order, is the head of the ranked list of
\* what may be taken.
LEMMA HeadOfSelection ==
  ASSUME NEW S, IsFiniteSet(S), NEW R, OrdersAll(R, S), NEW o, IsRanked(o, S, R),
         NEW T, T \subseteq S, NEW Q, \A i, j \in T : <<i, j>> \in Q <=> <<i, j>> \in R,
         NEW t, IsRanked(t, T, Q), NEW limit \in Nat
  PROVE  IsHeadOf(SelectIn(Cut(o, limit), T), t, T)
<1> DEFINE h == Cut(o, limit)
           d == SelectIn(h, T)
<1>1. /\ o \in Seq(S) /\ \A m, n \in DOMAIN o : m < n <=> <<o[m], o[n]>> \in R
      /\ \A i \in S : \E n \in DOMAIN o : o[n] = i
  BY DEF IsRanked
<1>2. /\ h \in Seq(S) /\ DOMAIN h = 1..Len(h) /\ DOMAIN o = 1..Len(o) /\ Len(h) \in Nat /\ Len(o) \in Nat
      /\ \A n \in DOMAIN h : n \in DOMAIN o /\ h[n] = o[n]
  BY <1>1, CutList
<1> HIDE DEF h
<1>3. d \in Seq(S) /\ Range(d) = Range(h) \cap T
  BY <1>2, SelectInType
<1>4. \A m, n \in DOMAIN d : m < n => \E k, l \in DOMAIN h : k < l /\ h[k] = d[m] /\ h[l] = d[n]
  BY <1>2, SelectInOrder
<1> HIDE DEF d
<1>5. DOMAIN d = 1..Len(d) /\ Len(d) \in Nat
  BY <1>3
<1>6. \A n \in DOMAIN d : d[n] \in T /\ \E l \in DOMAIN h : h[l] = d[n]
  BY <1>3 DEF Range
<1>7. ASSUME NEW m \in DOMAIN d, NEW n \in DOMAIN d, m < n
      PROVE  <<d[m], d[n]>> \in Q
  <2>1. PICK k \in DOMAIN h, l \in DOMAIN h : k < l /\ h[k] = d[m] /\ h[l] = d[n]
    BY <1>4, <1>7
  <2>2. <<d[m], d[n]>> \in R
    BY <1>1, <1>2, <2>1
  <2> QED
    BY <1>6, <2>2
<1>8. /\ \A i \in T : <<i, i>> \notin Q
      /\ \A i, j \in T : <<i, j>> \in Q => <<j, i>> \notin Q
  BY DEF OrdersAll
<1>9. ASSUME NEW n \in DOMAIN d
      PROVE  PutBefore(T, Q, d[n]) = {d[m] : m \in 1..(n - 1)}
  <2>1. n \in 1..Len(d) /\ \A m \in 1..(n - 1) : m \in DOMAIN d /\ m < n
    BY <1>5
  <2>2. {d[m] : m \in 1..(n - 1)} \subseteq PutBefore(T, Q, d[n])
    BY <1>6, <1>7, <2>1 DEF PutBefore
  <2>3. ASSUME NEW j \in T, <<j, d[n]>> \in Q
        PROVE  \E m \in 1..(n - 1) : d[m] = j
    <3>1. PICK l \in DOMAIN h : h[l] = d[n]
      BY <1>6
    <3>2. PICK k \in DOMAIN o : o[k] = j
      BY <1>1
    <3>3. l \in DOMAIN o /\ o[l] = d[n] /\ <<j, d[n]>> \in R
      BY <1>2, <1>6, <2>3, <3>1
    <3>4. k < l
      BY <1>1, <3>2, <3>3
    <3>5. k \in DOMAIN h
      BY <1>2, <3>4
    <3>6. j \in Range(d)
      BY <1>2, <1>3, <3>2, <3>5 DEF Range
    <3>7. PICK m \in DOMAIN d : d[m] = j
      BY <3>6 DEF Range
    <3>8. m # n /\ ~(n < m)
      BY <1>6, <1>7, <1>8, <2>3, <3>7
    <3>9. m \in 1..(n - 1)
      BY <1>5, <2>1, <3>8
    <3> QED
      BY <3>7, <3>9
  <2> QED
    BY <2>2, <2>3 DEF PutBefore
<1>10. ASSUME NEW n \in DOMAIN d
       PROVE  n \in DOMAIN t /\ d[n] = t[n]
  <2>1. n \in 1..Len(d) /\ n - 1 \in Nat /\ \A m \in 1..(n - 1) : m \in DOMAIN d
    BY <1>5
  <2> DEFINE k == n - 1
             e == [m \in 1..k |-> d[m]]
  <2>2. ASSUME NEW m \in 1..k, NEW l \in 1..k, e[m] = e[l]
        PROVE  m = l
    <3>1. m \in DOMAIN d /\ l \in DOMAIN d /\ d[m] = d[l] /\ m \in Int /\ l \in Int
      BY <2>1, <2>2
    <3>2. ~(m < l) /\ ~(l < m)
      BY <1>6, <1>7, <1>8, <3>1
    <3> QED
      BY <3>1, <3>2
  <2>3. Shown(e) = {d[m] : m \in 1..(n - 1)}
    BY DEF Shown
  <2>4. k \in Nat /\ DOMAIN e = 1..k
    BY <2>1
  <2> HIDE DEF k, e
  <2>5. \A m, l \in 1..k : e[m] = e[l] => m = l
    BY <2>2
  <2>6. Cardinality(Shown(e)) = k
    BY <2>4, <2>5, AsManyAsPlaces
  <2>7. Cardinality(PutBefore(T, Q, d[n])) = n - 1
    BY <1>9, <2>6, <2>3 DEF k
  <2>8. PICK p \in DOMAIN t : t[p] = d[n]
    BY <1>6 DEF IsRanked
  <2>9. Cardinality(PutBefore(T, Q, t[p])) = p - 1 /\ p \in 1..Len(t) /\ Len(t) \in Nat
    BY DEF IsRanked
  <2>10. p = n
    BY <2>1, <2>7, <2>8, <2>9
  <2> QED
    BY <2>8, <2>10
<1>11. t \in Seq(T) /\ Len(t) \in Nat /\ DOMAIN t = 1..Len(t)
  BY DEF IsRanked
<1>12. Len(d) <= Len(t)
  <2>1. CASE Len(d) = 0
    BY <1>11, <2>1
  <2>2. CASE Len(d) # 0
    <3>1. Len(d) \in DOMAIN d
      BY <1>5, <2>2
    <3> QED
      BY <1>10, <1>11, <3>1
  <2> QED
    BY <2>1, <2>2
<1>13. d \in [1..Len(d) -> T]
  BY <1>3, <1>5, <1>6
<1>14. d \in Seq(T)
  BY <1>5, <1>13
<1> QED
  BY <1>5, <1>10, <1>11, <1>12, <1>14 DEF d, h, IsHeadOf

\* A list cut to the length of one it starts with is that one, cut as it was itself.
LEMMA CutsAgree ==
  ASSUME NEW E, NEW t \in Seq(E), NEW d \in Seq(E), Len(d) <= Len(t), \A n \in 1..Len(d) : d[n] = t[n],
         NEW limit \in Nat
  PROVE  Cut(Cut(t, limit), Len(d)) = Cut(d, limit)
<1> DEFINE c == Cut(t, limit)
           left == Cut(c, Len(d))
           right == Cut(d, limit)
<1>1. /\ c \in Seq(E) /\ Len(c) = IF Len(t) < limit THEN Len(t) ELSE limit
      /\ DOMAIN c = 1..Len(c) /\ \A n \in DOMAIN c : n \in DOMAIN t /\ c[n] = t[n]
  BY CutList
<1>2. Len(t) \in Nat /\ Len(d) \in Nat /\ DOMAIN d = 1..Len(d)
  OBVIOUS
<1> HIDE DEF c
<1>3. /\ left \in Seq(E) /\ Len(left) = IF Len(c) < Len(d) THEN Len(c) ELSE Len(d)
      /\ DOMAIN left = 1..Len(left) /\ \A n \in DOMAIN left : n \in DOMAIN c /\ left[n] = c[n]
  BY <1>1, <1>2, CutList
<1>4. /\ right \in Seq(E) /\ Len(right) = IF Len(d) < limit THEN Len(d) ELSE limit
      /\ DOMAIN right = 1..Len(right) /\ \A n \in DOMAIN right : n \in DOMAIN d /\ right[n] = d[n]
  BY CutList
<1> HIDE DEF left, right
<1>5. Len(left) = Len(right)
  <2> DEFINE x == Len(t)
             y == Len(d)
             z == Len(c)
             l == Len(left)
             r == Len(right)
  <2>1. /\ x \in Nat /\ y \in Nat /\ y <= x
        /\ z = (IF x < limit THEN x ELSE limit)
        /\ l = (IF z < y THEN z ELSE y)
        /\ r = (IF y < limit THEN y ELSE limit)
    BY <1>1, <1>2, <1>3, <1>4
  <2> HIDE DEF x, y, z, l, r
  <2>2. l = r
    BY ONLY <2>1, limit \in Nat
  <2> QED
    BY <2>2 DEF l, r
<1>6. \A n \in 1..Len(left) : left[n] = right[n]
  BY <1>1, <1>2, <1>3, <1>4, <1>5
<1>7. left \in [1..Len(left) -> E] /\ right \in [1..Len(left) -> E]
  BY <1>3, <1>4, <1>5
<1>8. left = right
  BY <1>6, <1>7
<1> QED
  BY <1>8 DEF left, right, c

\* The products in the order of the browser, whatever they are filtered by.
LEMMA LocalIsRanked ==
  ASSUME NEW q \in Queries, NEW f
  PROVE  LET S == LocalFit(f)
             key == [i \in S |-> LocalKey(q, i)]
         IN IsFiniteSet(S) /\ OrdersAll(ByKey(S, key), S) /\ IsRanked(Ordered(S, key), S, ByKey(S, key))
<1> DEFINE S == LocalFit(f)
           key == [i \in S |-> LocalKey(q, i)]
<1>1. S \subseteq ProductIds /\ key = [i \in S |-> LocalKey(q, i)]
  BY DEF LocalFit
<1> HIDE DEF S, key
<1>2. IsFiniteSet(S) /\ OrdersAll(ByKey(S, key), S)
  BY <1>1, LocalOrder
<1>3. IsRanked(Ordered(S, key), S, ByKey(S, key))
  BY <1>2, OrderedIsRanked
<1> QED
  BY <1>2, <1>3 DEF S, key

\* Nothing is filtered out by nothing.
LEMMA AnythingFits == LocalFit(Anything) = ProductIds
<1> SUFFICES ASSUME NEW i \in ProductIds PROVE PassesInBrowser(i, Anything)
  BY DEF LocalFit
<1>1. Catalog[i].price \in 0..HighestPrice
  BY CatalogFacts DEF ProductFacts
<1> QED
  BY <1>1 DEF PassesInBrowser, Anything

\* What the advisor names is at the head of the page's list.
LEMMA AdviceIsAtTheHead == ShoppingInv => AdviceLeadsTheList
<1> SUFFICES ASSUME ShoppingInv, asked # <<>>, asked[1] = "search", engine = "local" PROVE AdviceLeadsTheList
  BY DEF AdviceLeadsTheList
<1>0. PICK q \in Queries, f \in Filters, limit \in Nat :
        Sought(q, f) \subseteq ProductIds /\ AnswersFrom(q, f, limit, Ordered(Sought(q, f), KeysOf(q, f)))
  BY AnswerIsRanked
<1> DEFINE S == Sought(q, f)
           key == KeysOf(q, f)
<1>1. /\ asked[2] = q /\ asked[3] = f /\ asked[4] \in Nat
      /\ limit = IF asked[4] = 0 /\ engine = "python" THEN 6 ELSE asked[4]
      /\ S = (IF engine = "python" THEN PythonFit(q, f) ELSE LocalFit(f)) /\ S \subseteq ProductIds
      /\ key = [i \in S |-> IF engine = "python" THEN PythonKey(q, i) ELSE LocalKey(q, i)]
      /\ reply[1].cards = Cut(Ordered(S, key), limit)
      /\ reply[1].total = IF engine = "python" THEN Len(Cut(Ordered(S, key), limit)) ELSE Len(Ordered(S, key))
  BY <1>0 DEF AnswersFrom, Sought, KeysOf
<1> HIDE DEF S, key
<1>2. engine # "python"
  OBVIOUS
<1>3. S = LocalFit(f) /\ key = [i \in S |-> LocalKey(q, i)] /\ limit = asked[4]
  BY <1>1, <1>2
<1> DEFINE P == LocalFit(Anything)
           all == [i \in P |-> LocalKey(q, i)]
           t == Ordered(S, key)
           d == SelectIn(Cut(Ordered(P, all), 3), S)
<1>4. IsFiniteSet(P) /\ OrdersAll(ByKey(P, all), P) /\ IsRanked(Ordered(P, all), P, ByKey(P, all))
  BY LocalIsRanked
<1>5. IsRanked(t, S, ByKey(S, key))
  BY <1>3, LocalIsRanked
<1>6. S \subseteq P
  BY <1>1, AnythingFits
<1>7. \A i, j \in S : <<i, j>> \in ByKey(S, key) <=> <<i, j>> \in ByKey(P, all)
  <2>1. \A i \in S : key[i] = all[i]
    BY <1>3, <1>6
  <2> HIDE DEF P, all
  <2> QED
    BY <1>6, <2>1 DEF ByKey
<1>8. localRecommendationText(q) = Cut(Ordered(P, all), 3)
  BY DEF localRecommendationText, localSearch, LocalFit, LocalKey
<1> HIDE DEF P, all, t
<1>9. IsHeadOf(d, t, S)
  <2> DEFINE o == Ordered(P, all)
             R == ByKey(P, all)
             Q == ByKey(S, key)
  <2>1. IsFiniteSet(P) /\ OrdersAll(R, P) /\ IsRanked(o, P, R)
    BY <1>4
  <2>2. IsRanked(t, S, Q)
    BY <1>5
  <2>3. \A i, j \in S : <<i, j>> \in Q <=> <<i, j>> \in R
    BY <1>7
  <2> HIDE DEF o, R, Q
  <2>4. IsHeadOf(SelectIn(Cut(o, 3), S), t, S)
    BY <1>6, <2>1, <2>2, <2>3, HeadOfSelection
  <2> QED
    BY <2>4 DEF o
<1>10. Cut(Cut(t, limit), Len(d)) = Cut(d, limit)
  <2> HIDE DEF d
  <2> QED
    BY <1>9, CutsAgree DEF IsHeadOf
<1>11. {i \in ProductIds : PassesInBrowser(i, asked[3])} = S
  BY <1>1, <1>3 DEF LocalFit
<1>12. SelectIn(localRecommendationText(asked[2]), {i \in ProductIds : PassesInBrowser(i, asked[3])}) = d
  BY <1>1, <1>8, <1>11
<1>13. reply[1].cards = Cut(t, limit)
  BY <1>1 DEF t
<1> HIDE DEF d
<1> QED
  BY <1>3, <1>10, <1>12, <1>13 DEF AdviceLeadsTheList

\* What the numbers on a card are of the product.
LEMMA CardNumbers ==
  ASSUME NEW i \in ProductIds
  PROVE  /\ Card(i).id = i /\ Card(i).price = Catalog[i].price
         /\ Amount(i, "ram") \in Nat /\ Amount(i, "storage") \in Nat /\ Amount(i, "battery") \in Nat
         /\ Card(i).memory.number = 100 * Amount(i, "ram")
         /\ Card(i).battery = NoSpec <=> Amount(i, "battery") = 0
         /\ Card(i).battery # NoSpec => Card(i).battery.number = 100 * Amount(i, "battery")
<1>1. /\ Catalog[i].battery \in Int /\ (HasSpec(i, "battery") => Catalog[i].battery >= 0)
      /\ Catalog[i].ram \in Int /\ (HasSpec(i, "ram") => Catalog[i].ram > 0)
      /\ Catalog[i].storage \in Int /\ (HasSpec(i, "storage") => Catalog[i].storage > 0)
  BY ProductNumbers
<1>2. \A n, u : Written(n, u).number = n /\ Written(n, u).unit = u /\ (u # "-" => Written(n, u) # NoSpec)
  BY DEF Written, NoSpec
<1>3. NoSpec.number = 0
  BY DEF NoSpec
<1>4. /\ HasSpec(i, "ram") <=> Catalog[i].ram # NoValue
      /\ HasSpec(i, "storage") <=> Catalog[i].storage # NoValue
      /\ HasSpec(i, "battery") <=> Catalog[i].battery # NoValue
  BY DEF HasSpec
<1>5. /\ Amount(i, "ram") = IF HasSpec(i, "ram") THEN Catalog[i].ram ELSE 0
      /\ Amount(i, "storage") = IF HasSpec(i, "storage") THEN Catalog[i].storage ELSE 0
      /\ Amount(i, "battery") = IF HasSpec(i, "battery") THEN Catalog[i].battery ELSE 0
  BY DEF Amount
<1> HIDE DEF HasSpec, Amount, NoSpec, Written
<1>6. Amount(i, "ram") \in Nat /\ Amount(i, "storage") \in Nat /\ Amount(i, "battery") \in Nat
  BY <1>1, <1>5
<1>7. Card(i) = product_to_card_block(i) \/ Card(i) = toBlock(i)
  BY DEF Card
<1>8. Card(i).id = i /\ Card(i).price = Catalog[i].price
  BY <1>7 DEF product_to_card_block, toBlock
<1>9. /\ product_to_card_block(i).memory.number = 100 * Amount(i, "ram")
      /\ toBlock(i).memory.number = 100 * Amount(i, "ram")
  BY <1>1, <1>2, <1>3, <1>4, <1>5 DEF product_to_card_block, toBlock, _format_ram
<1>10. /\ product_to_card_block(i).battery = NoSpec <=> Amount(i, "battery") = 0
       /\ product_to_card_block(i).battery # NoSpec => product_to_card_block(i).battery.number = 100 * Amount(i, "battery")
  BY <1>1, <1>2, <1>4, <1>5 DEF product_to_card_block, _format_battery, NoValue
<1>11. /\ toBlock(i).battery = NoSpec <=> Amount(i, "battery") = 0
       /\ toBlock(i).battery # NoSpec => toBlock(i).battery.number = 100 * Amount(i, "battery")
  BY <1>1, <1>2, <1>4, <1>5 DEF toBlock
<1> QED
  BY <1>6, <1>7, <1>8, <1>9, <1>10, <1>11

\* However it is written, of two storages the larger is not read as the smaller.
LEMMA StorageIsReadInOrder ==
  ASSUME NEW i \in ProductIds, NEW j \in ProductIds
  PROVE  /\ readStorageGb(Card(i)) \in Int /\ readStorageGb(Card(j)) \in Int
         /\ Amount(i, "storage") < Amount(j, "storage") => readStorageGb(Card(i)) <= readStorageGb(Card(j))
<1> DEFINE written(s) == IF s >= 1024 THEN 10 * Rounded(10 * s, 1024) * 1024 ELSE 100 * s
<1>1. \A n, u : Written(n, u).number = n /\ Written(n, u).unit = u
  BY DEF Written
<1>2. NoSpec.number = 0 /\ NoSpec.unit = "-"
  BY DEF NoSpec
<1>3. ASSUME NEW k \in ProductIds
      PROVE  /\ Amount(k, "storage") \in Nat
             /\ engine = "python" => readStorageGb(Card(k)) = written(Amount(k, "storage"))
             /\ engine # "python" => readStorageGb(Card(k)) = 100 * Amount(k, "storage")
  <2>1. Catalog[k].storage \in Int /\ (HasSpec(k, "storage") => Catalog[k].storage > 0)
    BY ProductNumbers
  <2>2. HasSpec(k, "storage") <=> Catalog[k].storage # NoValue
    BY DEF HasSpec
  <2>3. Amount(k, "storage") = IF HasSpec(k, "storage") THEN Catalog[k].storage ELSE 0
    BY DEF Amount
  <2> HIDE DEF HasSpec, Amount, NoSpec, Written
  <2>4. engine # "python" => readStorageGb(Card(k)) = 100 * Amount(k, "storage")
    <3>1. SUFFICES ASSUME engine # "python" PROVE readStorageGb(Card(k)) = 100 * Amount(k, "storage")
      OBVIOUS
    <3>2. Card(k).storage = IF Amount(k, "storage") = 0 THEN NoSpec ELSE Written(100 * Catalog[k].storage, "GB")
      BY <3>1 DEF Card, toBlock
    <3>3. Card(k).storage.number = 100 * Amount(k, "storage") /\ Card(k).storage.unit # "TB"
      BY <1>1, <1>2, <2>1, <2>3, <3>2
    <3> QED
      BY <3>3 DEF readStorageGb
  <2>5. engine = "python" => readStorageGb(Card(k)) = written(Amount(k, "storage"))
    <3>1. SUFFICES ASSUME engine = "python" PROVE readStorageGb(Card(k)) = written(Amount(k, "storage"))
      OBVIOUS
    <3>2. Card(k).storage = _format_storage(Catalog[k].storage)
      BY <3>1 DEF Card, product_to_card_block
    <3>3. CASE Catalog[k].storage = NoValue
      <4>1. Card(k).storage = NoSpec /\ Amount(k, "storage") = 0
        BY <2>2, <2>3, <3>2, <3>3 DEF _format_storage, NoValue
      <4> QED
        BY <1>2, <4>1 DEF readStorageGb
    <3>4. CASE Catalog[k].storage # NoValue /\ Catalog[k].storage >= 1024
      <4>1. Card(k).storage = Written(10 * Rounded(10 * Catalog[k].storage, 1024), "TB") /\ Amount(k, "storage") = Catalog[k].storage
        BY <2>2, <2>3, <3>2, <3>4 DEF _format_storage
      <4>2. readStorageGb(Card(k)) = 10 * Rounded(10 * Catalog[k].storage, 1024) * 1024
        BY <1>1, <4>1 DEF readStorageGb
      <4> QED
        BY <3>4, <4>1, <4>2
    <3>5. CASE Catalog[k].storage # NoValue /\ ~(Catalog[k].storage >= 1024)
      <4>1. Card(k).storage = Written(100 * Catalog[k].storage, "GB") /\ Amount(k, "storage") = Catalog[k].storage
        BY <2>2, <2>3, <3>2, <3>5 DEF _format_storage
      <4>2. readStorageGb(Card(k)) = 100 * Catalog[k].storage
        BY <1>1, <4>1 DEF readStorageGb
      <4> QED
        BY <3>5, <4>1, <4>2
    <3> QED
      BY <3>3, <3>4, <3>5
  <2>6. Amount(k, "storage") \in Nat
    BY <2>1, <2>3
  <2> QED
    BY <2>4, <2>5, <2>6
<1>4. \A s \in Nat : written(s) \in Int
  BY DEF Rounded
<1>5. \A s, t \in Nat : s < t => written(s) <= written(t)
  <2> SUFFICES ASSUME NEW s \in Nat, NEW t \in Nat, s < t PROVE written(s) <= written(t)
    OBVIOUS
  <2>1. CASE t < 1024
    BY <2>1
  <2>2. CASE s >= 1024
    <3>1. Rounded(10 * s, 1024) \in Int /\ Rounded(10 * t, 1024) \in Int /\ Rounded(10 * s, 1024) <= Rounded(10 * t, 1024)
      BY DEF Rounded
    <3> QED
      BY <2>2, <3>1
  <2>3. CASE s < 1024 /\ t >= 1024
    <3>1. Rounded(10 * t, 1024) \in Int /\ Rounded(10 * t, 1024) >= 10
      BY <2>3 DEF Rounded
    <3> QED
      BY <2>3, <3>1
  <2> QED
    BY <2>1, <2>2, <2>3
<1> HIDE DEF written
<1>6. CASE engine = "python"
  BY <1>3, <1>4, <1>5, <1>6
<1>7. CASE engine # "python"
  BY <1>3, <1>7
<1> QED
  BY <1>6, <1>7

\* Two weights in one unit, of which one is read as no more than the other, are so within 10 g.
LEMMA WeightIsReadClosely ==
  ASSUME NEW i \in ProductIds, NEW j \in ProductIds
  PROVE  /\ Catalog[i].weight \in Int /\ Catalog[j].weight \in Int
         /\ Card(i).weight.number \in Int /\ Card(j).weight.number \in Int
         /\ Card(i).weight.unit = Card(j).weight.unit /\ Card(i).weight.number <= Card(j).weight.number =>
              Catalog[i].weight < Catalog[j].weight + 10
<1>1. \A n, u : Written(n, u).number = n /\ Written(n, u).unit = u
  BY DEF Written
<1>2. Catalog[i].weight \in Nat /\ Catalog[j].weight \in Nat
  BY CatalogFacts DEF ProductFacts
<1> HIDE DEF Written
<1> DEFINE kilos(g) == Rounded(g, 10)
<1>3. ASSUME NEW k \in {i, j}
      PROVE  \/ Card(k).weight.unit = "kg" /\ Card(k).weight.number = kilos(Catalog[k].weight)
             \/ Card(k).weight.unit = "g" /\ Card(k).weight.number = 100 * Catalog[k].weight
  <2>1. Card(k).weight = Written(kilos(Catalog[k].weight), "kg") \/ Card(k).weight = Written(100 * Catalog[k].weight, "g")
    BY DEF Card, product_to_card_block, toBlock, _format_weight
  <2> QED
    BY <1>1, <2>1
<1>4. \A g \in Nat : kilos(g) \in Int
  BY DEF Rounded
<1>5. \A g, h \in Nat : kilos(g) <= kilos(h) => g < h + 10
  BY DEF Rounded
<1> HIDE DEF kilos
<1>6. Card(i).weight.number \in Int /\ Card(j).weight.number \in Int
  BY <1>2, <1>3, <1>4
<1>7. ASSUME Card(i).weight.unit = Card(j).weight.unit, Card(i).weight.number <= Card(j).weight.number
      PROVE  Catalog[i].weight < Catalog[j].weight + 10
  BY <1>2, <1>3, <1>5, <1>7
<1> QED
  BY <1>2, <1>6, <1>7

\* What the board says of p and a is true of them.
BoardIsTrue(p, a, named) ==
  LET other(i) == IF i = p THEN a ELSE p
  IN /\ Catalog[named.price].price <= Catalog[other(named.price)].price
     /\ LET w == named.performance
        IN ~(Amount(w, "ram") < Amount(other(w), "ram") /\ Amount(w, "storage") < Amount(other(w), "storage"))
     /\ named.battery # Unsettled => Amount(named.battery, "battery") >= Amount(other(named.battery), "battery")
     /\ named.battery = Unsettled => 0 \in {Amount(p, "battery"), Amount(a, "battery")}
     /\ Card(p).weight.unit = Card(a).weight.unit =>
          Catalog[named.weight].weight < Catalog[other(named.weight)].weight + 10

\* Each verdict is, of any two products.
LEMMA BoardOfTwo ==
  ASSUME NEW p \in ProductIds, NEW a \in ProductIds
  PROVE  BoardIsTrue(p, a, buildCompareHighlights(Card(p), Card(a)))
<1> DEFINE named == buildCompareHighlights(Card(p), Card(a))
           other(i) == IF i = p THEN a ELSE p
           P == Card(p)
           A == Card(a)
<1>1. /\ P.id = p /\ A.id = a /\ P.price = Catalog[p].price /\ A.price = Catalog[a].price
      /\ P.memory.number = 100 * Amount(p, "ram") /\ A.memory.number = 100 * Amount(a, "ram")
      /\ P.battery = NoSpec <=> Amount(p, "battery") = 0
      /\ A.battery = NoSpec <=> Amount(a, "battery") = 0
      /\ P.battery # NoSpec => P.battery.number = 100 * Amount(p, "battery")
      /\ A.battery # NoSpec => A.battery.number = 100 * Amount(a, "battery")
  BY CardNumbers
<1>2. /\ Amount(p, "ram") \in Nat /\ Amount(a, "ram") \in Nat /\ Amount(p, "storage") \in Nat /\ Amount(a, "storage") \in Nat
      /\ Amount(p, "battery") \in Nat /\ Amount(a, "battery") \in Nat
  BY CardNumbers
<1>3. p # Unsettled /\ a # Unsettled /\ Catalog[p].price \in Int /\ Catalog[a].price \in Int
  BY ProductNumbers DEF Unsettled
<1> HIDE DEF Amount, NoSpec
<1>4. /\ named.price = IF P.price <= A.price THEN P.id ELSE A.id
      /\ named.performance = IF performanceScore(P) >= performanceScore(A) THEN P.id ELSE A.id
      /\ named.battery = IF NoSpec \in {P.battery, A.battery} THEN Unsettled
                         ELSE IF P.battery.number >= A.battery.number THEN P.id ELSE A.id
      /\ named.weight = IF P.weight.number <= A.weight.number THEN P.id ELSE A.id
  BY DEF buildCompareHighlights
<1>5. /\ readStorageGb(P) \in Int /\ readStorageGb(A) \in Int
      /\ Amount(p, "storage") < Amount(a, "storage") => readStorageGb(P) <= readStorageGb(A)
      /\ Amount(a, "storage") < Amount(p, "storage") => readStorageGb(A) <= readStorageGb(P)
  BY StorageIsReadInOrder
<1>6. /\ Catalog[p].weight \in Int /\ Catalog[a].weight \in Int /\ P.weight.number \in Int /\ A.weight.number \in Int
      /\ P.weight.unit = A.weight.unit =>
           /\ P.weight.number <= A.weight.number => Catalog[p].weight < Catalog[a].weight + 10
           /\ A.weight.number <= P.weight.number => Catalog[a].weight < Catalog[p].weight + 10
  BY WeightIsReadClosely
<1>7. /\ performanceScore(P) = 1280 * P.memory.number + readStorageGb(P)
      /\ performanceScore(A) = 1280 * A.memory.number + readStorageGb(A)
  BY DEF performanceScore
<1>8. other(p) = a /\ (other(a) = p \/ (other(a) = a /\ a = p))
  OBVIOUS
<1> HIDE DEF P, A, named, other
<1>9. Catalog[named.price].price <= Catalog[other(named.price)].price
  <2>1. (named.price = p /\ Catalog[p].price <= Catalog[a].price) \/ (named.price = a /\ Catalog[a].price <= Catalog[p].price)
    BY <1>1, <1>3, <1>4
  <2> QED
    BY <1>3, <1>8, <2>1
<1>10. ~(/\ Amount(named.performance, "ram") < Amount(other(named.performance), "ram")
         /\ Amount(named.performance, "storage") < Amount(other(named.performance), "storage"))
  <2>1. \/ named.performance = p /\ performanceScore(P) >= performanceScore(A)
        \/ named.performance = a /\ ~(performanceScore(P) >= performanceScore(A))
    BY <1>1, <1>4
  <2>2. performanceScore(P) >= performanceScore(A) => ~(Amount(p, "ram") < Amount(a, "ram") /\ Amount(p, "storage") < Amount(a, "storage"))
    BY <1>1, <1>2, <1>5, <1>7
  <2>3. ~(performanceScore(P) >= performanceScore(A)) => ~(Amount(a, "ram") < Amount(p, "ram") /\ Amount(a, "storage") < Amount(p, "storage"))
    BY <1>1, <1>2, <1>5, <1>7
  <2>4. a = p => ~(Amount(a, "ram") < Amount(p, "ram"))
    BY <1>2
  <2> QED
    BY <1>8, <2>1, <2>2, <2>3, <2>4
<1>11. /\ named.battery # Unsettled => Amount(named.battery, "battery") >= Amount(other(named.battery), "battery")
       /\ named.battery = Unsettled => 0 \in {Amount(p, "battery"), Amount(a, "battery")}
  <2>1. CASE NoSpec \in {P.battery, A.battery}
    <3>1. named.battery = Unsettled
      BY <1>4, <2>1
    <3>2. Amount(p, "battery") = 0 \/ Amount(a, "battery") = 0
      BY <1>1, <2>1
    <3> QED
      BY <3>1, <3>2
  <2>2. CASE NoSpec \notin {P.battery, A.battery}
    <3>1. \/ named.battery = p /\ P.battery.number >= A.battery.number
          \/ named.battery = a /\ ~(P.battery.number >= A.battery.number)
      BY <1>1, <1>4, <2>2
    <3>2. P.battery.number = 100 * Amount(p, "battery") /\ A.battery.number = 100 * Amount(a, "battery")
      BY <1>1, <2>2
    <3>3. \/ named.battery = p /\ Amount(p, "battery") >= Amount(a, "battery")
          \/ named.battery = a /\ Amount(a, "battery") >= Amount(p, "battery")
      BY <1>2, <3>1, <3>2
    <3> QED
      BY <1>2, <1>3, <1>8, <3>3
  <2> QED
    BY <2>1, <2>2
<1>12. P.weight.unit = A.weight.unit => Catalog[named.weight].weight < Catalog[other(named.weight)].weight + 10
  <2>1. \/ named.weight = p /\ P.weight.number <= A.weight.number
        \/ named.weight = a /\ A.weight.number <= P.weight.number
    BY <1>1, <1>4, <1>6
  <2>2. P.weight.unit = A.weight.unit =>
          \/ named.weight = p /\ Catalog[p].weight < Catalog[a].weight + 10
          \/ named.weight = a /\ Catalog[a].weight < Catalog[p].weight + 10
    BY <1>6, <2>1
  <2> QED
    BY <1>6, <1>8, <2>2
<1> QED
  BY <1>9, <1>10, <1>11, <1>12 DEF BoardIsTrue, P, A, named, other

\* The cards of a search are products.
LEMMA CardsAreProducts ==
  ASSUME ShoppingInv, asked # <<>>, asked[1] = "search"
  PROVE  reply[1].cards \in Seq(ProductIds)
<1> DEFINE cards == reply[1].cards
<1>1. PICK q \in Queries, f \in Filters, limit \in Nat :
        Sought(q, f) \subseteq ProductIds /\ AnswersFrom(q, f, limit, Ordered(Sought(q, f), KeysOf(q, f)))
  BY AnswerIsRanked
<1> DEFINE S == Sought(q, f)
           key == KeysOf(q, f)
<1>2. /\ asked[2] = q /\ asked[3] = f /\ asked[4] \in Nat
      /\ limit = IF asked[4] = 0 /\ engine = "python" THEN 6 ELSE asked[4]
      /\ S = (IF engine = "python" THEN PythonFit(q, f) ELSE LocalFit(f)) /\ S \subseteq ProductIds
      /\ key = [i \in S |-> IF engine = "python" THEN PythonKey(q, i) ELSE LocalKey(q, i)]
      /\ reply[1].cards = Cut(Ordered(S, key), limit)
      /\ reply[1].total = IF engine = "python" THEN Len(Cut(Ordered(S, key), limit)) ELSE Len(Ordered(S, key))
  BY <1>1 DEF AnswersFrom, Sought, KeysOf
<1> HIDE DEF S, key
<1>3. IsFiniteSet(S) /\ OrdersAll(ByKey(S, key), S)
  <2>1. CASE engine = "python"
    <3>1. key = [i \in S |-> PythonKey(q, i)]
      BY <1>2, <2>1
    <3> QED
      BY <1>2, <3>1, PythonOrder
  <2>2. CASE engine # "python"
    <3>1. key = [i \in S |-> LocalKey(q, i)]
      BY <1>2, <2>2
    <3> QED
      BY <1>2, <3>1, LocalOrder
  <2> QED
    BY <2>1, <2>2
<1>4. Ordered(S, key) \in Seq(S)
  BY <1>3, OrderedIsRanked DEF IsRanked
<1>5. Ordered(S, key) \in Seq(ProductIds)
  BY <1>2, <1>4
<1>6. cards = Cut(Ordered(S, key), limit)
  BY <1>2
<1> HIDE DEF cards
<1> QED
  BY <1>2, <1>5, <1>6, CutList

\* The verdicts are on two of the cards that were shown.
LEMMA BoardIsTrueAlways == ShoppingInv => VerdictsAreTrue
<1> SUFFICES ASSUME ShoppingInv, verdicts # <<>> PROVE VerdictsAreTrue
  BY DEF VerdictsAreTrue
<1>1. asked # <<>> /\ asked[1] = "search" /\ CardsAreWeighed
  BY DEF ShoppingInv
<1>2. PICK n \in DOMAIN reply[1].cards \ {1} :
        verdicts = <<reply[1].cards[n], buildCompareHighlights(Card(reply[1].cards[1]), Card(reply[1].cards[n]))>>
  BY <1>1 DEF CardsAreWeighed
<1> DEFINE cards == reply[1].cards
           p == cards[1]
           a == cards[n]
<1>3. cards \in Seq(ProductIds)
  BY <1>1, CardsAreProducts
<1>4. n \in DOMAIN cards /\ n # 1
  OBVIOUS
<1>5. DOMAIN cards = 1..Len(cards) /\ Len(cards) \in Nat
  BY <1>3
<1>6. 1 \in DOMAIN cards
  BY <1>4, <1>5
<1>7. p \in ProductIds /\ a \in ProductIds
  BY <1>3, <1>4, <1>6
<1>8. BoardIsTrue(p, a, buildCompareHighlights(Card(p), Card(a)))
  BY <1>7, BoardOfTwo
<1>9. verdicts[1] = a /\ verdicts[2] = buildCompareHighlights(Card(p), Card(a))
  BY <1>2
<1> QED
  BY <1>8, <1>9 DEF BoardIsTrue, VerdictsAreTrue

\* The preview can be believed (module ProductSearch): whatever is searched for and compared, by
\* either engine and of any catalogue, the best is shown, each id of a comparison is accounted
\* for, its table is whole, what the advisor names leads the list, and the verdicts are true.
THEOREM ShoppingIsAlwaysTrue == ShoppingSpec => []ShoppingIsTrue
<1>1. ShoppingInit => ShoppingInv
  BY InitShopping
<1>2. ShoppingInv /\ [ShoppingNext]_shoppingVars => ShoppingInv'
  BY NextShopping
<1>3. ShoppingInv => ShoppingIsTrue
  BY BestIsShown, IdsAreAccounted, TableIsWholeAlways, AdviceIsAtTheHead, BoardIsTrueAlways DEF ShoppingIsTrue
<1> QED
  BY <1>1, <1>2, <1>3, PTL DEF ShoppingSpec

-----------------------------------------------------------------------------
(* What a turn is grounded on: lists of anything *)

\* A list goes from 1 to its length.
LEMMA ListFacts ==
  ASSUME NEW s, IsList(s)
  PROVE  /\ Len(s) \in Nat /\ DOMAIN s = 1..Len(s) /\ s = [n \in 1..Len(s) |-> s[n]]
         /\ \A n \in DOMAIN s : s[n] \in Elems(s)
<1>1. s \in Seq(Elems(s))
  BY DEF IsList
<1>2. Len(s) \in Nat /\ DOMAIN s = 1..Len(s)
  BY <1>1, Elements
<1>3. s = [n \in 1..Len(s) |-> s[n]]
  BY <1>1
<1> QED
  BY <1>2, <1>3 DEF Elems

\* A list is a sequence of whatever all its elements are ...
LEMMA ListOf ==
  ASSUME NEW s, IsList(s), NEW E, \A n \in DOMAIN s : s[n] \in E
  PROVE  s \in Seq(E)
<1>1. Len(s) \in Nat /\ DOMAIN s = 1..Len(s) /\ s = [n \in 1..Len(s) |-> s[n]]
  BY ListFacts
<1>2. s \in [1..Len(s) -> E]
  BY <1>1
<1> QED
  BY <1>1, <1>2

\* ... and a sequence of anything is a list.
LEMMA IsOne ==
  ASSUME NEW E, NEW s \in Seq(E)
  PROVE  IsList(s)
<1>1. Len(s) \in Nat /\ DOMAIN s = 1..Len(s)
  BY Elements
<1>2. s \in [1..Len(s) -> Elems(s)]
  BY <1>1 DEF Elems
<1> QED
  BY <1>1, <1>2 DEF IsList

\* So is a function on the first numbers.
LEMMA ListByPlace ==
  ASSUME NEW k \in Nat, NEW s, s = [n \in 1..k |-> s[n]]
  PROVE  IsList(s) /\ Len(s) = k /\ DOMAIN s = 1..k
<1>1. DOMAIN s = 1..k
  OBVIOUS
<1>2. s \in [1..k -> Elems(s)]
  BY <1>1 DEF Elems
<1>3. s \in Seq(Elems(s)) /\ Len(s) = k
  BY <1>1, <1>2
<1> QED
  BY <1>1, <1>3 DEF IsList

\* There is one with nothing in it.
LEMMA EmptyList == IsList(<<>>) /\ Len(<<>>) = 0 /\ DOMAIN <<>> = {}
<1>1. <<>> \in Seq({})
  OBVIOUS
<1>2. IsList(<<>>)
  BY <1>1, IsOne
<1>3. Len(<<>>) = 0
  OBVIOUS
<1> QED
  BY <1>2, <1>3, ListFacts

\* One element more ...
LEMMA ListAppend ==
  ASSUME NEW s, IsList(s), NEW e
  PROVE  /\ IsList(Append(s, e)) /\ Len(Append(s, e)) = Len(s) + 1
         /\ DOMAIN Append(s, e) = 1..(Len(s) + 1) /\ Append(s, e)[Len(s) + 1] = e
         /\ \A n \in DOMAIN s : n \in DOMAIN Append(s, e) /\ Append(s, e)[n] = s[n]
<1> DEFINE E == Elems(s) \cup {e}
<1>1. s \in Seq(E) /\ e \in E
  BY ListFacts, ListOf
<1>2. /\ Append(s, e) \in Seq(E) /\ Len(s) \in Nat
      /\ DOMAIN Append(s, e) = 1..(Len(s) + 1) /\ DOMAIN s = 1..Len(s)
      /\ Append(s, e)[Len(s) + 1] = e
      /\ \A j \in DOMAIN s : Append(s, e)[j] = s[j]
  BY <1>1, Appended
<1>3. Len(Append(s, e)) = Len(s) + 1
  BY <1>1, AppendProperties
<1>4. IsList(Append(s, e))
  BY <1>2, IsOne
<1> QED
  BY <1>2, <1>3, <1>4

\* ... and one list after the other.
LEMMA ListConcat ==
  ASSUME NEW s, IsList(s), NEW r, IsList(r)
  PROVE  /\ IsList(s \o r) /\ Len(s \o r) = Len(s) + Len(r) /\ DOMAIN (s \o r) = 1..(Len(s) + Len(r))
         /\ \A n \in 1..Len(s) : (s \o r)[n] = s[n]
         /\ \A n \in 1..Len(r) : (s \o r)[Len(s) + n] = r[n]
         /\ Elems(s \o r) = Elems(s) \cup Elems(r)
<1> DEFINE E == Elems(s) \cup Elems(r)
           t == s \o r
<1>1. s \in Seq(E) /\ r \in Seq(E)
  BY ListFacts, ListOf
<1>2. t \in Seq(E) /\ Elems(t) = Elems(s) \cup Elems(r)
  BY <1>1, ElemsOfTwo
<1>3. Len(s) \in Nat /\ Len(r) \in Nat
  BY ListFacts
<1>4. Len(t) = Len(s) + Len(r) /\ \A n \in 1..(Len(s) + Len(r)) : t[n] = IF n <= Len(s) THEN s[n] ELSE r[n - Len(s)]
  BY <1>1, ConcatProperties
<1> HIDE DEF t, E
<1>5. IsList(t) /\ DOMAIN t = 1..(Len(s) + Len(r))
  BY <1>2, <1>4, IsOne, Elements
<1>6. \A n \in 1..Len(s) : t[n] = s[n]
  BY <1>3, <1>4
<1>7. ASSUME NEW n \in 1..Len(r)
      PROVE  t[Len(s) + n] = r[n]
  <2>1. Len(s) + n \in 1..(Len(s) + Len(r)) /\ ~(Len(s) + n <= Len(s)) /\ (Len(s) + n) - Len(s) = n
    BY <1>3
  <2> QED
    BY <1>4, <2>1
<1> QED
  BY <1>2, <1>4, <1>5, <1>6, <1>7 DEF t

\* The list t is s and then r, place by place.
OneThenOther(t, s, r) ==
  /\ IsList(t) /\ Len(t) = Len(s) + Len(r) /\ DOMAIN t = 1..(Len(s) + Len(r))
  /\ \A n \in 1..Len(s) : t[n] = s[n]
  /\ \A n \in 1..Len(r) : t[Len(s) + n] = r[n]
  /\ Elems(t) = Elems(s) \cup Elems(r)

\* The same of a list by its name.
LEMMA ListOfTwo ==
  ASSUME NEW s, IsList(s), NEW r, IsList(r), NEW t, t = s \o r
  PROVE  OneThenOther(t, s, r)
BY ListConcat DEF OneThenOther

\* A list of lists, one after the other, is a list of all that is in them ...
LEMMA ListChained ==
  ASSUME NEW s, IsList(s), \A n \in DOMAIN s : IsList(s[n])
  PROVE  /\ IsList(Chained(s))
         /\ \A e : e \in Elems(Chained(s)) <=> \E n \in DOMAIN s : e \in Elems(s[n])
<1> DEFINE E == UNION {Elems(s[n]) : n \in DOMAIN s}
<1>1. ASSUME NEW n \in DOMAIN s
      PROVE  s[n] \in Seq(E)
  BY <1>1, ListFacts, ListOf
<1> HIDE DEF E
<1>2. s \in Seq(Seq(E))
  BY <1>1, ListOf
<1>3. /\ Chained(s) \in Seq(E)
      /\ \A e : e \in Elems(Chained(s)) <=> \E n \in DOMAIN s : e \in Elems(s[n])
  BY <1>2, ChainedElems
<1>4. IsList(Chained(s))
  BY <1>3, IsOne
<1> QED
  BY <1>3, <1>4

\* ... with one more list if there is one more.
LEMMA ListChainedAppend ==
  ASSUME NEW s, IsList(s), \A n \in DOMAIN s : IsList(s[n]), NEW r, IsList(r)
  PROVE  Chained(Append(s, r)) = Chained(s) \o r
<1> DEFINE F == UNION {Elems(s[n]) : n \in DOMAIN s}
           E == F \cup Elems(r)
<1>1. ASSUME NEW n \in DOMAIN s
      PROVE  s[n] \in Seq(E)
  BY <1>1, ListFacts, ListOf
<1> HIDE DEF F
<1>2. r \in Seq(E)
  BY ListFacts, ListOf
<1> HIDE DEF E
<1>3. s \in Seq(Seq(E))
  BY <1>1, ListOf
<1> QED
  BY <1>2, <1>3, ChainedAppend

-----------------------------------------------------------------------------
(* What a turn is grounded on: the searches and the report *)

\* What the assumption says, each part by name.
LEMMA TurnFacts ==
  /\ IsList(Message) /\ \A text \in Texts : IsList(text)
  /\ \A past \in Pasts : IsList(past) /\ \A n \in DOMAIN past : IsList(past[n].text)
  /\ IsList(LocalKnowledge) /\ \A answer \in ServiceAnswers : IsList(answer.chunks)
  /\ ManyChunks \in Nat /\ FewChunks \in Nat /\ MaxSearchRounds \in Nat /\ MaxToolUses \in Nat
BY GroundingAssumption

\* A search was done: its query and its plan are those of its text, and it found what there was.
SearchIs(search) ==
  /\ search.text \in Texts
  /\ search.rewrite = buildRewritePlan(search.text, setup.past)
  /\ search.plan = buildRetrievalPlan(search.text, search.rewrite)
  /\ IF search.plan.retrieve
       THEN \E gathered \in Gathered(search.rewrite, search.plan) : search.chunks = gathered.chunks /\ search.by = gathered.by
       ELSE search.chunks = <<>> /\ search.by = Nothing

\* The chunks of each search.
FoundBy(searches) == [n \in DOMAIN searches |-> searches[n].chunks]

\* The plans of the last search, if there was one.
PlansOf(searches) ==
  IF searches = <<>> THEN <<>>
  ELSE <<searches[Len(searches)].rewrite, searches[Len(searches)].plan>>

\* The execution is that of the last search that looked, if one did.
LastOneRan(searches, ran) ==
  \/ ran = Nothing /\ \A n \in DOMAIN searches : ~searches[n].plan.retrieve
  \/ \E n \in DOMAIN searches :
       /\ searches[n].plan.retrieve /\ ran = searches[n].by
       /\ \A m \in DOMAIN searches : m > n => ~searches[m].plan.retrieve

\* What was prepared is made of what was found.
PreparedFrom ==
  \E tooLong, summary \in BOOLEAN, recorded \in TurnStages :
     prepared =
       <<[result |-> Result,
          request |-> IF tooLong THEN TrimGrounding(FinalMessages) ELSE FinalMessages,
          second |-> buildModelMessages(summary),
          nodes |-> Nodes(recorded)]>>

\* All the searches were done.
AllDone == \E searches \in {looked} : \A n \in DOMAIN searches : SearchIs(searches[n])

\* The searches were all done, the evidence is what they found, the plans and the execution
\* are of the last of them, and what is prepared is of all that.
GroundingInv ==
  /\ setup \in Setups /\ turn \in {"gathering", "prepared", "thrown"}
  /\ IsList(looked) /\ Len(looked) <= MaxSearchRounds
  /\ IsList(toolUses) /\ Len(toolUses) <= MaxToolUses
  /\ AllDone /\ \A n \in DOMAIN looked : IsList(looked[n].chunks)
  /\ IsList(evidence) /\ evidence = Chained(FoundBy(looked))
  /\ finalPlans = PlansOf(looked)
  /\ LastOneRan(looked, execution)
  /\ turn = "prepared" => PreparedFrom

\* It holds as the turn begins ...
LEMMA InitGrounding == GroundingInit => GroundingInv
<1> SUFFICES ASSUME GroundingInit PROVE GroundingInv
  OBVIOUS
<1>1. /\ setup \in Setups /\ turn = "gathering" /\ looked = <<>> /\ evidence = <<>> /\ toolUses = <<>>
      /\ finalPlans = <<>> /\ execution = Nothing
  BY DEF GroundingInit
<1>2. IsList(<<>>) /\ Len(<<>>) = 0 /\ DOMAIN <<>> = {}
  BY EmptyList
<1>3. MaxSearchRounds \in Nat /\ MaxToolUses \in Nat
  BY TurnFacts
<1>4. FoundBy(<<>>) = <<>>
  BY <1>2 DEF FoundBy
<1>5. Chained(<<>>) = <<>>
  <2>1. Len(<<>>) \in Nat
    BY <1>2
  <2>2. ChainedOf(<<>>)[0] = <<>>
    BY <2>1, ChainedSteps
  <2> QED
    BY <1>2, <2>2 DEF Chained
<1>6. PlansOf(<<>>) = <<>> /\ LastOneRan(<<>>, Nothing)
  BY <1>2 DEF PlansOf, LastOneRan
<1> QED
  BY <1>1, <1>2, <1>3, <1>4, <1>5, <1>6 DEF GroundingInv, AllDone

\* A search that was done stays done, as the setup does not change.
LEMMA SearchStays ==
  ASSUME setup' = setup, NEW search
  PROVE  SearchIs(search)' = SearchIs(search)
BY DEF SearchIs, Gathered, AskService, buildRetrievalBoundary, buildRetrievalPlan, SelectedBases

\* So do all of them.
LEMMA DoneStay ==
  ASSUME setup' = setup, NEW searches, looked' = searches, \A n \in DOMAIN searches : SearchIs(searches[n])
  PROVE  AllDone'
<1>1. \A n \in DOMAIN searches : SearchIs(searches[n])'
  BY SearchStays
<1> QED
  BY <1>1 DEF AllDone

\* One search more, at the end of the list.
LEMMA OneMoreSearch ==
  ASSUME NEW searches, IsList(searches), NEW search, NEW ran, LastOneRan(searches, ran)
  PROVE  /\ FoundBy(Append(searches, search)) = Append(FoundBy(searches), search.chunks)
         /\ IsList(FoundBy(searches)) /\ DOMAIN FoundBy(searches) = DOMAIN searches
         /\ PlansOf(Append(searches, search)) = <<search.rewrite, search.plan>>
         /\ search.plan.retrieve => LastOneRan(Append(searches, search), search.by)
         /\ ~search.plan.retrieve => LastOneRan(Append(searches, search), ran)
<1> DEFINE all == Append(searches, search)
           gathered == FoundBy(searches)
           more == Append(gathered, search.chunks)
           k == Len(searches)
<1>1. k \in Nat /\ DOMAIN searches = 1..k
  BY ListFacts
<1>2. /\ IsList(all) /\ Len(all) = k + 1 /\ DOMAIN all = 1..(k + 1) /\ all[k + 1] = search
      /\ \A n \in DOMAIN searches : n \in DOMAIN all /\ all[n] = searches[n]
  BY ListAppend
<1>3. gathered = [n \in 1..k |-> gathered[n]] /\ \A n \in 1..k : gathered[n] = searches[n].chunks
  BY <1>1 DEF FoundBy
<1>4. IsList(gathered) /\ Len(gathered) = k /\ DOMAIN gathered = 1..k
  <2> HIDE DEF gathered, k
  <2> QED
    BY <1>1, <1>3, ListByPlace
<1>5. /\ IsList(more) /\ Len(more) = k + 1 /\ DOMAIN more = 1..(k + 1) /\ more[k + 1] = search.chunks
      /\ \A n \in 1..k : more[n] = gathered[n]
  <2> HIDE DEF gathered, k
  <2> QED
    BY <1>4, ListAppend
<1>6. FoundBy(all) = [n \in 1..(k + 1) |-> all[n].chunks]
  BY <1>2 DEF FoundBy
<1> HIDE DEF all, gathered, more, k
<1>7. more = [n \in 1..(k + 1) |-> more[n]]
  BY <1>5, ListFacts
<1>8. \A n \in 1..(k + 1) : all[n].chunks = more[n]
  <2> TAKE n \in 1..(k + 1)
  <2>1. n \in 1..k \/ n = k + 1
    BY <1>1
  <2> QED
    BY <1>1, <1>2, <1>3, <1>5, <2>1
<1>9. FoundBy(all) = more
  BY <1>6, <1>7, <1>8
<1>10. all # <<>>
  <2>1. Len(all) # 0
    BY <1>1, <1>2
  <2> QED
    BY <2>1, EmptyList
<1>11. PlansOf(all) = <<search.rewrite, search.plan>>
  BY <1>2, <1>10 DEF PlansOf
<1>12. ASSUME search.plan.retrieve
       PROVE  LastOneRan(all, search.by)
  <2>1. k + 1 \in DOMAIN all /\ \A m \in DOMAIN all : ~(m > k + 1)
    BY <1>1, <1>2
  <2> QED
    BY <1>2, <1>12, <2>1 DEF LastOneRan
<1>13. ASSUME ~search.plan.retrieve
       PROVE  LastOneRan(all, ran)
  <2>1. \A m \in DOMAIN all : m \in DOMAIN searches \/ all[m] = search
    <3> TAKE m \in DOMAIN all
    <3>1. m \in 1..k \/ m = k + 1
      BY <1>1, <1>2
    <3> QED
      BY <1>1, <1>2, <3>1
  <2>2. CASE ran = Nothing /\ \A n \in DOMAIN searches : ~searches[n].plan.retrieve
    <3>1. \A n \in DOMAIN all : ~all[n].plan.retrieve
      BY <1>2, <1>13, <2>1, <2>2
    <3> QED
      BY <2>2, <3>1 DEF LastOneRan
  <2>3. CASE \E n \in DOMAIN searches :
               /\ searches[n].plan.retrieve /\ ran = searches[n].by
               /\ \A m \in DOMAIN searches : m > n => ~searches[m].plan.retrieve
    <3>1. PICK n \in DOMAIN searches :
               /\ searches[n].plan.retrieve /\ ran = searches[n].by
               /\ \A m \in DOMAIN searches : m > n => ~searches[m].plan.retrieve
      BY <2>3
    <3>2. n \in DOMAIN all /\ all[n] = searches[n]
      BY <1>2
    <3>3. \A m \in DOMAIN all : m > n => ~all[m].plan.retrieve
      BY <1>2, <1>13, <2>1, <3>1
    <3> QED
      BY <3>1, <3>2, <3>3 DEF LastOneRan
  <2> QED
    BY <2>2, <2>3 DEF LastOneRan
<1>14. FoundBy(all) = Append(gathered, search.chunks)
  BY <1>9 DEF more
<1>15. IsList(gathered) /\ DOMAIN gathered = DOMAIN searches
  BY <1>1, <1>4
<1> QED
  BY <1>11, <1>12, <1>13, <1>14, <1>15 DEF all, gathered

\* What the server itself finds is a list, and so is what the service answers.
LEMMA FoundIsList ==
  ASSUME NEW rewrite, NEW aPlan, NEW gathered \in Gathered(rewrite, aPlan)
  PROVE  /\ IsList(gathered.chunks) /\ gathered.by.adapter \in {LocalAdapter, ServiceAdapter}
         /\ gathered.by.adapter = LocalAdapter => gathered.chunks = LocalChunks(rewrite, aPlan)
<1> DEFINE Local(runMode, source, failed) ==
             [chunks |-> LocalChunks(rewrite, aPlan), by |-> Ran(runMode, LocalAdapter, source, failed)]
<1>1. \/ gathered = Local("ts-local", LocalAdapter, FALSE)
      \/ gathered = Local("go-executor", "fallback-ts-local", TRUE)
      \/ gathered \in AskService
  BY DEF Gathered
<1>2. CASE gathered = Local("ts-local", LocalAdapter, FALSE) \/ gathered = Local("go-executor", "fallback-ts-local", TRUE)
  <2>1. gathered.chunks = LocalChunks(rewrite, aPlan) /\ gathered.by.adapter = LocalAdapter
    BY <1>2 DEF Ran
  <2>2. IsList(LocalChunks(rewrite, aPlan))

    <3> DEFINE score(i) == scoreChunk(i, rewrite.query)
               hits == {i \in visibleCorpus(aPlan) : score(i) > 0}
               IsEarlier(i) == {j \in hits : score(j) > score(i) \/ (score(j) = score(i) /\ j < i)}
               shown == {i \in hits : Cardinality(IsEarlier(i)) < aPlan.topK}
    <3>1. IsFiniteSet(shown)
      <4>1. IsFiniteSet(OwnChunks)
        <5>1. IsList(LocalKnowledge)
          BY TurnFacts
        <5>2. Len(LocalKnowledge) \in Nat /\ OwnChunks = 1..Len(LocalKnowledge)
          BY <5>1, ListFacts DEF OwnChunks
        <5> QED
          BY <5>2, FS_Interval
      <4>2. shown \subseteq OwnChunks
        BY DEF visibleCorpus
      <4> HIDE DEF shown
      <4> QED
        BY <4>1, <4>2, FS_Subset
    <3>2. Cardinality(shown) \in Nat
      BY <3>1, FS_CardinalityType
    <3>3. LocalChunks(rewrite, aPlan) =
            [n \in 1..Cardinality(shown) |-> LocalChunks(rewrite, aPlan)[n]]
      BY DEF LocalChunks
    <3> HIDE DEF shown
    <3> QED
      BY <3>2, <3>3, ListByPlace
  <2> QED
    BY <2>1, <2>2
<1>3. CASE gathered \in AskService
  <2>1. PICK answer \in ServiceAnswers :
          gathered = [chunks |-> answer.chunks, by |-> Ran("go-executor", ServiceAdapter, SourceOf(answer), FALSE)]
    BY <1>3 DEF AskService
  <2>2. gathered.chunks = answer.chunks /\ gathered.by.adapter = ServiceAdapter
    BY <2>1 DEF Ran
  <2>3. ServiceAdapter # LocalAdapter
    BY DEF ServiceAdapter, LocalAdapter
  <2> QED
    BY <2>2, <2>3, TurnFacts
<1> QED
  BY <1>1, <1>2, <1>3

\* The invariant holds after each step.
LEMMA NextGrounding == GroundingInv /\ [GroundingNext]_groundingVars => GroundingInv'
<1> SUFFICES ASSUME GroundingInv, [GroundingNext]_groundingVars PROVE GroundingInv'
  OBVIOUS
<1>0. /\ setup \in Setups /\ turn \in {"gathering", "prepared", "thrown"}
      /\ IsList(looked) /\ Len(looked) <= MaxSearchRounds
      /\ IsList(toolUses) /\ Len(toolUses) <= MaxToolUses
      /\ \A n \in DOMAIN looked : IsList(looked[n].chunks)
      /\ IsList(evidence) /\ evidence = Chained(FoundBy(looked))
      /\ finalPlans = PlansOf(looked)
      /\ LastOneRan(looked, execution)
      /\ turn = "prepared" => PreparedFrom
  BY DEF GroundingInv
<1>01. PICK searches : searches = looked /\ \A n \in DOMAIN searches : SearchIs(searches[n])
  BY DEF GroundingInv, AllDone
<1>02. setup' = setup /\ looked' = looked => AllDone'
  BY <1>01, DoneStay
<1>1. ASSUME NEW text \in Texts, SearchKnowledge(text)
      PROVE  GroundingInv'
  <2> DEFINE rewrite == buildRewritePlan(text, setup.past)
             aPlan == buildRetrievalPlan(text, rewrite)
             Did(chunks, by) == [text |-> text, rewrite |-> rewrite, plan |-> aPlan, chunks |-> chunks, by |-> by]
  <2>1. /\ turn = "gathering" /\ Len(looked) < MaxSearchRounds /\ setup' = setup /\ turn' = turn
        /\ toolUses' = toolUses /\ prepared' = prepared
        /\ finalPlans' = <<rewrite, aPlan>>
    BY <1>1 DEF SearchKnowledge
  <2>2. PICK chunks, by :
          /\ looked' = Append(looked, Did(chunks, by)) /\ IsList(chunks)
          /\ evidence' = evidence \o chunks
          /\ execution' = IF aPlan.retrieve THEN by ELSE execution
          /\ IF aPlan.retrieve THEN \E gathered \in Gathered(rewrite, aPlan) : chunks = gathered.chunks /\ by = gathered.by
             ELSE chunks = <<>> /\ by = Nothing
    <3>1. CASE aPlan.retrieve
      <4>1. PICK gathered \in Gathered(rewrite, aPlan) :
              /\ evidence' = evidence \o gathered.chunks
              /\ execution' = gathered.by
              /\ looked' = Append(looked, Did(gathered.chunks, gathered.by))
        BY <1>1, <3>1 DEF SearchKnowledge
      <4>2. IsList(gathered.chunks)
        BY FoundIsList
      <4> HIDE DEF rewrite, aPlan
      <4> QED
        BY <3>1, <4>1, <4>2
    <3>2. CASE ~aPlan.retrieve
      <4>1. evidence' = evidence /\ execution' = execution /\ looked' = Append(looked, Did(<<>>, Nothing))
        BY <1>1, <3>2 DEF SearchKnowledge
      <4>2. evidence \o <<>> = evidence
        BY <1>0, ConcatEmptySeq DEF IsList
      <4> HIDE DEF rewrite, aPlan
      <4> QED
        BY <3>2, <4>1, <4>2, EmptyList
    <3> QED
      BY <3>1, <3>2
  <2> DEFINE search == Did(chunks, by)
  <2>3. /\ search.text = text /\ search.rewrite = rewrite /\ search.plan = aPlan
        /\ search.chunks = chunks /\ search.by = by /\ looked' = Append(looked, search)
    BY <2>2
  <2>4. SearchIs(search)
    BY <2>2, <2>3 DEF SearchIs
  <2> HIDE DEF search, rewrite, aPlan
  <2>5. /\ IsList(looked') /\ Len(looked') = Len(looked) + 1
        /\ DOMAIN looked' = 1..(Len(looked) + 1) /\ looked'[Len(looked) + 1] = search
        /\ \A n \in DOMAIN looked : looked'[n] = looked[n]
    BY <1>0, <2>3, ListAppend
  <2>6. Len(looked) \in Nat /\ DOMAIN looked = 1..Len(looked)
    BY <1>0, ListFacts
  <2>7. Len(looked') <= MaxSearchRounds
    BY <2>1, <2>5, <2>6, TurnFacts
  <2>8. \A n \in DOMAIN looked' : looked'[n] = search \/ (n \in DOMAIN looked /\ looked'[n] = looked[n])
    <3> TAKE n \in DOMAIN looked'
    <3>1. CASE n = Len(looked) + 1
      BY <2>5, <3>1
    <3>2. CASE n # Len(looked) + 1
      <4>1. n \in DOMAIN looked
        BY <2>5, <2>6, <3>2
      <4> QED
        BY <2>5, <4>1
    <3> QED
      BY <3>1, <3>2
  <2>9. /\ FoundBy(looked') = Append(FoundBy(looked), chunks)
        /\ IsList(FoundBy(looked)) /\ DOMAIN FoundBy(looked) = DOMAIN looked
        /\ PlansOf(looked') = <<rewrite, aPlan>>
        /\ LastOneRan(looked', execution')
    BY <1>0, <2>2, <2>3, OneMoreSearch
  <2>10. \A n \in DOMAIN FoundBy(looked) : IsList(FoundBy(looked)[n])
    BY <1>0, <2>9 DEF FoundBy
  <2>11. Chained(FoundBy(looked')) = Chained(FoundBy(looked)) \o chunks
    BY <2>2, <2>9, <2>10, ListChainedAppend
  <2>12. IsList(evidence') /\ evidence' = Chained(FoundBy(looked'))
    BY <1>0, <2>2, <2>11, ListConcat
  <2>13. \A n \in DOMAIN looked' : IsList(looked'[n].chunks)
    BY <1>0, <2>2, <2>3, <2>8
  <2>14. PICK more : more = looked'
    OBVIOUS
  <2>15. \A n \in DOMAIN more : SearchIs(more[n])
    BY <1>01, <2>4, <2>8, <2>14
  <2>16. AllDone'
    BY <2>1, <2>14, <2>15, DoneStay
  <2> QED
    BY <1>0, <2>1, <2>5, <2>7, <2>9, <2>12, <2>13, <2>16 DEF GroundingInv
<1>2. ASSUME NEW text \in Texts, RetrievalThrows(text)
      PROVE  GroundingInv'
  BY <1>0, <1>02, <1>2 DEF RetrievalThrows, GroundingInv
<1>3. CASE UseTool
  <2>1. PICK status : toolUses' = Append(toolUses, status)
    BY <1>3 DEF UseTool
  <2>2. /\ turn = "gathering" /\ Len(toolUses) < MaxToolUses /\ setup' = setup /\ turn' = turn
        /\ looked' = looked /\ evidence' = evidence /\ finalPlans' = finalPlans /\ execution' = execution
    BY <1>3 DEF UseTool
  <2>3. IsList(toolUses') /\ Len(toolUses') = Len(toolUses) + 1
    BY <1>0, <2>1, ListAppend
  <2>4. Len(toolUses') <= MaxToolUses
    BY <1>0, <2>2, <2>3, ListFacts, TurnFacts
  <2> QED
    BY <1>0, <1>02, <2>2, <2>3, <2>4 DEF GroundingInv
<1>4. CASE Prepare
  <2>1. /\ setup' = setup /\ turn' = "prepared" /\ toolUses' = toolUses
        /\ looked' = looked /\ evidence' = evidence /\ finalPlans' = finalPlans /\ execution' = execution
    BY <1>4 DEF Prepare
  <2>2. Result' = Result
    BY <2>1 DEF Result, assembleContext, Sections, Plans
  <2>3. TurnStages' = TurnStages
    BY <2>1 DEF TurnStages, traceStages
  <2>4. FinalMessages' = FinalMessages /\ \A summary : buildModelMessages(summary)' = buildModelMessages(summary)
    BY <2>1 DEF FinalMessages, buildModelMessages, Recalled
  <2>5. PreparedFrom'
    <3>1. \E tooLong, summary \in BOOLEAN, recorded \in TurnStages :
            prepared' =
               <<[result |-> Result,
                  request |-> IF tooLong THEN TrimGrounding(FinalMessages) ELSE FinalMessages,
                  second |-> buildModelMessages(summary),
                  nodes |-> Nodes(recorded)]>>
      BY <1>4 DEF Prepare
    <3> QED
      BY <2>2, <2>3, <2>4, <3>1 DEF PreparedFrom
  <2> QED
    BY <1>0, <1>02, <2>1, <2>5 DEF GroundingInv
<1>5. CASE UNCHANGED groundingVars
  <2>1. /\ setup' = setup /\ turn' = turn /\ toolUses' = toolUses /\ prepared' = prepared
        /\ looked' = looked /\ evidence' = evidence /\ finalPlans' = finalPlans /\ execution' = execution
    BY <1>5 DEF groundingVars
  <2>2. PreparedFrom' = PreparedFrom
    BY <2>1 DEF PreparedFrom, TurnStages, traceStages, Result, assembleContext, Sections, Plans, FinalMessages, buildModelMessages, Recalled
  <2> QED
    BY <1>0, <1>02, <2>1, <2>2 DEF GroundingInv
<1> QED
  BY <1>1, <1>2, <1>3, <1>4, <1>5 DEF GroundingNext

\* Whoever ran is not nobody.
LEMMA RanIsSomething ==
  ASSUME NEW search, SearchIs(search), search.plan.retrieve
  PROVE  search.by # Nothing /\ search.by.adapter \in {LocalAdapter, ServiceAdapter}
<1>1. PICK gathered \in Gathered(search.rewrite, search.plan) : search.by = gathered.by
  BY DEF SearchIs
<1>2. search.by.adapter \in {LocalAdapter, ServiceAdapter}
  BY <1>1, FoundIsList
<1>3. Nothing.adapter = NoAdapter /\ NoAdapter \notin {LocalAdapter, ServiceAdapter}
  BY DEF Nothing, NoAdapter, LocalAdapter, ServiceAdapter
<1> QED
  BY <1>2, <1>3

\* What is reported is of the last search, and of the last that looked.
LEMMA ReportOfLast == GroundingInv => ReportIsOfLastSearch
<1> SUFFICES ASSUME GroundingInv, turn = "prepared", looked # <<>> PROVE ReportIsOfLastSearch
  BY DEF ReportIsOfLastSearch
<1> DEFINE last == looked[Len(looked)]
           ran == {n \in DOMAIN looked : looked[n].plan.retrieve}
           result == prepared[1].result
<1>1. /\ IsList(looked) /\ finalPlans = PlansOf(looked) /\ LastOneRan(looked, execution)
      /\ PreparedFrom /\ \A n \in DOMAIN looked : SearchIs(looked[n])
  BY DEF GroundingInv, AllDone
<1>2. result = Result
  BY <1>1 DEF PreparedFrom
<1>3. finalPlans = <<last.rewrite, last.plan>>
  BY <1>1 DEF PlansOf
<1>4. finalPlans # <<>> /\ finalPlans[1] = last.rewrite /\ finalPlans[2] = last.plan
  BY <1>3
<1>5. Plans = finalPlans
  BY <1>4 DEF Plans
<1>6. result.rewrite = last.rewrite /\ result.plan = last.plan /\ result.execution = execution
  BY <1>2, <1>4, <1>5 DEF Result
<1> HIDE DEF result
<1>7. Len(looked) \in Nat /\ DOMAIN looked = 1..Len(looked) /\ Len(looked) # 0
  <2>1. Len(looked) \in Nat /\ DOMAIN looked = 1..Len(looked) /\ looked = [n \in 1..Len(looked) |-> looked[n]]
    BY <1>1, ListFacts
  <2>2. ASSUME Len(looked) = 0 PROVE FALSE
    <3>1. looked = [n \in {} |-> looked[n]]
      BY <2>1, <2>2
    <3>2. <<>> = [n \in {} |-> looked[n]]
      OBVIOUS
    <3> QED
      BY <3>1, <3>2
  <2> QED
    BY <2>1, <2>2
<1>8. Len(looked) \in DOMAIN looked /\ \A m \in DOMAIN looked : ~(m > Len(looked))
  BY <1>7
<1>9. CASE execution = Nothing /\ \A n \in DOMAIN looked : ~looked[n].plan.retrieve
  <2>1. ran = {} /\ ~last.plan.retrieve
    BY <1>8, <1>9
  <2> QED
    BY <1>6, <1>9, <2>1 DEF ReportIsOfLastSearch, result
<1>10. CASE \E n \in DOMAIN looked :
              /\ looked[n].plan.retrieve /\ execution = looked[n].by
              /\ \A m \in DOMAIN looked : m > n => ~looked[m].plan.retrieve
  <2>1. PICK n \in DOMAIN looked :
              /\ looked[n].plan.retrieve /\ execution = looked[n].by
              /\ \A m \in DOMAIN looked : m > n => ~looked[m].plan.retrieve
    BY <1>10
  <2>2. n \in ran /\ execution # Nothing
    BY <1>1, <2>1, RanIsSomething
  <2>3. last.plan.retrieve => execution = last.by
    <3>1. n <= Len(looked) /\ n \in Nat
      BY <1>7
    <3>2. last.plan.retrieve => ~(Len(looked) > n)
      BY <1>8, <2>1
    <3> QED
      BY <1>7, <2>1, <3>1, <3>2
  <2>4. \A k \in ran : execution = looked[k].by \/ \E m \in ran : m > k
    <3> TAKE k \in ran
    <3>1. k \in DOMAIN looked /\ looked[k].plan.retrieve
      OBVIOUS
    <3>2. ~(k > n)
      BY <2>1, <3>1
    <3>3. k \in Nat /\ n \in Nat
      BY <1>7, <3>1
    <3>4. k = n \/ n > k
      BY <3>2, <3>3
    <3> QED
      BY <2>1, <2>2, <3>4
  <2>5. ran # {}
    BY <2>2
  <2> HIDE DEF ran, last
  <2> QED
    BY <1>6, <2>2, <2>3, <2>4, <2>5 DEF ReportIsOfLastSearch, result, ran, last
<1> QED
  BY <1>1, <1>9, <1>10 DEF LastOneRan

\* A list is empty just if nothing is in it.
LEMMA NothingInIt ==
  ASSUME NEW s, IsList(s)
  PROVE  s = <<>> <=> Elems(s) = {}
<1>1. Len(s) \in Nat /\ DOMAIN s = 1..Len(s) /\ s = [n \in 1..Len(s) |-> s[n]]
  BY ListFacts
<1>2. Elems(<<>>) = {}
  BY EmptyList DEF Elems
<1>3. ASSUME Elems(s) = {}
      PROVE  s = <<>>
  <2>1. DOMAIN s = {}
    BY <1>3 DEF Elems
  <2>2. s = [n \in {} |-> s[n]]
    BY <1>1, <2>1
  <2>3. <<>> = [n \in {} |-> s[n]]
    OBVIOUS
  <2> QED
    BY <2>2, <2>3
<1> QED
  BY <1>2, <1>3

\* The evidence is all that was found, and the answer says so.
LEMMA EvidenceWhole == GroundingInv => EvidenceIsAll
<1> SUFFICES ASSUME GroundingInv PROVE EvidenceIsAll
  OBVIOUS
<1>1. /\ IsList(looked) /\ \A n \in DOMAIN looked : IsList(looked[n].chunks)
      /\ IsList(evidence) /\ evidence = Chained(FoundBy(looked)) /\ LastOneRan(looked, execution)
      /\ turn = "prepared" => PreparedFrom
  BY DEF GroundingInv
<1>2. IsList(FoundBy(looked)) /\ DOMAIN FoundBy(looked) = DOMAIN looked
  BY <1>1, OneMoreSearch
<1>3. \A n \in DOMAIN looked : FoundBy(looked)[n] = looked[n].chunks
  BY DEF FoundBy
<1>4. \A e : e \in Elems(evidence) <=> \E n \in DOMAIN looked : e \in Elems(looked[n].chunks)
  <2>1. \A e : e \in Elems(Chained(FoundBy(looked))) <=> \E n \in DOMAIN FoundBy(looked) : e \in Elems(FoundBy(looked)[n])
    BY <1>1, <1>2, <1>3, ListChained
  <2> QED
    BY <1>1, <1>2, <1>3, <2>1
<1>5. evidence # <<>> <=> \E n \in DOMAIN looked : looked[n].chunks # <<>>
  <2>1. evidence # <<>> <=> \E e : e \in Elems(evidence)
    BY <1>1, NothingInIt
  <2>2. \A n \in DOMAIN looked : looked[n].chunks # <<>> <=> \E e : e \in Elems(looked[n].chunks)
    BY <1>1, NothingInIt
  <2> QED
    BY <1>4, <2>1, <2>2
<1>6. ASSUME turn = "prepared"
      PROVE  /\ prepared[1].result.useRetrieval <=> evidence # <<>>
             /\ "knowledge" \in Elems(prepared[1].result.sections) <=> prepared[1].result.scene \in {"kb", "mixed"}
             /\ "tools" \in Elems(prepared[1].result.sections) <=> prepared[1].result.scene \in {"mcp", "mixed"}
             /\ prepared[1].result.useRetrieval <=> prepared[1].result.scene \in {"kb", "mixed"}
  <2>1. prepared[1].result = Result
    BY <1>1, <1>6 DEF PreparedFrom
  <2>2. /\ prepared[1].result.useRetrieval = (evidence # <<>>)
        /\ prepared[1].result.sections = Sections /\ prepared[1].result.scene = assembleContext
    BY <2>1 DEF Result
  <2>3. Elems(Sections) = {"query"} \cup (IF evidence # <<>> THEN {"knowledge"} ELSE {})
                            \cup (IF toolUses # <<>> THEN {"tools"} ELSE {})
    <3> DEFINE a == IF evidence # <<>> THEN <<"knowledge">> ELSE <<>>
               b == IF toolUses # <<>> THEN <<"tools">> ELSE <<>>
    <3>1. \A x : IsList(<<x>>) /\ Elems(<<x>>) = {x}
      <4> TAKE x
      <4>1. <<x>> \in Seq({x}) /\ DOMAIN <<x>> = {1} /\ <<x>>[1] = x
        OBVIOUS
      <4> QED
        BY <4>1, IsOne DEF Elems
    <3>2. IsList(<<>>) /\ Elems(<<>>) = {}
      BY EmptyList, NothingInIt
    <3>3. IsList(a) /\ Elems(a) = IF evidence # <<>> THEN {"knowledge"} ELSE {}
      BY <3>1, <3>2
    <3>4. IsList(b) /\ Elems(b) = IF toolUses # <<>> THEN {"tools"} ELSE {}
      BY <3>1, <3>2
    <3>5. Sections = <<"query">> \o a \o b
      BY DEF Sections
    <3> HIDE DEF a, b
    <3>6. IsList(<<"query">>) /\ Elems(<<"query">>) = {"query"}
      BY <3>1
    <3>7. IsList(<<"query">> \o a) /\ Elems(<<"query">> \o a) = {"query"} \cup Elems(a)
      BY <3>3, <3>6, ListConcat
    <3>8. Elems((<<"query">> \o a) \o b) = ({"query"} \cup Elems(a)) \cup Elems(b)
      BY <3>4, <3>7, ListConcat
    <3> QED
      BY <3>3, <3>4, <3>5, <3>8
  <2>4. "knowledge" \in Elems(Sections) <=> evidence # <<>>
    BY <2>3
  <2>5. "tools" \in Elems(Sections) <=> toolUses # <<>>
    BY <2>3
  <2>6. /\ assembleContext \in {"kb", "mixed"} <=> evidence # <<>>
        /\ assembleContext \in {"mcp", "mixed"} <=> toolUses # <<>>
    <3>1. CASE evidence # <<>> /\ toolUses # <<>>
      BY <3>1 DEF assembleContext
    <3>2. CASE evidence # <<>> /\ toolUses = <<>>
      BY <3>2 DEF assembleContext
    <3>3. CASE evidence = <<>> /\ toolUses # <<>>
      BY <3>3 DEF assembleContext
    <3>4. CASE evidence = <<>> /\ toolUses = <<>>
      BY <3>4 DEF assembleContext
    <3> QED
      BY <3>1, <3>2, <3>3, <3>4
  <2> QED
    BY <2>2, <2>4, <2>5, <2>6
<1>7. evidence = Chained([n \in DOMAIN looked |-> looked[n].chunks])
  BY <1>1 DEF FoundBy
<1> QED
  BY <1>5, <1>6, <1>7 DEF EvidenceIsAll

\* Three one after the other, ...
LEMMA ThreeInTurn ==
  ASSUME NEW a, NEW b, NEW c
  PROVE  /\ <<a>> \o <<b>> \o <<c>> = <<a, b, c>> /\ IsList(<<a, b, c>>)
         /\ DOMAIN <<a, b, c>> = {1, 2, 3} /\ <<a, b, c>>[1] = a /\ <<a, b, c>>[2] = b /\ <<a, b, c>>[3] = c
<1>1. <<a>> \o <<b>> \o <<c>> = <<a, b, c>>
  <2> DEFINE S == {a, b, c}
  <2>1. a \in S /\ b \in S /\ c \in S
    OBVIOUS
  <2> HIDE DEF S
  <2>2. <<a>> \in Seq(S) /\ <<a, b>> \in Seq(S)
    BY <2>1
  <2>3. <<a>> \o <<b>> = <<a, b>>
    BY <2>1, <2>2, AppendIsConcat, AppendTo1
  <2>4. <<a, b>> \o <<c>> = <<a, b, c>>
    BY <2>1, <2>2, AppendIsConcat, AppendTo2
  <2> QED
    BY <2>3, <2>4
<1>2. <<a, b, c>> \in Seq({a, b, c}) /\ DOMAIN <<a, b, c>> = {1, 2, 3}
  OBVIOUS
<1> QED
  BY <1>1, <1>2, IsOne

\* ... and two with nothing between them.
LEMMA TwoInTurn ==
  ASSUME NEW a, NEW b
  PROVE  /\ <<a>> \o <<>> \o <<b>> = <<a, b>> /\ IsList(<<a, b>>)
         /\ DOMAIN <<a, b>> = {1, 2} /\ <<a, b>>[1] = a /\ <<a, b>>[2] = b
<1>1. <<a>> \o <<>> \o <<b>> = <<a, b>>
  <2> DEFINE S == {a, b}
  <2>1. a \in S /\ b \in S
    OBVIOUS
  <2> HIDE DEF S
  <2>2. <<a>> \in Seq(S)
    BY <2>1
  <2>3. <<a>> \o <<>> = <<a>>
    BY <2>2, ConcatEmptySeq
  <2>4. <<a>> \o <<b>> = <<a, b>>
    BY <2>1, <2>2, AppendIsConcat, AppendTo1
  <2> QED
    BY <2>3, <2>4
<1>2. <<a, b>> \in Seq({a, b}) /\ DOMAIN <<a, b>> = {1, 2}
  OBVIOUS
<1> QED
  BY <1>1, <1>2, IsOne

\* A request with one grounding in it, the history once and the question at its end, nothing
\* but the grounding cut.
RequestIsWhole(request) ==
  LET Kind(kind) == {n \in DOMAIN request : request[n].kind = kind}
  IN /\ Cardinality(Kind("grounding")) = 1 /\ Cardinality(Kind("history")) = Len(setup.past)
     /\ Kind("question") = {Len(request)}
     /\ \A n \in DOMAIN request : request[n].cut => request[n].kind = "grounding"

\* What comes before the history has the grounding in it, at g.
HeadHas(head, g) ==
  /\ IsList(head) /\ g \in DOMAIN head
  /\ \A n \in DOMAIN head :
       /\ head[n].kind = "grounding" <=> n = g
       /\ head[n].kind \notin {"history", "question"} /\ head[n].cut = FALSE

\* After such a head, the history and the question.
LEMMA HeadThenHistory ==
  ASSUME NEW head, NEW g, HeadHas(head, g), IsList(setup.past),
         NEW request, IsList(request), Len(request) = Len(head) + Len(setup.past) + 1,
         \A n \in 1..Len(head) : request[n].kind = head[n].kind /\ (n # g => request[n].cut = head[n].cut),
         \A n \in 1..Len(setup.past) : request[Len(head) + n] = Says("history"),
         request[Len(head) + Len(setup.past) + 1] = Says("question")
  PROVE  RequestIsWhole(request)
<1> DEFINE Kind(kind) == {n \in DOMAIN request : request[n].kind = kind}
           h == Len(head)
           p == Len(setup.past)
           q == h + p + 1
<1>1. h \in Nat /\ p \in Nat /\ DOMAIN head = 1..h /\ DOMAIN request = 1..q
  BY ListFacts DEF HeadHas
<1>2. g \in 1..h
  BY <1>1 DEF HeadHas
<1>3. \A n \in 1..h : /\ request[n].kind = "grounding" <=> n = g
                      /\ request[n].kind \notin {"history", "question"} /\ (n # g => request[n].cut = FALSE)
  BY <1>1 DEF HeadHas
<1>4. \A n \in (h + 1)..(h + p) : request[n].kind = "history" /\ request[n].cut = FALSE
  <2> TAKE n \in (h + 1)..(h + p)
  <2>1. n - h \in 1..p /\ h + (n - h) = n
    BY <1>1
  <2>2. request[h + (n - h)] = Says("history")
    BY <2>1
  <2> QED
    BY <2>1, <2>2 DEF Says
<1>5. request[q].kind = "question" /\ request[q].cut = FALSE
  BY DEF Says
<1>6. \A n \in 1..q : n \in 1..h \/ n \in (h + 1)..(h + p) \/ n = q
  BY <1>1
<1>7. q \in 1..q /\ q \notin 1..h /\ q \notin (h + 1)..(h + p) /\ (h + 1)..(h + p) \subseteq 1..q /\ 1..h \subseteq 1..q
      /\ \A n \in (h + 1)..(h + p) : n \notin 1..h
  BY <1>1
<1>8. q = Len(request)
  OBVIOUS
<1> HIDE DEF h, p, q
<1>9. Kind("grounding") = {g}
  BY <1>1, <1>2, <1>3, <1>4, <1>5, <1>6, <1>7
<1>10. Kind("history") = (h + 1)..(h + p)
  BY <1>1, <1>3, <1>4, <1>5, <1>6, <1>7
<1>11. Kind("question") = {q}
  BY <1>1, <1>3, <1>4, <1>5, <1>6, <1>7
<1>12. Cardinality({g}) = 1
  BY FS_Singleton
<1>13. Cardinality((h + 1)..(h + p)) = p
  BY <1>1, FS_Interval
<1>14. \A n \in DOMAIN request : request[n].cut => request[n].kind = "grounding"
  BY <1>1, <1>3, <1>4, <1>5, <1>6
<1> QED
  BY <1>8, <1>9, <1>10, <1>11, <1>12, <1>13, <1>14 DEF RequestIsWhole, p

\* What a request is made of, place by place.
LEMMA RequestPlaces ==
  ASSUME NEW head, IsList(head), IsList(setup.past)
  PROVE  LET request == head \o Recalled \o <<Says("question")>> IN
         /\ IsList(request) /\ Len(request) = Len(head) + Len(setup.past) + 1
         /\ \A n \in 1..Len(head) : request[n] = head[n]
         /\ \A n \in 1..Len(setup.past) : request[Len(head) + n] = Says("history")
         /\ request[Len(head) + Len(setup.past) + 1] = Says("question")
<1> DEFINE h == Len(head)
           p == Len(setup.past)
           first == head \o Recalled
           end == <<Says("question")>>
           request == first \o end
<1>1. h \in Nat /\ p \in Nat /\ DOMAIN setup.past = 1..p
  BY ListFacts
<1>2. IsList(Recalled) /\ Len(Recalled) = p /\ \A n \in 1..p : Recalled[n] = Says("history")
  <2>1. Recalled = [n \in 1..p |-> Says("history")]
    BY <1>1 DEF Recalled
  <2>2. Recalled = [n \in 1..p |-> Recalled[n]]
    BY <2>1
  <2> HIDE DEF p
  <2> QED
    BY <1>1, <2>1, <2>2, ListByPlace
<1>3. IsList(end) /\ Len(end) = 1 /\ end[1] = Says("question")
  <2>1. end \in Seq({Says("question")}) /\ Len(end) = 1 /\ end[1] = Says("question")
    OBVIOUS
  <2> QED
    BY <2>1, IsOne
<1>a. first = head \o Recalled /\ request = first \o end
  OBVIOUS
<1> HIDE DEF end, first, request
<1>0. IsList(Recalled)
  BY <1>2
<1>b. OneThenOther(first, head, Recalled)
  BY <1>0, <1>a, ListOfTwo
<1>4. /\ IsList(first) /\ Len(first) = h + p
      /\ \A n \in 1..h : first[n] = head[n]
      /\ \A n \in 1..p : first[h + n] = Says("history")
  BY <1>2, <1>b DEF OneThenOther
<1>c. IsList(end)
  BY <1>3
<1>d. IsList(first)
  BY <1>4
<1>e. OneThenOther(request, first, end)
  BY <1>a, <1>c, <1>d, ListOfTwo
<1> HIDE DEF h, p
<1>5. /\ IsList(request) /\ Len(request) = Len(first) + Len(end)
      /\ \A n \in 1..Len(first) : request[n] = first[n]
      /\ \A n \in 1..Len(end) : request[Len(first) + n] = end[n]
  BY <1>e DEF OneThenOther
<1>6. Len(request) = h + p + 1 /\ request[h + p + 1] = Says("question")
  BY <1>1, <1>3, <1>4, <1>5
<1>7. \A n \in 1..h : n \in 1..(h + p)
  BY <1>1
<1>8. \A n \in 1..p : h + n \in 1..(h + p)
  BY <1>1
<1>9. \A n \in 1..h : request[n] = head[n]
  BY <1>4, <1>5, <1>7
<1>10. \A n \in 1..p : request[h + n] = Says("history")
  BY <1>4, <1>5, <1>8
<1> QED
  BY <1>5, <1>6, <1>9, <1>10 DEF request, first, end, h, p

\* Either request has such a head, whether the grounding is cut or not.
LEMMA RequestsWhole == GroundingInv => RequestsAreWhole
<1> SUFFICES ASSUME GroundingInv, turn = "prepared" PROVE RequestsAreWhole
  BY DEF RequestsAreWhole
<1>1. IsList(setup.past)
  <2>1. setup.past \in Pasts
    BY DEF GroundingInv, Setups
  <2> QED
    BY <2>1, TurnFacts
<1>2. PICK tooLong \in BOOLEAN, summary \in BOOLEAN :
        /\ prepared[1].request = IF tooLong THEN TrimGrounding(FinalMessages) ELSE FinalMessages
        /\ prepared[1].second = buildModelMessages(summary)
  BY DEF GroundingInv, PreparedFrom
<1>3. RequestIsWhole(FinalMessages) /\ RequestIsWhole(TrimGrounding(FinalMessages))
  <2> DEFINE head == <<Says("system"), Says("grounding")>>
             request == FinalMessages
             cut == TrimGrounding(FinalMessages)
  <2>1. head \in Seq({Says("system"), Says("grounding")}) /\ Len(head) = 2
        /\ head[1] = Says("system") /\ head[2] = Says("grounding")
    OBVIOUS
  <2>2. IsList(head) /\ DOMAIN head = {1, 2}
    <3>1. IsList(head)
      BY <2>1, IsOne
    <3>2. DOMAIN head = {1, 2}
      OBVIOUS
    <3> QED
      BY <3>1, <3>2
  <2>3. HeadHas(head, 2)
    BY <2>1, <2>2 DEF HeadHas, Says
  <2>4. request = head \o Recalled \o <<Says("question")>>
    BY DEF FinalMessages
  <2> HIDE DEF head
  <2>5. /\ IsList(request) /\ Len(request) = Len(head) + Len(setup.past) + 1
        /\ \A n \in 1..Len(head) : request[n] = head[n]
        /\ \A n \in 1..Len(setup.past) : request[Len(head) + n] = Says("history")
        /\ request[Len(head) + Len(setup.past) + 1] = Says("question")
    BY <1>1, <2>2, <2>4, RequestPlaces
  <2>6. cut = [request EXCEPT ![2].cut = TRUE]
    BY DEF TrimGrounding
  <2> HIDE DEF request
  <2>7. Len(request) \in Nat /\ DOMAIN request = 1..Len(request) /\ Len(setup.past) \in Nat
    BY <1>1, <2>5, ListFacts
  <2>8. RequestIsWhole(request)
    <3>1. \A n \in 1..Len(head) : request[n].kind = head[n].kind /\ (n # 2 => request[n].cut = head[n].cut)
      BY <2>5
    <3> QED
      BY <1>1, <2>3, <2>5, <3>1, HeadThenHistory
  <2>9. 2 \in DOMAIN request /\ request[2] = Says("grounding")
    <3>1. 2 \in 1..Len(head)
      BY <2>1
    <3> QED
      BY <2>1, <2>5, <2>7, <3>1
  <2>10. /\ DOMAIN cut = 1..Len(request) /\ cut = [n \in 1..Len(request) |-> cut[n]]
         /\ \A n \in 1..Len(request) : n # 2 => cut[n] = request[n]
         /\ cut[2].kind = "grounding"
    <3>1. cut = [n \in DOMAIN request |-> IF n = 2 THEN [request[2] EXCEPT !.cut = TRUE] ELSE request[n]]
      BY <2>6
    <3>2. [request[2] EXCEPT !.cut = TRUE].kind = "grounding"
      BY <2>9 DEF Says
    <3> HIDE DEF cut
    <3> QED
      BY <2>7, <2>9, <3>1, <3>2
  <2> HIDE DEF cut
  <2>11. IsList(cut) /\ Len(cut) = Len(request)
    BY <2>7, <2>10, ListByPlace
  <2>12. RequestIsWhole(cut)
    <3>1. \A n \in 1..Len(head) : cut[n].kind = head[n].kind /\ (n # 2 => cut[n].cut = head[n].cut)
      <4> TAKE n \in 1..Len(head)
      <4>1. n \in 1..Len(request)
        BY <2>1, <2>5, <2>7
      <4>2. CASE n = 2
        BY <2>1, <2>10, <4>2 DEF Says
      <4>3. CASE n # 2
        BY <2>5, <2>10, <4>1, <4>3
      <4> QED
        BY <4>2, <4>3
    <3>2. \A n \in 1..Len(setup.past) : cut[Len(head) + n] = Says("history")
      <4> TAKE n \in 1..Len(setup.past)
      <4>1. Len(head) + n \in 1..Len(request) /\ Len(head) + n # 2
        BY <2>1, <2>5, <2>7
      <4> QED
        BY <2>5, <2>10, <4>1
    <3>3. cut[Len(head) + Len(setup.past) + 1] = Says("question")
      <4>1. Len(head) + Len(setup.past) + 1 \in 1..Len(request) /\ Len(head) + Len(setup.past) + 1 # 2
        BY <2>1, <2>5, <2>7
      <4> QED
        BY <2>5, <2>10, <4>1
    <3>4. Len(cut) = Len(head) + Len(setup.past) + 1
      BY <2>5, <2>11
    <3> QED
      BY <1>1, <2>3, <2>11, <3>1, <3>2, <3>3, <3>4, HeadThenHistory
  <2> QED
    BY <2>8, <2>12 DEF cut, request
<1>4. RequestIsWhole(buildModelMessages(summary))
  <2> DEFINE middle == IF summary THEN <<Says("summary")>> ELSE <<>>
             head == <<Says("system")>> \o middle \o <<Says("grounding")>>
             request == buildModelMessages(summary)
  <2>1. request = head \o Recalled \o <<Says("question")>>
    BY DEF buildModelMessages
  <2>2. \E g : HeadHas(head, g)
    <3>0. head = <<Says("system")>> \o middle \o <<Says("grounding")>>
      OBVIOUS
    <3>1. CASE summary
      <4>1. middle = <<Says("summary")>>
        BY <3>1
      <4> HIDE DEF middle, head
      <4>2. head = <<Says("system"), Says("summary"), Says("grounding")>>
        BY <3>0, <4>1, ThreeInTurn
      <4>3. IsList(head) /\ DOMAIN head = {1, 2, 3} /\ head[1] = Says("system") /\ head[2] = Says("summary") /\ head[3] = Says("grounding")
        <5> DEFINE three == <<Says("system"), Says("summary"), Says("grounding")>>
        <5>1. IsList(three)
          BY ThreeInTurn
        <5>2. DOMAIN three = {1, 2, 3} /\ three[1] = Says("system") /\ three[2] = Says("summary") /\ three[3] = Says("grounding")
          OBVIOUS
        <5> HIDE DEF three
        <5>3. head = three
          BY <4>2 DEF three
        <5> QED
          BY <5>1, <5>2, <5>3
      <4>4. HeadHas(head, 3)
        BY <4>3 DEF HeadHas, Says
      <4> QED
        BY <4>4
    <3>2. CASE ~summary
      <4>1. middle = <<>>
        BY <3>2
      <4> HIDE DEF middle, head
      <4>2. head = <<Says("system"), Says("grounding")>>
        BY <3>0, <4>1, TwoInTurn
      <4>3. IsList(head) /\ DOMAIN head = {1, 2} /\ head[1] = Says("system") /\ head[2] = Says("grounding")
        BY <4>2, TwoInTurn
      <4>4. HeadHas(head, 2)
        BY <4>3 DEF HeadHas, Says
      <4> QED
        BY <4>4
    <3> QED
      BY <3>1, <3>2
  <2> HIDE DEF head
  <2>3. PICK g : HeadHas(head, g)
    BY <2>2
  <2>4. IsList(head) /\ DOMAIN head = 1..Len(head)
    BY <2>3, ListFacts DEF HeadHas
  <2>5. /\ IsList(request) /\ Len(request) = Len(head) + Len(setup.past) + 1
        /\ \A n \in 1..Len(head) : request[n] = head[n]
        /\ \A n \in 1..Len(setup.past) : request[Len(head) + n] = Says("history")
        /\ request[Len(head) + Len(setup.past) + 1] = Says("question")
    BY <1>1, <2>1, <2>4, RequestPlaces
  <2> HIDE DEF request
  <2>6. \A n \in 1..Len(head) : request[n].kind = head[n].kind /\ (n # g => request[n].cut = head[n].cut)
    BY <2>5
  <2>7. RequestIsWhole(request)
    BY <1>1, <2>3, <2>5, <2>6, HeadThenHistory
  <2> QED
    BY <2>7 DEF request
<1>5. RequestIsWhole(prepared[1].request) /\ RequestIsWhole(prepared[1].second)
  BY <1>2, <1>3, <1>4
<1>6. \A request \in {prepared[1].request, prepared[1].second} : RequestIsWhole(request)
  BY <1>5
<1> QED
  BY <1>6 DEF RequestsAreWhole, RequestIsWhole

\* The stages of which a trace has one record each, and all there are.
SingleStages == {"rewrite.plan", "tool.plan", "retrieval.plan", "retrieval.execute", "context.assembly", "prompt.assembly"}
AllStages == SingleStages \cup {"agent.loop.start", "agent.step", "generation.completed", "generation.failed", "chat"}

\* A trace that has the root, what the search was planned by if one was executed, and one
\* record of each stage that is to have one.
HasRoots(stageList) ==
  /\ IsList(stageList) /\ Elems(stageList) \subseteq AllStages
  /\ "chat" \in Elems(stageList)
  /\ "retrieval.execute" \in Elems(stageList) => "retrieval.plan" \in Elems(stageList)
  /\ \A m, n \in DOMAIN stageList : stageList[m] = stageList[n] /\ stageList[m] \in SingleStages => m = n

\* The node of a stage and the one it is below.
LEMMA NodeOfStage ==
  ASSUME NEW stageName \in AllStages, NEW n
  PROVE  LET id == inferTraceNodeId(stageName, n)
             parent == inferTraceParentNodeId(stageName)
         IN /\ stageName = "chat" => id = <<"chat", "root">> /\ parent = NoNode
            /\ stageName \in SingleStages => id = <<IF stageName = "rewrite.plan" THEN "rewrite" ELSE stageName, "single">>
            /\ stageName = "retrieval.execute" => parent = <<"retrieval.plan", "single">>
            /\ stageName \in SingleStages \ {"retrieval.execute"} => parent = <<"chat", "root">>
            /\ stageName \in {"generation.completed", "generation.failed"} =>
                 id = <<"generation", "random", n>> /\ parent = <<"chat", "root">>
            /\ stageName \in {"agent.loop.start", "agent.step"} => id = <<"other", "random", n>> /\ parent = NoNode
<1>2. CASE stageName = "chat"
  BY <1>2 DEF mapStageToNodeType, inferTraceNodeId, inferTraceParentNodeId, Single, SingleStages
<1>3. CASE stageName = "rewrite.plan"
  BY <1>3 DEF mapStageToNodeType, inferTraceNodeId, inferTraceParentNodeId, Single, SingleStages
<1>4. CASE stageName = "retrieval.execute"
  BY <1>4 DEF mapStageToNodeType, inferTraceNodeId, inferTraceParentNodeId, Single, SingleStages
<1>5. CASE stageName \in {"tool.plan", "retrieval.plan", "context.assembly", "prompt.assembly"}
  BY <1>5 DEF mapStageToNodeType, inferTraceNodeId, inferTraceParentNodeId, Single, SingleStages
<1>6. CASE stageName \in {"generation.completed", "generation.failed"}
  BY <1>6 DEF mapStageToNodeType, inferTraceNodeId, inferTraceParentNodeId, Single, SingleStages
<1>7. CASE stageName \in {"agent.loop.start", "agent.step"}
  BY <1>7 DEF mapStageToNodeType, inferTraceNodeId, inferTraceParentNodeId, Single, SingleStages
<1> QED
  BY <1>2, <1>3, <1>4, <1>5, <1>6, <1>7 DEF AllStages, SingleStages

\* The nodes of such a trace are a tree.
LEMMA NodesAreTree ==
  ASSUME NEW stageList, HasRoots(stageList)
  PROVE  LET nodes == Nodes(stageList)
             ids == {nodes[n].id : n \in DOMAIN nodes}
         IN /\ \A n \in DOMAIN nodes : nodes[n].parent # NoNode => nodes[n].parent \in ids \ {nodes[n].id}
            /\ \A m, n \in DOMAIN nodes : nodes[m].id = nodes[n].id => m = n \/ nodes[m].id = <<"chat", "root">>
<1> DEFINE nodes == Nodes(stageList)
           ids == {nodes[n].id : n \in DOMAIN nodes}
           Id(n) == inferTraceNodeId(stageList[n], n)
           Parent(n) == inferTraceParentNodeId(stageList[n])
           Under(stageName) == IF stageName = "rewrite.plan" THEN "rewrite" ELSE stageName
<1>1. DOMAIN nodes = DOMAIN stageList /\ \A n \in DOMAIN stageList : nodes[n].id = Id(n) /\ nodes[n].parent = Parent(n)
  BY DEF Nodes
<1>2. \A n \in DOMAIN stageList : stageList[n] \in AllStages
  BY DEF HasRoots, Elems
<1>3. ASSUME NEW n \in DOMAIN stageList
      PROVE  /\ stageList[n] = "chat" => Id(n) = <<"chat", "root">> /\ Parent(n) = NoNode
             /\ stageList[n] \in SingleStages => Id(n) = <<Under(stageList[n]), "single">>
             /\ stageList[n] = "retrieval.execute" => Parent(n) = <<"retrieval.plan", "single">>
             /\ stageList[n] \in SingleStages \ {"retrieval.execute"} => Parent(n) = <<"chat", "root">>
             /\ stageList[n] \in {"generation.completed", "generation.failed"} =>
                  Id(n) = <<"generation", "random", n>> /\ Parent(n) = <<"chat", "root">>
             /\ stageList[n] \in {"agent.loop.start", "agent.step"} => Id(n) = <<"other", "random", n>> /\ Parent(n) = NoNode
  BY <1>2, NodeOfStage
<1>4. PICK root \in DOMAIN stageList : stageList[root] = "chat"
  BY DEF HasRoots, Elems
<1> HIDE DEF nodes, Id, Parent
<1>5. ids = {Id(n) : n \in DOMAIN stageList}
  BY <1>1
<1>6. <<"chat", "root">> \in ids
  BY <1>3, <1>4, <1>5
<1>7. \A a, b, c, d, e : <<a, b>> # <<c, d, e>>
  OBVIOUS
<1>8. \A a, b, c, d : <<a, b>> = <<c, d>> => a = c /\ b = d
  OBVIOUS
<1>9. \A a, b, c, d, e, f : <<a, b, c>> = <<d, e, f>> => a = d /\ c = f
  OBVIOUS
<1>10. ASSUME NEW n \in DOMAIN stageList, Parent(n) # NoNode
       PROVE  Parent(n) \in ids \ {Id(n)}
  <2>1. CASE stageList[n] = "retrieval.execute"
    <3>1. PICK m \in DOMAIN stageList : stageList[m] = "retrieval.plan"
      BY <2>1 DEF HasRoots, Elems
    <3>2. Id(m) = <<"retrieval.plan", "single">>
      BY <1>3, <3>1 DEF SingleStages
    <3>3. Id(n) = <<"retrieval.execute", "single">> /\ Parent(n) = <<"retrieval.plan", "single">>
      BY <1>3, <2>1 DEF SingleStages
    <3> QED
      BY <1>5, <1>8, <3>2, <3>3
  <2>2. CASE stageList[n] \in SingleStages \ {"retrieval.execute"}
    <3>1. Id(n) = <<Under(stageList[n]), "single">> /\ Parent(n) = <<"chat", "root">>
      BY <1>3, <2>2
    <3> QED
      BY <1>6, <1>8, <3>1
  <2>3. CASE stageList[n] \in {"generation.completed", "generation.failed"}
    <3>1. Id(n) = <<"generation", "random", n>> /\ Parent(n) = <<"chat", "root">>
      BY <1>3, <2>3
    <3> QED
      BY <1>6, <1>7, <3>1
  <2>4. CASE stageList[n] \in {"agent.loop.start", "agent.step", "chat"}
    BY <1>3, <1>10, <2>4
  <2> QED
    BY <1>2, <2>1, <2>2, <2>3, <2>4 DEF AllStages
<1>11. ASSUME NEW m \in DOMAIN stageList, NEW n \in DOMAIN stageList, Id(m) = Id(n), Id(m) # <<"chat", "root">>
       PROVE  m = n
  <2>1. \A k \in DOMAIN stageList : stageList[k] = "chat" \/ stageList[k] \in SingleStages \/ \E a : Id(k) = <<a, "random", k>>
    BY <1>2, <1>3 DEF AllStages
  <2>2. stageList[m] # "chat" /\ stageList[n] # "chat"
    BY <1>3, <1>11
  <2>3. CASE stageList[m] \in SingleStages /\ stageList[n] \in SingleStages
    <3>1. <<Under(stageList[m]), "single">> = <<Under(stageList[n]), "single">>
      BY <1>3, <1>11, <2>3
    <3>2. Under(stageList[m]) = Under(stageList[n])
      BY <1>8, <3>1
    <3>3. stageList[m] = stageList[n]
      BY <2>3, <3>2 DEF SingleStages
    <3> QED
      BY <2>3, <3>3 DEF HasRoots
  <2>4. CASE stageList[m] \notin SingleStages /\ stageList[n] \notin SingleStages
    BY <1>9, <1>11, <2>1, <2>2, <2>4
  <2>5. CASE stageList[m] \in SingleStages /\ stageList[n] \notin SingleStages
    BY <1>3, <1>7, <1>11, <2>1, <2>2, <2>5
  <2>6. CASE stageList[m] \notin SingleStages /\ stageList[n] \in SingleStages
    BY <1>3, <1>7, <1>11, <2>1, <2>2, <2>6
  <2> QED
    BY <2>3, <2>4, <2>5, <2>6
<1>12. \A n \in DOMAIN nodes : nodes[n].parent # NoNode => nodes[n].parent \in ids \ {nodes[n].id}
  <2> HIDE DEF ids
  <2> QED
    BY <1>1, <1>10
<1>13. \A m, n \in DOMAIN nodes : nodes[m].id = nodes[n].id => m = n \/ nodes[m].id = <<"chat", "root">>
  BY <1>1, <1>11
<1> QED
  BY <1>12, <1>13 DEF nodes

\* What the loop and its plans record, without the root.
HasPlans(stageList) ==
  /\ IsList(stageList) /\ Elems(stageList) \subseteq AllStages
  /\ "retrieval.plan" \in Elems(stageList)
  /\ \A m, n \in DOMAIN stageList : stageList[m] = stageList[n] /\ stageList[m] \in SingleStages => m = n

\* How an answer ends comes after it.
LEMMA EndAfterPlans ==
  ASSUME NEW stageList, HasPlans(stageList), NEW ending \in {"generation.completed", "generation.failed"}
  PROVE  HasPlans(stageList \o Ended(ending)) /\ HasRoots(stageList \o Ended(ending))
<1> DEFINE end == Ended(ending)
           all == stageList \o end
<1>1. IsList(end) /\ Elems(end) = {ending, "chat"}
  <2>1. IsList(<<ending, "chat">>) /\ DOMAIN <<ending, "chat">> = {1, 2}
        /\ <<ending, "chat">>[1] = ending /\ <<ending, "chat">>[2] = "chat"
    BY TwoInTurn
  <2> QED
    BY <2>1 DEF Elems, Ended
<1>2. IsList(stageList) /\ Elems(stageList) \subseteq AllStages /\ "retrieval.plan" \in Elems(stageList)
  BY DEF HasPlans
<1>3. all = stageList \o end
  OBVIOUS
<1> HIDE DEF all, end
<1>4. OneThenOther(all, stageList, end)
  BY <1>1, <1>2, <1>3, ListOfTwo
<1>5. /\ IsList(all) /\ DOMAIN all = 1..(Len(stageList) + Len(end)) /\ Elems(all) = Elems(stageList) \cup {ending, "chat"}
      /\ \A n \in 1..Len(stageList) : all[n] = stageList[n]
      /\ \A n \in 1..Len(end) : all[Len(stageList) + n] = end[n]
  BY <1>1, <1>4 DEF OneThenOther
<1>6. Len(stageList) \in Nat /\ Len(end) \in Nat /\ DOMAIN stageList = 1..Len(stageList) /\ DOMAIN end = 1..Len(end)
  BY <1>1, <1>2, ListFacts
<1>7. \A n \in DOMAIN all : all[n] \in SingleStages => n \in DOMAIN stageList /\ all[n] = stageList[n]
  <2> SUFFICES ASSUME NEW n \in DOMAIN all, n \notin DOMAIN stageList PROVE all[n] \notin SingleStages
    BY <1>5, <1>6
  <2>1. n - Len(stageList) \in 1..Len(end) /\ Len(stageList) + (n - Len(stageList)) = n
    BY <1>5, <1>6
  <2>2. all[n] = end[n - Len(stageList)]
    BY <1>5, <2>1
  <2>3. end[n - Len(stageList)] \in {ending, "chat"}
    BY <1>1, <1>6, <2>1 DEF Elems
  <2> QED
    BY <2>2, <2>3 DEF SingleStages
<1>8. \A m, n \in DOMAIN all : all[m] = all[n] /\ all[m] \in SingleStages => m = n
  BY <1>7 DEF HasPlans
<1>9. Elems(all) \subseteq AllStages
  BY <1>2, <1>5 DEF AllStages
<1>10. HasPlans(all) /\ HasRoots(all)
  BY <1>2, <1>5, <1>8, <1>9 DEF HasPlans, HasRoots
<1> QED
  BY <1>10 DEF all, end

\* The loop records its steps, and each plan once.
LEMMA LoopHasPlans ==
  ASSUME NEW steps \in Nat
  PROVE  HasPlans(buildOrchestrationTrace(steps))
<1> DEFINE start == <<"agent.loop.start">>
           middle == [n \in 1..steps |-> "agent.step"]
           first == start \o middle
           plans == <<"rewrite.plan", "tool.plan", "retrieval.plan", "retrieval.execute", "context.assembly", "prompt.assembly">>
           all == buildOrchestrationTrace(steps)
<1>1. IsList(start) /\ Elems(start) = {"agent.loop.start"}
  <2>1. start \in Seq({"agent.loop.start"}) /\ DOMAIN start = {1}
    OBVIOUS
  <2>2. IsList(start)
    BY <2>1, IsOne
  <2> QED
    BY <2>1, <2>2 DEF Elems
<1>2. IsList(middle) /\ Elems(middle) \subseteq {"agent.step"}
  <2>1. middle = [n \in 1..steps |-> middle[n]]
    OBVIOUS
  <2>2. Elems(middle) \subseteq {"agent.step"}
    BY DEF Elems
  <2> HIDE DEF middle
  <2> QED
    BY <2>1, <2>2, ListByPlace
<1>3. /\ IsList(plans) /\ Elems(plans) \subseteq SingleStages /\ plans[3] = "retrieval.plan" /\ DOMAIN plans = 1..6
      /\ \A m, n \in DOMAIN plans : plans[m] = plans[n] => m = n
  <2>1. plans \in Seq(SingleStages) /\ DOMAIN plans = 1..6
    BY DEF SingleStages
  <2>2. IsList(plans)
    BY <2>1, IsOne
  <2>3. \A n \in 1..6 : n \in {1, 2, 3, 4, 5, 6}
    OBVIOUS
  <2>4. /\ plans[1] = "rewrite.plan" /\ plans[2] = "tool.plan" /\ plans[3] = "retrieval.plan"
        /\ plans[4] = "retrieval.execute" /\ plans[5] = "context.assembly" /\ plans[6] = "prompt.assembly"
    OBVIOUS
  <2> HIDE DEF plans
  <2>5. \A m, n \in DOMAIN plans : plans[m] = plans[n] => m = n
    BY <2>1, <2>3, <2>4
  <2>6. Elems(plans) \subseteq SingleStages
    <3>1. \A n \in 1..6 : plans[n] \in SingleStages
      BY <2>3, <2>4 DEF SingleStages
    <3> QED
      BY <2>1, <3>1 DEF Elems
  <2> QED
    BY <2>1, <2>2, <2>4, <2>5, <2>6
<1>4. first = start \o middle /\ all = first \o plans
  BY DEF buildOrchestrationTrace
<1> HIDE DEF start, middle, first, plans, all
<1>5. OneThenOther(first, start, middle)
  BY <1>1, <1>2, <1>4, ListOfTwo
<1>6. IsList(first) /\ Elems(first) \subseteq {"agent.loop.start", "agent.step"}
  BY <1>1, <1>2, <1>5 DEF OneThenOther
<1>7. OneThenOther(all, first, plans)
  BY <1>3, <1>4, <1>6, ListOfTwo
<1>8. /\ IsList(all) /\ DOMAIN all = 1..(Len(first) + Len(plans)) /\ Elems(all) = Elems(first) \cup Elems(plans)
      /\ \A n \in 1..Len(first) : all[n] = first[n]
      /\ \A n \in 1..Len(plans) : all[Len(first) + n] = plans[n]
  BY <1>7 DEF OneThenOther
<1>9. Len(first) \in Nat /\ Len(plans) \in Nat /\ DOMAIN first = 1..Len(first) /\ DOMAIN plans = 1..Len(plans)
  BY <1>3, <1>6, ListFacts
<1>10. "retrieval.plan" \in Elems(all)
  <2>1. 3 \in DOMAIN plans
    BY <1>3
  <2>2. "retrieval.plan" \in Elems(plans)
    BY <1>3, <2>1 DEF Elems
  <2> QED
    BY <1>8, <2>2
<1>11. ASSUME NEW n \in DOMAIN all, all[n] \in SingleStages
       PROVE  n - Len(first) \in DOMAIN plans /\ all[n] = plans[n - Len(first)]
  <2>1. n \notin 1..Len(first)
    <3> SUFFICES ASSUME n \in 1..Len(first) PROVE FALSE
      OBVIOUS
    <3>1. all[n] \in Elems(first)
      BY <1>8, <1>9 DEF Elems
    <3> QED
      BY <1>6, <1>11, <3>1 DEF SingleStages
  <2>2. n - Len(first) \in 1..Len(plans) /\ Len(first) + (n - Len(first)) = n
    BY <1>8, <1>9, <2>1
  <2> QED
    BY <1>8, <1>9, <2>2
<1>12. ASSUME NEW m \in DOMAIN all, NEW n \in DOMAIN all, all[m] = all[n], all[m] \in SingleStages
       PROVE  m = n
  <2>1. m - Len(first) = n - Len(first)
    BY <1>3, <1>11, <1>12
  <2>2. m \in Int /\ n \in Int
    BY <1>8
  <2> QED
    BY <1>9, <2>1, <2>2
<1>13. Elems(all) \subseteq AllStages
  BY <1>3, <1>6, <1>8 DEF AllStages
<1>14. HasPlans(all)
  BY <1>8, <1>10, <1>12, <1>13 DEF HasPlans
<1> QED
  BY <1>14 DEF all

\* Whatever is recorded of a turn, its nodes are a tree.
LEMMA TraceTree == GroundingInv => TraceIsTree
<1> SUFFICES ASSUME GroundingInv, turn = "prepared" PROVE TraceIsTree
  BY DEF TraceIsTree
<1>1. IsList(looked) /\ IsList(toolUses) /\ PreparedFrom
  BY DEF GroundingInv
<1>2. PICK recorded \in TurnStages : prepared[1].nodes = Nodes(recorded)
  BY <1>1 DEF PreparedFrom
<1>3. HasPlans(traceStages)
  <2>1. Len(looked) \in Nat /\ Len(toolUses) \in Nat
    BY <1>1, ListFacts
  <2>2. Len(looked) + Len(toolUses) + 1 \in Nat
    BY <2>1
  <2> QED
    BY <2>2, LoopHasPlans DEF traceStages
<1>4. HasRoots(Ended("generation.failed"))
  <2>1. IsList(<<"generation.failed", "chat">>) /\ DOMAIN <<"generation.failed", "chat">> = {1, 2}
        /\ <<"generation.failed", "chat">>[1] = "generation.failed" /\ <<"generation.failed", "chat">>[2] = "chat"
    BY TwoInTurn
  <2>2. Ended("generation.failed") = <<"generation.failed", "chat">>
    BY DEF Ended
  <2>3. Elems(Ended("generation.failed")) = {"generation.failed", "chat"}
    BY <2>1, <2>2 DEF Elems
  <2>4. \A n \in DOMAIN Ended("generation.failed") : Ended("generation.failed")[n] \notin SingleStages
    BY <2>1, <2>2 DEF SingleStages
  <2>5. "retrieval.execute" \notin Elems(Ended("generation.failed")) /\ Elems(Ended("generation.failed")) \subseteq AllStages
    BY <2>3 DEF AllStages
  <2> QED
    BY <2>1, <2>2, <2>3, <2>4, <2>5 DEF HasRoots
<1>5. HasPlans(traceStages \o Ended("generation.completed")) /\ HasRoots(traceStages \o Ended("generation.completed"))
  BY <1>3, EndAfterPlans
<1>6. HasRoots(traceStages \o Ended("generation.completed") \o Ended("generation.failed"))
  <2> DEFINE written == traceStages \o Ended("generation.completed")
  <2>1. HasPlans(written)
    BY <1>5
  <2> HIDE DEF written
  <2>2. HasRoots(written \o Ended("generation.failed"))
    BY <2>1, EndAfterPlans
  <2> QED
    BY <2>2 DEF written
<1>7. HasRoots(recorded)
  BY <1>4, <1>5, <1>6 DEF TurnStages
<1> QED
  BY <1>2, <1>7, NodesAreTree DEF TraceIsTree

\* Those that have fewer than limit before them: as many as limit if any is left out, one for
\* each place.
TheFirst(S, R, limit) == {i \in S : Cardinality(PutBefore(S, R, i)) < limit}
FirstAreRight(S, R, limit) ==
  LET first == TheFirst(S, R, limit)
  IN /\ IsFiniteSet(first) /\ Cardinality(first) \in Nat /\ Cardinality(first) <= limit
     /\ \A n \in 1..Cardinality(first) : \E i \in first : Cardinality(PutBefore(S, R, i)) = n - 1
     /\ \A i \in first : Cardinality(PutBefore(S, R, i)) + 1 \in 1..Cardinality(first)
     /\ \A i \in S \ first : Cardinality(first) = limit

\* It is so of any finite set in any order.
LEMMA FirstInOrder ==
  ASSUME NEW S, IsFiniteSet(S), NEW R, OrdersAll(R, S), NEW limit \in Nat
  PROVE  FirstAreRight(S, R, limit)
<1> DEFINE first == TheFirst(S, R, limit)
           rank(i) == Cardinality(PutBefore(S, R, i))
           c == Cardinality(S)
<1>1. c \in Nat
  BY FS_CardinalityType
<1>2. \A i \in S : rank(i) \in 0..(c - 1)
  BY FewerAhead
<1>3. \A i, j \in S : rank(i) = rank(j) => i = j
  <2>1. \A i, j \in S : <<i, j>> \in R <=> rank(i) < rank(j)
    BY FewerAhead
  <2> HIDE DEF rank
  <2> QED
    BY <1>2, <2>1 DEF OrdersAll
<1>4. \A n \in 0..(c - 1) : \E i \in S : rank(i) = n
  BY EachPlaceIsTaken
<1>5. first = {i \in S : rank(i) < limit}
  BY DEF TheFirst
<1> HIDE DEF first, rank, c
<1>6. PICK k \in 0..c : (c < limit /\ k = c) \/ (limit <= c /\ k = limit)
  BY <1>1, SmallerOfTwo
<1>7. k \in Nat /\ k <= limit /\ k <= c
  BY <1>1, <1>6
<1> DEFINE s == [n \in 1..k |-> CHOOSE i \in S : rank(i) = n - 1]
<1>8. \A n \in 1..k : s[n] \in S /\ rank(s[n]) = n - 1
  <2> TAKE n \in 1..k
  <2>1. n - 1 \in 0..(c - 1)
    BY <1>1, <1>7
  <2>2. \E i \in S : rank(i) = n - 1
    BY <1>4, <2>1
  <2> QED
    BY <2>2
<1>9. DOMAIN s = 1..k
  OBVIOUS
<1> HIDE DEF s
<1>10. \A m, n \in 1..k : s[m] = s[n] => m = n
  <2> TAKE m, n \in 1..k
  <2>1. s[m] = s[n] => m - 1 = n - 1
    BY <1>8
  <2> QED
    BY <1>7, <2>1
<1>11. \A i \in S : rank(i) < limit <=> rank(i) < k
  BY <1>1, <1>2, <1>6
<1>12. Shown(s) = first
  <2>1. \A n \in 1..k : s[n] \in first
    <3> TAKE n \in 1..k
    <3>1. rank(s[n]) < k
      BY <1>7, <1>8
    <3> QED
      BY <1>5, <1>8, <1>11, <3>1
  <2>2. ASSUME NEW i \in first
        PROVE  \E n \in 1..k : s[n] = i
    <3>1. i \in S /\ rank(i) < k /\ rank(i) \in 0..(c - 1)
      BY <1>2, <1>5, <1>11
    <3>2. rank(i) + 1 \in 1..k /\ (rank(i) + 1) - 1 = rank(i)
      BY <1>7, <3>1
    <3>3. s[rank(i) + 1] \in S /\ rank(s[rank(i) + 1]) = rank(i)
      BY <1>8, <3>2
    <3> QED
      BY <1>3, <3>1, <3>2, <3>3
  <2> QED
    BY <1>9, <2>1, <2>2 DEF Shown
<1>13. IsFiniteSet(first) /\ Cardinality(first) = k
  BY <1>7, <1>9, <1>10, <1>12, AsManyAsPlaces
<1>14. \A n \in 1..k : \E i \in first : rank(i) = n - 1
  BY <1>8, <1>9, <1>12 DEF Shown
<1>15. \A i \in S \ first : k = limit
  BY <1>1, <1>2, <1>5, <1>6
<1>16. \A i \in first : rank(i) + 1 \in 1..k
  BY <1>2, <1>5, <1>7, <1>11
<1> QED
  BY <1>7, <1>13, <1>14, <1>15, <1>16 DEF FirstAreRight, first, rank

\* How many words of the query a chunk of the server has.
Matches(query, i) == Cardinality({m \in DOMAIN query : query[m] \in LocalKnowledge[i].words})

\* The chunks that are open to a search, and which of them comes first.
Open(query, aPlan) ==
  {i \in DOMAIN LocalKnowledge :
     Matches(query, i) > 0 /\ (aPlan.bases = {} \/ LocalKnowledge[i].base \in aPlan.bases)}
ComesBefore(query, aPlan) ==
  {p \in Open(query, aPlan) \X Open(query, aPlan) :
     \/ Matches(query, p[1]) > Matches(query, p[2])
     \/ Matches(query, p[1]) = Matches(query, p[2]) /\ p[1] < p[2]}

\* It is an order of all of them.
LEMMA OpenIsOrdered ==
  ASSUME NEW query, IsList(query), NEW aPlan
  PROVE  /\ IsFiniteSet(Open(query, aPlan)) /\ OrdersAll(ComesBefore(query, aPlan), Open(query, aPlan))
         /\ \A i \in DOMAIN LocalKnowledge : i \in Int /\ Matches(query, i) \in Nat
<1> DEFINE open == Open(query, aPlan)
           R == ComesBefore(query, aPlan)
           own == DOMAIN LocalKnowledge
           f(i) == Matches(query, i)
<1>1. own = 1..Len(LocalKnowledge) /\ Len(LocalKnowledge) \in Nat
  BY TurnFacts, ListFacts
<1>2. IsFiniteSet(own)
  BY <1>1, FS_Interval
<1>3. open \subseteq own
  BY DEF Open
<1>4. IsFiniteSet(open)
  BY <1>2, <1>3, FS_Subset
<1>5. ASSUME NEW i \in own
      PROVE  i \in Int /\ f(i) \in Nat
  <2>1. IsFiniteSet(DOMAIN query)
    <3>1. DOMAIN query = 1..Len(query) /\ Len(query) \in Nat
      BY ListFacts
    <3> QED
      BY <3>1, FS_Interval
  <2>2. {m \in DOMAIN query : query[m] \in LocalKnowledge[i].words} \in SUBSET DOMAIN query
    OBVIOUS
  <2>3. IsFiniteSet({m \in DOMAIN query : query[m] \in LocalKnowledge[i].words})
    BY <2>1, <2>2, FS_Subset
  <2>4. f(i) \in Nat
    BY <2>3, FS_CardinalityType DEF Matches
  <2> QED
    BY <1>1, <2>4
<1>6. R = {p \in open \X open : f(p[1]) > f(p[2]) \/ (f(p[1]) = f(p[2]) /\ p[1] < p[2])}
  BY DEF ComesBefore
<1> HIDE DEF open, R, own, f
<1>7. \A i, j \in open : <<i, j>> \in R <=> f(i) > f(j) \/ (f(i) = f(j) /\ i < j)
  BY <1>6
<1>8. \A i \in open : i \in Int /\ f(i) \in Int
  BY <1>3, <1>5
<1>9. \A i \in open : <<i, i>> \notin R
  BY <1>7, <1>8
<1>10. \A i, j, k \in open : <<i, j>> \in R /\ <<j, k>> \in R => <<i, k>> \in R
  BY <1>7, <1>8
<1>11. \A i, j \in open : i # j => <<i, j>> \in R \/ <<j, i>> \in R
  BY <1>7, <1>8
<1>12. OrdersAll(R, open)
  BY <1>9, <1>10, <1>11 DEF OrdersAll
<1> QED
  BY <1>4, <1>5, <1>12 DEF open, R, own, f

\* What the chunks of a search of the own chunks are to be.
LocalBest(query, aPlan, chunks) ==
  LET open == Open(query, aPlan)
      shown == {chunks[m].id : m \in DOMAIN chunks}
  IN /\ shown \subseteq open /\ Cardinality(shown) = Len(chunks) /\ Len(chunks) <= aPlan.topK
     /\ \A l, m \in DOMAIN chunks : l < m => Matches(query, chunks[l].id) >= Matches(query, chunks[m].id)
     /\ \A i \in open \ shown : Len(chunks) = aPlan.topK /\ \A j \in shown : Matches(query, i) <= Matches(query, j)

\* That is what is found.
LEMMA LocalChunksAreBest ==
  ASSUME NEW rewrite, IsList(rewrite.query), NEW aPlan, aPlan.topK \in Nat
  PROVE  LocalBest(rewrite.query, aPlan, LocalChunks(rewrite, aPlan))
<1> DEFINE query == rewrite.query
           topK == aPlan.topK
           open == Open(query, aPlan)
           R == ComesBefore(query, aPlan)
           f(i) == Matches(query, i)
           rank(i) == Cardinality(PutBefore(open, R, i))
           first == TheFirst(open, R, topK)
           chunks == LocalChunks(rewrite, aPlan)
           k == Cardinality(first)
<1>1. /\ IsFiniteSet(open) /\ OrdersAll(R, open) /\ \A i \in DOMAIN LocalKnowledge : i \in Int /\ f(i) \in Nat
  BY OpenIsOrdered
<1>2. FirstAreRight(open, R, topK)
  <2> HIDE DEF query, topK, open, R
  <2> QED
    BY <1>1, FirstInOrder DEF topK
<1>3. /\ IsFiniteSet(first) /\ k \in Nat /\ k <= topK
      /\ \A n \in 1..k : \E i \in first : rank(i) = n - 1
      /\ \A i \in open \ first : k = topK
      /\ \A i \in first : rank(i) + 1 \in 1..k
  BY <1>2 DEF FirstAreRight
<1>4. /\ \A i, j \in open : <<i, j>> \in R <=> rank(i) < rank(j)
      /\ \A i \in open : rank(i) \in Nat
  <2>1. \A i \in open : rank(i) \in 0..(Cardinality(open) - 1)
    BY <1>1, FewerAhead
  <2>2. \A i, j \in open : <<i, j>> \in R <=> rank(i) < rank(j)
    BY <1>1, FewerAhead
  <2> HIDE DEF rank, open, R
  <2> QED
    BY <2>1, <2>2
<1>5. \A i, j \in open : <<i, j>> \in R => f(i) >= f(j)
  <2> SUFFICES ASSUME NEW i \in open, NEW j \in open, <<i, j>> \in R PROVE f(i) >= f(j)
    OBVIOUS
  <2>1. i \in DOMAIN LocalKnowledge /\ j \in DOMAIN LocalKnowledge
    BY DEF Open
  <2>2. f(i) \in Int /\ f(j) \in Int
    BY <1>1, <2>1
  <2>3. f(i) > f(j) \/ f(i) = f(j)
    BY DEF ComesBefore
  <2> HIDE DEF f
  <2> QED
    BY <2>2, <2>3
<1>6. /\ chunks = [n \in 1..k |-> chunks[n]]
      /\ \A n \in 1..k : chunks[n].id = CHOOSE i \in first : rank(i) = n - 1
  <2> DEFINE score(i) == scoreChunk(i, rewrite.query)
             hits == {i \in visibleCorpus(aPlan) : score(i) > 0}
             IsEarlier(i) == {j \in hits : score(j) > score(i) \/ (score(j) = score(i) /\ j < i)}
             shown == {i \in hits : Cardinality(IsEarlier(i)) < aPlan.topK}
  <2>1. \A i \in DOMAIN LocalKnowledge : score(i) = 10 * f(i)
    BY DEF scoreChunk, Matches
  <2>2. hits = open
    <3>1. \A i \in DOMAIN LocalKnowledge : score(i) > 0 <=> f(i) > 0
      <4> HIDE DEF score, f
      <4> QED
        BY <1>1, <2>1
    <3> HIDE DEF score
    <3> QED
      BY <3>1 DEF visibleCorpus, OwnChunks, Open
  <2>3. open \subseteq DOMAIN LocalKnowledge
    BY DEF Open
  <2>4. \A i \in open : IsEarlier(i) = PutBefore(open, R, i)
    <3>1. \A i, j \in open : <<j, i>> \in R <=> f(j) > f(i) \/ (f(j) = f(i) /\ j < i)
      BY DEF ComesBefore
    <3>2. \A i, j \in open : (score(j) > score(i) <=> f(j) > f(i)) /\ (score(j) = score(i) <=> f(j) = f(i))
      <4> HIDE DEF score, f, open
      <4> QED
        BY <1>1, <2>1, <2>3
    <3>3. \A i \in open : IsEarlier(i) = {j \in open : f(j) > f(i) \/ (f(j) = f(i) /\ j < i)}
      <4> HIDE DEF score, f, open
      <4> QED
        BY <2>2, <3>2 DEF hits
    <3> HIDE DEF score, f, open, R, IsEarlier
    <3> QED
      BY <3>1, <3>3 DEF PutBefore
  <2>5. shown = first
    <3> HIDE DEF hits, open, R, IsEarlier
    <3> QED
      BY <2>2, <2>4 DEF TheFirst
  <2>6. first \subseteq open
    BY DEF TheFirst
  <2>7. chunks = [n \in 1..Cardinality(shown) |->
                    LET i == CHOOSE i \in shown : Cardinality(IsEarlier(i)) = n - 1
                    IN [id |-> i, base |-> LocalKnowledge[i].base, score |-> score(i)]]
    BY DEF LocalChunks
  <2>8. \A n : (CHOOSE i \in first : Cardinality(IsEarlier(i)) = n - 1) = (CHOOSE i \in first : rank(i) = n - 1)
    <3> TAKE n
    <3>1. \A i \in first : Cardinality(IsEarlier(i)) = rank(i)
      BY <2>4, <2>6
    <3> HIDE DEF IsEarlier, rank, first
    <3> QED
      BY <3>1
  <2> HIDE DEF shown, chunks, IsEarlier, rank, first, score
  <2>9. chunks = [n \in 1..k |->
                    LET i == CHOOSE i \in first : Cardinality(IsEarlier(i)) = n - 1
                    IN [id |-> i, base |-> LocalKnowledge[i].base, score |-> score(i)]]
    BY <2>5, <2>7
  <2>10. chunks = [n \in 1..k |-> chunks[n]]
    BY <2>9
  <2>11. \A n \in 1..k : chunks[n].id = CHOOSE i \in first : Cardinality(IsEarlier(i)) = n - 1
    BY <2>9
  <2> QED
    BY <2>8, <2>10, <2>11
<1>7. \A n \in 1..k : chunks[n].id \in first /\ rank(chunks[n].id) = n - 1
  <2> HIDE DEF chunks, first, rank, k
  <2> QED
    BY <1>3, <1>6
<1>8. first \subseteq open /\ \A i \in open : i \in first <=> rank(i) < topK
  BY DEF TheFirst
<1> HIDE DEF chunks, first, rank, k, open, R
<1>9. DOMAIN chunks = 1..k /\ Len(chunks) = k
  BY <1>3, <1>6, ListByPlace
<1> DEFINE shown == {chunks[m].id : m \in DOMAIN chunks}
<1>10. shown = first
  <2>1. shown \subseteq first
    BY <1>7, <1>9
  <2>2. ASSUME NEW i \in first
        PROVE  \E n \in 1..k : chunks[n].id = i
    <3>1. rank(i) + 1 \in 1..k /\ rank(i) \in Nat /\ i \in open
      BY <1>3, <1>4, <1>8
    <3>2. chunks[rank(i) + 1].id \in open /\ rank(chunks[rank(i) + 1].id) = rank(i)
      <4>1. rank(chunks[rank(i) + 1].id) = (rank(i) + 1) - 1
        BY <1>7, <3>1
      <4> QED
        BY <1>7, <1>8, <3>1, <4>1
    <3>3. <<chunks[rank(i) + 1].id, i>> \notin R /\ <<i, chunks[rank(i) + 1].id>> \notin R
      BY <1>4, <3>1, <3>2
    <3>4. chunks[rank(i) + 1].id = i
      BY <1>1, <3>1, <3>2, <3>3 DEF OrdersAll
    <3> QED
      BY <3>1, <3>4
  <2> QED
    BY <1>9, <2>1, <2>2
<1>11. \A l, m \in DOMAIN chunks : l < m => f(chunks[l].id) >= f(chunks[m].id)
  <2> TAKE l, m \in DOMAIN chunks
  <2> HAVE l < m
  <2>1. rank(chunks[l].id) = l - 1 /\ rank(chunks[m].id) = m - 1 /\ chunks[l].id \in open /\ chunks[m].id \in open
    BY <1>7, <1>8, <1>9
  <2>2. l - 1 < m - 1
    BY <1>9
  <2>3. <<chunks[l].id, chunks[m].id>> \in R
    BY <1>4, <2>1, <2>2
  <2> HIDE DEF f
  <2> QED
    BY <1>5, <2>1, <2>3
<1>12. ASSUME NEW i \in open \ shown
       PROVE  k = topK /\ \A j \in shown : f(i) <= f(j)
  <2>1. i \in open /\ i \notin first
    BY <1>10
  <2>2. k = topK
    BY <1>3, <2>1
  <2>3. ASSUME NEW j \in first
        PROVE  f(i) <= f(j)
    <3>1. rank(j) < topK /\ ~(rank(i) < topK) /\ j \in open
      BY <1>8, <2>1
    <3>2. rank(j) < rank(i)
      BY <1>4, <2>1, <3>1
    <3>3. f(j) >= f(i)
      <4> HIDE DEF f
      <4> QED
        BY <1>4, <1>5, <2>1, <3>1, <3>2
    <3>4. i \in DOMAIN LocalKnowledge /\ j \in DOMAIN LocalKnowledge
      BY <2>1, <3>1 DEF open, Open
    <3>5. f(i) \in Nat /\ f(j) \in Nat
      BY <1>1, <3>4
    <3> HIDE DEF f
    <3> QED
      BY <3>3, <3>5
  <2> QED
    BY <1>10, <2>2, <2>3
<1>13. Cardinality(shown) = Len(chunks) /\ Len(chunks) <= topK /\ shown \subseteq open
  BY <1>3, <1>8, <1>9, <1>10 DEF k
<1> HIDE DEF shown
<1> QED
  BY <1>9, <1>11, <1>12, <1>13 DEF LocalBest, shown, chunks, open

-----------------------------------------------------------------------------
(* What a turn is grounded on: the queries *)

\* In the terms of the mappings a text is as long as it was.
LEMMA MappedIsList ==
  ASSUME NEW text, IsList(text)
  PROVE  IsList(applyEnabledMappings(text))
<1> DEFINE mapped == applyEnabledMappings(text)
<1>1. Len(text) \in Nat /\ DOMAIN text = 1..Len(text)
  BY ListFacts
<1>2. mapped = [n \in 1..Len(text) |-> mapped[n]]
  BY <1>1 DEF applyEnabledMappings
<1> HIDE DEF mapped
<1>3. IsList(mapped)
  BY <1>1, <1>2, ListByPlace
<1> QED
  BY <1>3 DEF mapped

\* The part of a text from n to m, in which there is no gap.
NoGap(text, n, m) == \A k \in n..m : text[k] # Gap
IsPart(text, n, m) ==
  /\ m \in n..Len(text) /\ NoGap(text, n, m) /\ (m = Len(text) \/ text[m + 1] = Gap)
  /\ PartAt(text, n) = SubSeq(text, n, m)

\* A question goes on to the next gap, or to the end.
LEMMA PartIsThere ==
  ASSUME NEW text, IsList(text), NEW n \in Starts(text)
  PROVE  \E m \in n..Len(text) : IsPart(text, n, m)
<1> DEFINE l == Len(text)
           EndsAt == {m \in n..l : m = l \/ text[m + 1] = Gap}
<1>1. l \in Nat /\ DOMAIN text = 1..l
  BY ListFacts
<1>2. n \in 1..l /\ text[n] # Gap
  BY <1>1 DEF Starts
<1>3. l \in EndsAt /\ EndsAt \in SUBSET Nat
  BY <1>1, <1>2
<1> HIDE DEF l
<1>4. EndsAt # {}
  BY <1>3
<1>5. PICK m \in EndsAt : \A k \in EndsAt : m <= k
  <2> HIDE DEF EndsAt
  <2> QED
    BY <1>3, <1>4, LeastNumber
<1>6. ASSUME NEW k \in n..m
      PROVE  text[k] # Gap
  <2>1. CASE k = n
    BY <1>2, <2>1
  <2>2. CASE k # n
    <3>1. k - 1 \in n..l /\ k - 1 < m /\ (k - 1) + 1 = k
      BY <1>1, <1>2, <1>5, <2>2
    <3>2. k - 1 \notin EndsAt
      BY <1>3, <1>5, <3>1
    <3> QED
      BY <3>1, <3>2
  <2> QED
    BY <2>1, <2>2
<1>7. m \in n..l /\ (m = l \/ text[m + 1] = Gap) /\ \A k \in n..m : text[k] # Gap
  BY <1>5, <1>6
<1> DEFINE last == CHOOSE j \in n..l : (j = l \/ text[j + 1] = Gap) /\ \A k \in n..j : text[k] # Gap
<1>8. last \in n..l /\ (last = l \/ text[last + 1] = Gap) /\ \A k \in n..last : text[k] # Gap
  BY <1>7
<1>9. PartAt(text, n) = SubSeq(text, n, last)
  BY DEF PartAt, l
<1> HIDE DEF last
<1> QED
  BY <1>8, <1>9 DEF IsPart, NoGap, l

\* What is in a part of a text.
LEMMA PartOfText ==
  ASSUME NEW text, IsList(text), NEW n \in 1..Len(text), NEW m \in n..Len(text)
  PROVE  /\ IsList(SubSeq(text, n, m)) /\ Elems(SubSeq(text, n, m)) \subseteq Elems(text)
         /\ \A k \in n..m : text[k] \in Elems(SubSeq(text, n, m))
<1> DEFINE excerpt == SubSeq(text, n, m)
           l == Len(text)
<1>1. l \in Nat /\ DOMAIN text = 1..l /\ \A k \in 1..l : text[k] \in Elems(text)
  BY ListFacts
<1>2. n \in Nat /\ m \in Nat /\ 1 <= n /\ n <= m /\ m <= l
  BY <1>1
<1>3. \A k \in n..m : text[k] \in Elems(text)
  BY <1>1, <1>2
<1>4. /\ excerpt \in Seq(Elems(text)) /\ Len(excerpt) = m - n + 1
      /\ \A k \in 1..(m - n + 1) : excerpt[k] = text[n + k - 1]
  BY <1>2, <1>3, SubSeqProperties
<1> HIDE DEF excerpt, l
<1>5. IsList(excerpt) /\ DOMAIN excerpt = 1..(m - n + 1)
  BY <1>4, IsOne, Elements
<1>6. Elems(excerpt) \subseteq Elems(text)
  BY <1>4, ElementOfSeq DEF Elems
<1>7. \A k \in n..m : text[k] \in Elems(excerpt)
  <2> TAKE k \in n..m
  <2>1. k - n + 1 \in 1..(m - n + 1) /\ n + (k - n + 1) - 1 = k
    BY <1>2
  <2>2. excerpt[k - n + 1] = text[k]
    BY <1>4, <2>1
  <2> QED
    BY <1>5, <2>1, <2>2 DEF Elems
<1> QED
  BY <1>5, <1>6, <1>7 DEF excerpt

\* The starts are numbers, in the order of numbers.
Earlier(S) == {p \in S \X S : p[1] < p[2]}

\* Each start has its own number of starts before it.
LEMMA StartsAreOrdered ==
  ASSUME NEW text, IsList(text)
  PROVE  /\ Starts(text) \subseteq 1..Len(text) /\ Len(text) \in Nat
         /\ IsFiniteSet(Starts(text)) /\ OrdersAll(Earlier(Starts(text)), Starts(text))
         /\ \A n \in Starts(text) : PutBefore(Starts(text), Earlier(Starts(text)), n) = {m \in Starts(text) : m < n}
<1> DEFINE S == Starts(text)
<1>1. Len(text) \in Nat /\ DOMAIN text = 1..Len(text)
  BY ListFacts
<1>2. S \subseteq 1..Len(text)
  BY <1>1 DEF Starts
<1> HIDE DEF S
<1>3. IsFiniteSet(S)
  <2>1. IsFiniteSet(1..Len(text))
    BY <1>1, FS_Interval
  <2> QED
    BY <1>2, <2>1, FS_Subset
<1>4. \A n \in S : n \in Int
  BY <1>2
<1>5. OrdersAll(Earlier(S), S)
  BY <1>4 DEF OrdersAll, Earlier
<1>6. \A n \in S : PutBefore(S, Earlier(S), n) = {m \in S : m < n}
  BY DEF PutBefore, Earlier
<1> QED
  BY <1>1, <1>2, <1>3, <1>5, <1>6 DEF S

\* The parts a text is split into: at most three, each from a start, in their order.
PartsAre(text, parts) ==
  /\ IsList(parts) /\ Len(parts) <= 3
  /\ \A k \in DOMAIN parts : \E n \in Starts(text) : parts[k] = PartAt(text, n)
  /\ \A n \in Starts(text) : Cardinality({m \in Starts(text) : m < n}) < 3 =>
       \E k \in DOMAIN parts : parts[k] = PartAt(text, n)

\* So it is split.
LEMMA SplitIntoParts ==
  ASSUME NEW text, IsList(text)
  PROVE  PartsAre(text, splitIntoSubQueries(text))
<1> DEFINE S == Starts(text)
           R == Earlier(S)
           rank(n) == Cardinality({m \in S : m < n})
           c == Cardinality(S)
           few == IF c < 3 THEN c ELSE 3
           parts == splitIntoSubQueries(text)
<1>1. IsFiniteSet(S) /\ OrdersAll(R, S) /\ \A n \in S : PutBefore(S, R, n) = {m \in S : m < n}
  BY StartsAreOrdered
<1>2. c \in Nat
  BY <1>1, FS_CardinalityType
<1>3. \A n \in S : rank(n) \in 0..(c - 1)
  <2>1. \A n \in S : Cardinality(PutBefore(S, R, n)) \in 0..(c - 1)
    BY <1>1, FewerAhead
  <2> HIDE DEF S, R, c
  <2> QED
    BY <1>1, <2>1
<1>4. \A m, n \in S : rank(m) = rank(n) => m = n
  <2>1. \A m, n \in S : <<m, n>> \in R <=> Cardinality(PutBefore(S, R, m)) < Cardinality(PutBefore(S, R, n))
    BY <1>1, FewerAhead
  <2>2. \A m, n \in S : <<m, n>> \in R <=> rank(m) < rank(n)
    <3> HIDE DEF S, R
    <3> QED
      BY <1>1, <2>1
  <2>3. \A m, n \in S : rank(m) = rank(n) => <<m, n>> \notin R /\ <<n, m>> \notin R
    <3> HIDE DEF S, R, rank
    <3> QED
      BY <1>2, <1>3, <2>2
  <2> HIDE DEF S, R, rank
  <2> QED
    BY <1>1, <2>3 DEF OrdersAll
<1>5. \A k \in 0..(c - 1) : \E n \in S : rank(n) = k
  <2>1. \A k \in 0..(c - 1) : \E n \in S : Cardinality(PutBefore(S, R, n)) = k
    BY <1>1, EachPlaceIsTaken
  <2> HIDE DEF S, R, c
  <2> QED
    BY <1>1, <2>1
<1>6. parts = [k \in 1..few |-> PartAt(text, CHOOSE n \in S : rank(n) = k - 1)]
  BY DEF splitIntoSubQueries
<1> HIDE DEF S, R, rank, c, parts
<1>7. few \in Nat /\ few <= 3 /\ few <= c
  BY <1>2
<1>8. parts = [k \in 1..few |-> parts[k]]
  BY <1>6
<1>9. IsList(parts) /\ Len(parts) = few /\ DOMAIN parts = 1..few
  <2> HIDE DEF few
  <2> QED
    BY <1>7, <1>8, ListByPlace
<1>10. ASSUME NEW k \in 1..few
       PROVE  \E n \in S : rank(n) = k - 1 /\ parts[k] = PartAt(text, n)
  <2> DEFINE n == CHOOSE n \in S : rank(n) = k - 1
  <2>1. k - 1 \in 0..(c - 1)
    BY <1>2, <1>7
  <2>2. n \in S /\ rank(n) = k - 1
    BY <1>5, <2>1
  <2>3. parts[k] = PartAt(text, n)
    BY <1>6
  <2> QED
    BY <2>2, <2>3
<1>11. ASSUME NEW n \in S, rank(n) < 3
       PROVE  \E k \in DOMAIN parts : parts[k] = PartAt(text, n)
  <2>1. rank(n) + 1 \in 1..few /\ (rank(n) + 1) - 1 = rank(n)
    BY <1>2, <1>3, <1>11
  <2>2. PICK m \in S : rank(m) = (rank(n) + 1) - 1 /\ parts[rank(n) + 1] = PartAt(text, m)
    BY <1>10, <2>1
  <2>3. m = n
    BY <1>4, <2>1, <2>2
  <2> QED
    BY <1>9, <2>1, <2>2, <2>3
<1>12. \A k \in DOMAIN parts : \E n \in S : parts[k] = PartAt(text, n)
  BY <1>9, <1>10
<1>13. Len(parts) <= 3
  BY <1>7, <1>9
<1> QED
  BY <1>9, <1>11, <1>12, <1>13 DEF PartsAre, S, rank, parts

\* A word of the first three questions is in one of the parts.
LEMMA FirstAreInParts ==
  ASSUME NEW text, IsList(text), NEW n \in DOMAIN text, text[n] # Gap,
         Cardinality({k \in Starts(text) : k <= n}) <= 3,
         NEW parts, PartsAre(text, parts)
  PROVE  \E k \in DOMAIN parts : text[n] \in Elems(parts[k])
<1> DEFINE S == Starts(text)
           Whole == {k \in 1..n : NoGap(text, k, n)}
<1>1. Len(text) \in Nat /\ DOMAIN text = 1..Len(text) /\ n \in 1..Len(text)
  BY ListFacts
<1>2. n \in Whole /\ Whole \in SUBSET Nat
  <2>1. \A j \in n..n : j = n
    BY <1>1
  <2> QED
    BY <1>1, <2>1 DEF NoGap
<1>3. PICK s \in Whole : \A k \in Whole : s <= k
  <2>1. Whole # {}
    BY <1>2
  <2> HIDE DEF Whole
  <2> QED
    BY <1>2, <2>1, LeastNumber
<1>4. s \in 1..n /\ NoGap(text, s, n) /\ s \in DOMAIN text
  BY <1>1, <1>3
<1>5. text[s] # Gap
  <2>1. s \in s..n
    BY <1>4
  <2> QED
    BY <1>4, <2>1 DEF NoGap
<1>6. s = 1 \/ text[s - 1] = Gap
  <2> SUFFICES ASSUME s # 1, text[s - 1] # Gap PROVE FALSE
    OBVIOUS
  <2>1. s - 1 \in 1..n /\ \A j \in (s - 1)..n : j = s - 1 \/ j \in s..n
    BY <1>1, <1>4
  <2>2. NoGap(text, s - 1, n)
    BY <1>4, <2>1 DEF NoGap
  <2>3. s - 1 \in Whole
    BY <2>1, <2>2
  <2>4. s <= s - 1
    BY <1>3, <2>3
  <2> QED
    BY <1>1, <1>4, <2>4
<1>7. s \in S
  BY <1>4, <1>5, <1>6 DEF Starts
<1> DEFINE before == {k \in S : k < s}
           upto == {k \in S : k <= n}
<1>8. upto = before \cup {s} /\ s \notin before
  <2>1. ASSUME NEW k \in S, k <= n, ~(k < s), k # s
        PROVE  FALSE
    <3>1. k \in 1..Len(text) /\ k # 1 /\ k - 1 \in s..n
      <4>1. k \in 1..Len(text)
        BY StartsAreOrdered
      <4> QED
        BY <1>1, <1>4, <2>1, <4>1
    <3>2. text[k - 1] = Gap
      BY <3>1 DEF Starts
    <3> QED
      BY <1>4, <3>1, <3>2 DEF NoGap
  <2>2. \A k \in S : k \in 1..Len(text)
    BY StartsAreOrdered
  <2> HIDE DEF S
  <2>3. \A k \in S : k < s => k <= n
    BY <1>1, <1>4, <2>2
  <2>4. s <= n /\ ~(s < s)
    BY <1>1, <1>4
  <2> QED
    BY <1>7, <2>1, <2>3, <2>4
<1>9. IsFiniteSet(before) /\ Cardinality(before) \in Nat
  <2>1. before \subseteq S
    OBVIOUS
  <2> HIDE DEF before
  <2> QED
    BY <2>1, StartsAreOrdered, FS_Subset, FS_CardinalityType
<1>10. Cardinality(upto) = Cardinality(before) + 1
  <2> HIDE DEF before, upto
  <2> QED
    BY <1>8, <1>9, FS_AddElement
<1>11. Cardinality(before) < 3
  <2>1. Cardinality(upto) <= 3
    OBVIOUS
  <2> HIDE DEF before, upto
  <2> QED
    BY <1>9, <1>10, <2>1
<1>12. PICK k \in DOMAIN parts : parts[k] = PartAt(text, s)
  BY <1>7, <1>11 DEF PartsAre
<1>13. PICK m \in s..Len(text) : IsPart(text, s, m)
  BY <1>7, PartIsThere
<1>14. n \in s..m
  <2> SUFFICES ASSUME n \notin s..m PROVE FALSE
    OBVIOUS
  <2> DEFINE l == Len(text)
  <2>0. l \in Nat /\ n \in 1..l /\ s \in 1..n /\ m \in s..l /\ n \notin s..m
    BY <1>1, <1>4, <1>13
  <2> HIDE DEF l
  <2>a. m < n /\ m # l /\ m + 1 \in s..n
    BY ONLY <2>0
  <2>1. m < n /\ m # Len(text) /\ m + 1 \in s..n
    BY <2>a DEF l
  <2>2. text[m + 1] = Gap
    BY <1>13, <2>1 DEF IsPart
  <2> QED
    BY <1>4, <2>1, <2>2 DEF NoGap
<1>15. parts[k] = SubSeq(text, s, m)
  BY <1>12, <1>13 DEF IsPart
<1>16. s \in 1..Len(text)
  BY <1>1, <1>4
<1>17. text[n] \in Elems(SubSeq(text, s, m))
  BY <1>13, <1>14, <1>16, PartOfText
<1> QED
  BY <1>12, <1>15, <1>17

\* Every part is a list of words of the text.
LEMMA PartsAreOfText ==
  ASSUME NEW text, IsList(text), NEW parts, PartsAre(text, parts), NEW k \in DOMAIN parts
  PROVE  IsList(parts[k]) /\ Elems(parts[k]) \subseteq Elems(text)
<1>1. PICK n \in Starts(text) : parts[k] = PartAt(text, n)
  BY DEF PartsAre
<1>2. PICK m \in n..Len(text) : IsPart(text, n, m)
  BY PartIsThere
<1>3. n \in 1..Len(text)
  BY StartsAreOrdered
<1>4. parts[k] = SubSeq(text, n, m)
  BY <1>1, <1>2 DEF IsPart
<1> QED
  BY <1>2, <1>3, <1>4, PartOfText

\* Joined they are a list of all their words, with gaps.
LEMMA JoinedParts ==
  ASSUME NEW text, IsList(text), NEW parts, PartsAre(text, parts)
  PROVE  /\ IsList(Joined(parts)) /\ Elems(Joined(parts)) \subseteq Elems(text) \cup {Gap}
         /\ \A k \in DOMAIN parts : Elems(parts[k]) \subseteq Elems(Joined(parts))
<1> DEFINE pieces == [n \in DOMAIN parts |-> IF n = 1 THEN parts[n] ELSE <<Gap>> \o parts[n]]
<1>1. IsList(parts) /\ Len(parts) \in Nat /\ DOMAIN parts = 1..Len(parts)
  BY ListFacts DEF PartsAre
<1>2. pieces = [n \in 1..Len(parts) |-> pieces[n]]
  BY <1>1
<1>3. ASSUME NEW n \in DOMAIN parts
      PROVE  IsList(pieces[n]) /\ Elems(parts[n]) \subseteq Elems(pieces[n]) /\ Elems(pieces[n]) \subseteq Elems(parts[n]) \cup {Gap}
  <2>1. IsList(parts[n])
    BY PartsAreOfText
  <2>2. IsList(<<Gap>>) /\ Elems(<<Gap>>) = {Gap}
    <3>1. <<Gap>> \in Seq({Gap}) /\ DOMAIN <<Gap>> = {1} /\ <<Gap>>[1] = Gap
      OBVIOUS
    <3> QED
      BY <3>1, IsOne DEF Elems
  <2>3. CASE n = 1
    BY <2>1, <2>3
  <2>4. CASE n # 1
    <3>1. pieces[n] = <<Gap>> \o parts[n]
      BY <2>4
    <3> HIDE DEF pieces
    <3>2. OneThenOther(pieces[n], <<Gap>>, parts[n])
      BY <2>1, <2>2, <3>1, ListOfTwo
    <3> QED
      BY <2>2, <3>2 DEF OneThenOther
  <2> QED
    BY <2>3, <2>4
<1>4. Joined(parts) = Chained(pieces)
  BY DEF Joined
<1>5. DOMAIN pieces = DOMAIN parts
  OBVIOUS
<1> HIDE DEF pieces
<1>6. IsList(pieces)
  BY <1>1, <1>2, ListByPlace
<1>7. /\ IsList(Chained(pieces))
      /\ \A e : e \in Elems(Chained(pieces)) <=> \E n \in DOMAIN pieces : e \in Elems(pieces[n])
  BY <1>3, <1>5, <1>6, ListChained
<1>8. \A k \in DOMAIN parts : Elems(parts[k]) \subseteq Elems(text)
  BY PartsAreOfText
<1> QED
  BY <1>3, <1>4, <1>5, <1>7, <1>8

\* A query that follows up on the last turn of the user.
FollowsUp(text, past) == looksLikeFollowUp(text) /\ UserTurns(past) # <<>>

\* The last turn of the user is a turn of the user.
LEMMA LastUserTurn ==
  ASSUME NEW past, IsList(past), \A n \in DOMAIN past : IsList(past[n].text), UserTurns(past) # <<>>
  PROVE  \E t \in Elems(past) : t.role = "user" /\ t.text = findLastUserTurn(past) /\ IsList(t.text)
<1> DEFINE T == {t \in Elems(past) : t.role = "user" /\ t.text # <<>>}
           turns == SelectIn(past, T)
           k == Len(turns)
<1>1. past \in Seq(Elems(past))
  BY DEF IsList
<1>2. turns \in Seq(Elems(past)) /\ Range(turns) = Range(past) \cap T
  BY <1>1, SelectInType
<1>3. UserTurns(past) = turns
  BY DEF UserTurns
<1> HIDE DEF turns
<1>4. k \in Nat /\ DOMAIN turns = 1..k /\ k # 0
  BY <1>2, <1>3
<1>5. turns[k] \in Range(turns)
  BY <1>4 DEF Range
<1>6. turns[k] \in T
  BY <1>2, <1>5
<1>7. findLastUserTurn(past) = turns[k].text
  BY <1>3 DEF findLastUserTurn
<1> HIDE DEF k
<1>8. turns[k] \in Elems(past) /\ turns[k].role = "user"
  BY <1>6
<1>9. IsList(turns[k].text)
  BY <1>8 DEF Elems
<1> QED
  BY <1>7, <1>8, <1>9

\* What a text is rewritten to.
RewriteIs(text, past, rewrite) ==
  LET mapped == applyEnabledMappings(text)
  IN \/ /\ FollowsUp(mapped, past) /\ rewrite.strategy = "followup-merge"
        /\ \E t \in Elems(past) : t.role = "user" /\ IsList(t.text) /\ rewrite.query = t.text \o mapped
     \/ /\ ~FollowsUp(mapped, past) /\ rewrite.strategy = "multi-query"
        /\ \E parts : PartsAre(mapped, parts) /\ rewrite.query = Joined(parts)
     \/ /\ ~FollowsUp(mapped, past) /\ rewrite.strategy = "passthrough"
        /\ rewrite.query = mapped

\* In one of the three ways.
LEMMA RewriteOfText ==
  ASSUME NEW text, IsList(text), NEW past, IsList(past), \A n \in DOMAIN past : IsList(past[n].text)
  PROVE  RewriteIs(text, past, buildRewritePlan(text, past))
<1> DEFINE mapped == applyEnabledMappings(text)
           parts == splitIntoSubQueries(mapped)
           rewrite == buildRewritePlan(text, past)
<1>1. IsList(mapped)
  BY MappedIsList
<1>2. PartsAre(mapped, parts)
  <2> HIDE DEF mapped
  <2> QED
    BY <1>1, SplitIntoParts
<1>3. CASE FollowsUp(mapped, past)
  <2>1. PICK t \in Elems(past) : t.role = "user" /\ t.text = findLastUserTurn(past) /\ IsList(t.text)
    BY <1>3, LastUserTurn DEF FollowsUp
  <2>2. rewrite = Rewrite("followup-merge", findLastUserTurn(past) \o mapped, IF parts = <<>> THEN <<mapped>> ELSE parts)
    BY <1>3 DEF FollowsUp, buildRewritePlan
  <2>3. rewrite.strategy = "followup-merge" /\ rewrite.query = t.text \o mapped
    BY <2>1, <2>2 DEF Rewrite
  <2> HIDE DEF mapped, rewrite
  <2> QED
    BY <1>3, <2>1, <2>3 DEF RewriteIs, mapped, rewrite
<1>4. CASE ~FollowsUp(mapped, past) /\ Len(parts) > 1
  <2>1. rewrite = Rewrite("multi-query", Joined(parts), parts)
    BY <1>4 DEF FollowsUp, buildRewritePlan
  <2>2. rewrite.strategy = "multi-query" /\ rewrite.query = Joined(parts)
    BY <2>1 DEF Rewrite
  <2> HIDE DEF mapped, rewrite, parts
  <2> QED
    BY <1>2, <1>4, <2>2 DEF RewriteIs, mapped, rewrite
<1>5. CASE ~FollowsUp(mapped, past) /\ ~(Len(parts) > 1)
  <2>1. rewrite = Rewrite("passthrough", mapped, <<mapped>>)
    BY <1>5 DEF FollowsUp, buildRewritePlan
  <2>2. rewrite.strategy = "passthrough" /\ rewrite.query = mapped
    BY <2>1 DEF Rewrite
  <2> HIDE DEF mapped, rewrite, parts
  <2> QED
    BY <1>5, <2>2 DEF RewriteIs, mapped, rewrite
<1> QED
  BY <1>3, <1>4, <1>5

\* What a query has in it of what was asked.
QueryIsWhole(text, past, rewrite) ==
  LET mapped == applyEnabledMappings(text)
  IN /\ AskedFirst(mapped) \subseteq Words(rewrite.query)
     /\ rewrite.strategy # "multi-query" => Asked(mapped) \subseteq Words(rewrite.query)
     /\ rewrite.strategy # "followup-merge" => Asked(rewrite.query) \subseteq Asked(mapped)
     /\ FollowsUp(mapped, past) => \E t \in Elems(past) : t.role = "user" /\ rewrite.query = t.text \o mapped

\* Whichever way it is rewritten, the query is whole, and a list.
LEMMA RewriteIsWhole ==
  ASSUME NEW text, IsList(text), NEW past, NEW rewrite, RewriteIs(text, past, rewrite)
  PROVE  QueryIsWhole(text, past, rewrite) /\ IsList(rewrite.query) /\ rewrite.strategy \in Strategies
<1> DEFINE mapped == applyEnabledMappings(text)
           query == rewrite.query
<1>1. IsList(mapped)
  BY MappedIsList
<1>2. AskedFirst(mapped) \subseteq Elems(mapped)
  BY DEF AskedFirst, Elems
<1>3. CASE /\ FollowsUp(mapped, past) /\ rewrite.strategy = "followup-merge"
           /\ \E t \in Elems(past) : t.role = "user" /\ IsList(t.text) /\ query = t.text \o mapped
  <2>1. PICK t \in Elems(past) : t.role = "user" /\ IsList(t.text) /\ query = t.text \o mapped
    BY <1>3
  <2> HIDE DEF mapped, query
  <2>2. OneThenOther(query, t.text, mapped)
    BY <1>1, <2>1, ListOfTwo
  <2>3. IsList(query) /\ Elems(mapped) \subseteq Elems(query)
    BY <2>2 DEF OneThenOther
  <2>4. AskedFirst(mapped) \subseteq Words(query) /\ Asked(mapped) \subseteq Words(query)
    BY <1>2, <2>3 DEF Asked, Words
  <2> QED
    BY <1>3, <2>1, <2>3, <2>4 DEF QueryIsWhole, Strategies, mapped, query
<1>4. CASE /\ ~FollowsUp(mapped, past) /\ rewrite.strategy = "multi-query"
           /\ \E parts : PartsAre(mapped, parts) /\ query = Joined(parts)
  <2>1. PICK parts : PartsAre(mapped, parts) /\ query = Joined(parts)
    BY <1>4
  <2> HIDE DEF mapped, query
  <2>2. /\ IsList(query) /\ Elems(query) \subseteq Elems(mapped) \cup {Gap}
        /\ \A k \in DOMAIN parts : Elems(parts[k]) \subseteq Elems(query)
    BY <1>1, <2>1, JoinedParts
  <2>3. AskedFirst(mapped) \subseteq Elems(query)
    <3> SUFFICES ASSUME NEW n \in DOMAIN mapped, mapped[n] # Gap,
                        Cardinality({k \in Starts(mapped) : k <= n}) <= 3
                 PROVE  mapped[n] \in Elems(query)
      BY DEF AskedFirst
    <3>1. PICK k \in DOMAIN parts : mapped[n] \in Elems(parts[k])
      BY <1>1, <2>1, FirstAreInParts
    <3> QED
      BY <2>2, <3>1
  <2>4. AskedFirst(mapped) \subseteq Words(query) /\ Asked(query) \subseteq Asked(mapped)
    BY <2>2, <2>3 DEF Asked, Words
  <2> QED
    BY <1>4, <2>2, <2>4 DEF QueryIsWhole, Strategies, mapped, query
<1>5. CASE ~FollowsUp(mapped, past) /\ rewrite.strategy = "passthrough" /\ query = mapped
  <2>1. AskedFirst(mapped) \subseteq Words(query) /\ Asked(mapped) \subseteq Words(query) /\ Asked(query) \subseteq Asked(mapped)
    BY <1>2, <1>5 DEF Asked, Words
  <2> HIDE DEF mapped, query
  <2> QED
    BY <1>1, <1>5, <2>1 DEF QueryIsWhole, Strategies, mapped, query
<1> QED
  BY <1>3, <1>4, <1>5 DEF RewriteIs

\* What is known of a search that was done: its query is whole, its plan within the scope.
LEMMA SearchFacts ==
  ASSUME setup \in Setups, NEW search, SearchIs(search)
  PROVE  /\ QueryIsWhole(search.text, setup.past, search.rewrite)
         /\ IsList(search.rewrite.query) /\ search.rewrite.strategy \in Strategies
         /\ search.plan.topK \in Nat /\ search.plan.bases \subseteq setup.visible
<1>1. /\ search.text \in Texts /\ search.rewrite = buildRewritePlan(search.text, setup.past)
      /\ search.plan = buildRetrievalPlan(search.text, search.rewrite)
  BY DEF SearchIs
<1>2. setup.past \in Pasts
  BY DEF Setups
<1>3. IsList(search.text) /\ IsList(setup.past) /\ \A n \in DOMAIN setup.past : IsList(setup.past[n].text)
  BY <1>1, <1>2, TurnFacts
<1>4. RewriteIs(search.text, setup.past, search.rewrite)
  BY <1>1, <1>3, RewriteOfText
<1>5. search.plan.topK \in {FewChunks, ManyChunks} /\ search.plan.bases \subseteq setup.visible
  BY <1>1 DEF buildRetrievalPlan, SelectedBases
<1>6. search.plan.topK \in Nat
  BY <1>5, TurnFacts
<1> QED
  BY <1>3, <1>4, <1>5, <1>6, RewriteIsWhole

\* So the queries of all searches are whole ...
LEMMA QueriesWhole == GroundingInv => QueriesAreWhole
<1> SUFFICES ASSUME GroundingInv, NEW n \in DOMAIN looked
             PROVE  QueryIsWhole(looked[n].text, setup.past, looked[n].rewrite)
  BY DEF QueriesAreWhole, QueryIsWhole, FollowsUp
<1>1. setup \in Setups /\ SearchIs(looked[n])
  BY DEF GroundingInv, AllDone
<1> QED
  BY <1>1, SearchFacts

\* ... and what the server itself answers is the best it has.
LEMMA LocalBestAlways == GroundingInv => LocalAnswersAreBest
<1> SUFFICES ASSUME GroundingInv, NEW n \in DOMAIN looked, looked[n].by.adapter = LocalAdapter
             PROVE  LocalBest(looked[n].rewrite.query, looked[n].plan, looked[n].chunks)
  BY DEF LocalAnswersAreBest, LocalBest, Open, Matches
<1>1. setup \in Setups /\ SearchIs(looked[n])
  BY DEF GroundingInv, AllDone
<1>2. looked[n].plan.retrieve
  <2>1. Nothing.adapter # LocalAdapter
    BY DEF Nothing, NoAdapter, LocalAdapter
  <2> QED
    BY <1>1, <2>1 DEF SearchIs
<1>3. PICK gathered \in Gathered(looked[n].rewrite, looked[n].plan) :
        looked[n].chunks = gathered.chunks /\ looked[n].by = gathered.by
  BY <1>1, <1>2 DEF SearchIs
<1>4. looked[n].chunks = LocalChunks(looked[n].rewrite, looked[n].plan)
  BY <1>3, FoundIsList
<1>5. IsList(looked[n].rewrite.query) /\ looked[n].plan.topK \in Nat
  BY <1>1, SearchFacts
<1> QED
  BY <1>4, <1>5, LocalChunksAreBest

\* The types of what a turn is grounded on follow.
LEMMA GroundingTypes == GroundingInv => GroundingTypeOK
<1> SUFFICES ASSUME GroundingInv PROVE GroundingTypeOK
  OBVIOUS
<1>1. /\ setup \in Setups /\ turn \in {"gathering", "prepared", "thrown"}
      /\ Len(looked) <= MaxSearchRounds /\ Len(toolUses) <= MaxToolUses
      /\ LastOneRan(looked, execution) /\ \A n \in DOMAIN looked : SearchIs(looked[n])
  BY DEF GroundingInv, AllDone
<1>2. \A n \in DOMAIN looked : looked[n].rewrite.strategy \in Strategies /\ looked[n].plan.bases \subseteq setup.visible
  BY <1>1, SearchFacts
<1>3. execution.adapter \in {NoAdapter, LocalAdapter, ServiceAdapter}
  <2>1. CASE execution = Nothing
    BY <2>1 DEF Nothing
  <2>2. CASE \E n \in DOMAIN looked : looked[n].plan.retrieve /\ execution = looked[n].by
    BY <1>1, <2>2, RanIsSomething
  <2> QED
    BY <1>1, <2>1, <2>2 DEF LastOneRan
<1> QED
  BY <1>1, <1>2, <1>3 DEF GroundingTypeOK

\* An answer rests on what was asked for and found (module Grounding): whatever is searched for,
\* of any history, scope, knowledge and service, the queries are whole, the server's own answers
\* the best it has, the evidence and the requests whole, and the report and the trace true.
THEOREM GroundingIsAlwaysTrue == GroundingSpec => []GroundingIsTrue
<1>1. GroundingInit => GroundingInv
  BY InitGrounding
<1>2. GroundingInv /\ [GroundingNext]_groundingVars => GroundingInv'
  BY NextGrounding
<1>3. GroundingInv => GroundingIsTrue
  BY QueriesWhole, LocalBestAlways, EvidenceWhole, ReportOfLast, RequestsWhole, TraceTree DEF GroundingIsTrue
<1> QED
  BY <1>1, <1>2, <1>3, PTL DEF GroundingSpec

-----------------------------------------------------------------------------
(* The read models *)

\* What is ordered is a function of its places.
LEMMA OrderedIsFunction ==
  ASSUME NEW S, NEW key
  PROVE  Ordered(S, key) = [n \in 1..Cardinality(S) |-> Ordered(S, key)[n]]
<1> DEFINE s == Ordered(S, key)
<1>1. s = [n \in 1..Cardinality(S) |-> s[n]]
  BY DEF Ordered
<1> QED
  BY <1>1

\* The numbers up to k are as many.
LEMMA UpToIsFinite ==
  ASSUME NEW k \in Nat
  PROVE  IsFiniteSet(1..k) /\ Cardinality(1..k) = k
BY FS_Interval

\* Keys of as many numbers, no two the same, order a set.
LEMMA KeysOrder ==
  ASSUME NEW k \in Nat, NEW S, NEW key,
         \A i \in S : DOMAIN key[i] = 1..k /\ \A m \in 1..k : key[i][m] \in Int,
         \A i, j \in S : i # j => \E m \in 1..k : key[i][m] # key[j][m]
  PROVE  OrdersAll(ByKey(S, key), S)
<1>0. \A i, j \in S : <<i, j>> \in ByKey(S, key) <=>
        \E n \in 1..k : key[i][n] < key[j][n] /\ \A m \in 1..(n - 1) : key[i][m] = key[j][m]
  BY DEF ByKey, ComesFirst
<1>1. \A i \in S : <<i, i>> \notin ByKey(S, key)
  BY <1>0
<1>2. ASSUME NEW i \in S, NEW j \in S, NEW l \in S,
             <<i, j>> \in ByKey(S, key), <<j, l>> \in ByKey(S, key)
      PROVE  <<i, l>> \in ByKey(S, key)
  <2>1. PICK n \in 1..k : key[i][n] < key[j][n] /\ \A m \in 1..(n - 1) : key[i][m] = key[j][m]
    BY <1>0, <1>2
  <2>2. PICK o \in 1..k : key[j][o] < key[l][o] /\ \A m \in 1..(o - 1) : key[j][m] = key[l][m]
    BY <1>0, <1>2
  <2>3. CASE n <= o
    <3>1. \A m \in 1..(n - 1) : m \in 1..(o - 1)
      BY <2>3
    <3>2. \A m \in 1..(n - 1) : key[i][m] = key[l][m]
      BY <2>1, <2>2, <3>1
    <3>3. n = o \/ n \in 1..(o - 1)
      BY <2>3
    <3>4. key[j][n] <= key[l][n]
      BY <2>2, <3>3
    <3>5. key[i][n] < key[l][n]
      BY <2>1, <3>4
    <3> QED
      BY <1>0, <3>2, <3>5
  <2>4. CASE o < n
    <3>1. o \in 1..(n - 1) /\ \A m \in 1..(o - 1) : m \in 1..(n - 1)
      BY <2>4
    <3>2. \A m \in 1..(o - 1) : key[i][m] = key[l][m]
      BY <2>1, <2>2, <3>1
    <3>3. key[i][o] < key[l][o]
      BY <2>1, <2>2, <3>1
    <3> QED
      BY <1>0, <3>2, <3>3
  <2> QED
    BY <2>3, <2>4
<1>3. ASSUME NEW i \in S, NEW j \in S, i # j
      PROVE  <<i, j>> \in ByKey(S, key) \/ <<j, i>> \in ByKey(S, key)
  <2> DEFINE differ == {m \in 1..k : key[i][m] # key[j][m]}
  <2>1. differ \in SUBSET Nat /\ differ # {}
    BY <1>3
  <2>2. PICK n \in differ : \A m \in differ : n <= m
    BY <2>1, LeastNumber
  <2>3. n \in 1..k /\ key[i][n] # key[j][n]
    BY <2>2
  <2>4. \A m \in 1..(n - 1) : m \in 1..k /\ ~(n <= m)
    BY <2>3
  <2>5. \A m \in 1..(n - 1) : key[i][m] = key[j][m]
    BY <2>2, <2>4
  <2>6. key[i][n] < key[j][n] \/ key[j][n] < key[i][n]
    BY <2>3
  <2> QED
    BY <1>0, <2>3, <2>5, <2>6
<1> QED
  BY <1>1, <1>2, <1>3 DEF OrdersAll

\* Keys that are so, of the places of a list: ...
AreKeys(key, k, S) ==
  /\ \A i \in S : DOMAIN key[i] = 1..k /\ \A m \in 1..k : key[i][m] \in Int
  /\ \A i, j \in S : i # j => \E m \in 1..k : key[i][m] # key[j][m]

\* ... an order of a finite set by them has each element once, the smaller first numbers first.
IsOrderOf(s, S, key) ==
  /\ s \in Seq(S) /\ s \in [1..Cardinality(S) -> S] /\ DOMAIN s = 1..Cardinality(S) /\ Len(s) = Cardinality(S)
  /\ \A m, n \in DOMAIN s : s[m] = s[n] => m = n
  /\ \A i \in S : \E n \in DOMAIN s : s[n] = i
  /\ \A m, n \in DOMAIN s : m < n => key[s[m]][1] <= key[s[n]][1] /\ ComesFirst(key[s[m]], key[s[n]])

\* Ordered gives one.
LEMMA OrderByKeys ==
  ASSUME NEW S, IsFiniteSet(S), NEW k \in Nat \ {0}, NEW key, AreKeys(key, k, S)
  PROVE  IsOrderOf(Ordered(S, key), S, key)
<1> DEFINE s == Ordered(S, key)
           R == ByKey(S, key)
<1>1. OrdersAll(R, S)
  BY KeysOrder DEF AreKeys
<1>2. IsRanked(s, S, R)
  BY <1>1, OrderedIsRanked
<1>3. /\ s \in Seq(S) /\ DOMAIN s = 1..Cardinality(S) /\ Len(s) = Cardinality(S)
      /\ \A m, n \in DOMAIN s : m < n <=> <<s[m], s[n]>> \in R
      /\ \A i \in S : \E n \in DOMAIN s : s[n] = i
  BY <1>2 DEF IsRanked
<1>3a. s = [n \in 1..Cardinality(S) |-> s[n]]
  BY OrderedIsFunction
<1> HIDE DEF s, R
<1>4. Cardinality(S) \in Nat
  BY FS_CardinalityType
<1>5. ASSUME NEW m \in DOMAIN s, NEW n \in DOMAIN s, s[m] = s[n]
      PROVE  m = n
  <2>1. s[n] \in S /\ s[m] \in S /\ m \in Int /\ n \in Int
    BY <1>3, <1>4, ElementOfSeq
  <2>2. <<s[m], s[n]>> \notin R /\ <<s[n], s[m]>> \notin R
    BY <1>1, <1>5, <2>1 DEF OrdersAll
  <2>3. ~(m < n) /\ ~(n < m)
    BY <1>3, <2>2
  <2> QED
    BY <2>1, <2>3
<1>6. ASSUME NEW m \in DOMAIN s, NEW n \in DOMAIN s, m < n
      PROVE  key[s[m]][1] <= key[s[n]][1] /\ ComesFirst(key[s[m]], key[s[n]])
  <2>1. ComesFirst(key[s[m]], key[s[n]])
    BY <1>3, <1>6 DEF ByKey, R
  <2>2. s[n] \in S /\ s[m] \in S
    BY <1>3, <1>4, ElementOfSeq
  <2>3. PICK o \in 1..k : key[s[m]][o] < key[s[n]][o] /\ \A l \in 1..(o - 1) : key[s[m]][l] = key[s[n]][l]
    BY <2>1, <2>2 DEF ComesFirst, AreKeys
  <2>4. o = 1 \/ 1 \in 1..(o - 1)
    OBVIOUS
  <2>5. key[s[m]][1] \in Int /\ key[s[n]][1] \in Int
    BY <2>2 DEF AreKeys
  <2> QED
    BY <2>1, <2>3, <2>4, <2>5
<1>7. \A m, n \in DOMAIN s : s[m] = s[n] => m = n
  BY <1>5
<1>8. \A m, n \in DOMAIN s : m < n => key[s[m]][1] <= key[s[n]][1] /\ ComesFirst(key[s[m]], key[s[n]])
  BY <1>6
<1>9. \A n \in 1..Cardinality(S) : s[n] \in S
  BY <1>3, <1>4, ElementOfSeq
<1>10. s \in [1..Cardinality(S) -> S]
  BY ONLY <1>3a, <1>9
<1> QED
  BY <1>3, <1>7, <1>8, <1>10 DEF s, IsOrderOf

\* A list r that has the elements of the list s, each as often.
IsReordering(r, s, order) ==
  /\ DOMAIN r = DOMAIN s /\ Len(r) = Len(s) /\ Elems(r) = Elems(s)
  /\ order \in [DOMAIN s -> DOMAIN s]
  /\ \A n \in DOMAIN s : r[n] = s[order[n]]
  /\ \A m, n \in DOMAIN s : order[m] = order[n] => m = n
  /\ \A i \in DOMAIN s : \E n \in DOMAIN s : order[n] = i

\* To sort a list is to reorder it.
LEMMA SortedReorders ==
  ASSUME NEW E, NEW s \in Seq(E), NEW k \in Nat \ {0}, NEW key, AreKeys(key, k, DOMAIN s)
  PROVE  /\ Sorted(s, key) \in Seq(E) /\ IsReordering(Sorted(s, key), s, Ordered(DOMAIN s, key))
         /\ \A m, n \in DOMAIN s :
              m < n => /\ key[Ordered(DOMAIN s, key)[m]][1] <= key[Ordered(DOMAIN s, key)[n]][1]
                       /\ ComesFirst(key[Ordered(DOMAIN s, key)[m]], key[Ordered(DOMAIN s, key)[n]])
<1> DEFINE S == DOMAIN s
           order == Ordered(S, key)
           r == Sorted(s, key)
<1>1. S = 1..Len(s) /\ Len(s) \in Nat /\ \A i \in S : s[i] \in E
  BY Elements
<1>2. IsFiniteSet(S) /\ Cardinality(S) = Len(s)
  BY <1>1, UpToIsFinite
<1>3. /\ order \in Seq(S) /\ order \in [1..Cardinality(S) -> S] /\ DOMAIN order = 1..Cardinality(S)
      /\ \A m, n \in DOMAIN order : order[m] = order[n] => m = n
      /\ \A i \in S : \E n \in DOMAIN order : order[n] = i
      /\ \A m, n \in DOMAIN order : m < n => key[order[m]][1] <= key[order[n]][1] /\ ComesFirst(key[order[m]], key[order[n]])
  <2>1. AreKeys(key, k, S)
    OBVIOUS
  <2> HIDE DEF S
  <2> QED
    BY <1>2, <2>1, OrderByKeys DEF IsOrderOf
<1>4. r = [n \in DOMAIN order |-> s[order[n]]]
  BY DEF Sorted
<1> HIDE DEF order, r, S
<1>5. DOMAIN order = S /\ \A n \in S : order[n] \in S
  BY <1>1, <1>2, <1>3, ElementOfSeq
<1>6. order \in [S -> S]
  BY <1>1, <1>2, <1>3
<1>7. DOMAIN r = S /\ \A n \in S : r[n] = s[order[n]] /\ r[n] \in E
  BY <1>1, <1>4, <1>5
<1>8. r = [n \in 1..Len(s) |-> r[n]]
  BY <1>1, <1>4, <1>5
<1>9. r \in Seq(E) /\ Len(r) = Len(s)
  BY <1>1, <1>7, <1>8
<1>10. Elems(r) = Elems(s)
  <2>1. \A n \in S : \E i \in S : r[n] = s[i]
    BY <1>5, <1>7
  <2>2. ASSUME NEW i \in S
        PROVE  \E n \in S : r[n] = s[i]
    <3>1. PICK n \in DOMAIN order : order[n] = i
      BY <1>3
    <3> QED
      BY <1>5, <1>7, <3>1
  <2>3. DOMAIN s = S /\ DOMAIN r = S
    BY <1>7 DEF S
  <2> QED
    BY <2>1, <2>2, <2>3 DEF Elems
<1>11. IsReordering(r, s, order)
  BY <1>3, <1>5, <1>6, <1>7, <1>9, <1>10 DEF IsReordering, S
<1> QED
  BY <1>3, <1>5, <1>9, <1>11 DEF order, r, S

\* Keys of two numbers, of which the second differ.
LEMMA KeysOfTwo ==
  ASSUME NEW S, NEW key,
         \A i \in S : key[i] = <<key[i][1], key[i][2]>> /\ key[i][1] \in Int /\ key[i][2] \in Int,
         \A i, j \in S : key[i][2] = key[j][2] => i = j
  PROVE  AreKeys(key, 2, S)
<1>1. ASSUME NEW i \in S
      PROVE  DOMAIN key[i] = 1..2 /\ \A m \in 1..2 : key[i][m] \in Int
  <2>1. key[i] = <<key[i][1], key[i][2]>>
    OBVIOUS
  <2>2. DOMAIN key[i] = 1..2
    BY <2>1
  <2>3. 1..2 = {1, 2}
    OBVIOUS
  <2> QED
    BY <2>2, <2>3
<1>2. 2 \in 1..2
  OBVIOUS
<1> QED
  BY <1>1, <1>2 DEF AreKeys

\* A selection is as long as there are places of what is selected.
LEMMA SelectInLength ==
  ASSUME NEW E, NEW s \in Seq(E), NEW T
  PROVE  /\ IsFiniteSet({i \in DOMAIN s : s[i] \in T})
         /\ Len(SelectIn(s, T)) = Cardinality({i \in DOMAIN s : s[i] \in T})
<1> DEFINE f == SelectInOf(s, T)
           chosen(n) == {i \in 1..n : s[i] \in T}
           Good == {n \in Nat : f[n] \in Seq(E) /\ IsFiniteSet(chosen(n)) /\ Len(f[n]) = Cardinality(chosen(n))}
<1>1. DOMAIN s = 1..Len(s) /\ Len(s) \in Nat /\ \A i \in 1..Len(s) : s[i] \in E
  BY Elements
<1>2. f[0] = <<>> /\ \A n \in 1..Len(s) : f[n] = IF s[n] \in T THEN Append(f[n - 1], s[n]) ELSE f[n - 1]
  BY SelectInNone, SelectInStep
<1>3. SelectIn(s, T) = f[Len(s)]
  BY DEF SelectIn
<1> HIDE DEF f
<1>4. 0 \in Good
  <2>1. chosen(0) = {}
    OBVIOUS
  <2>2. f[0] \in Seq(E) /\ Len(f[0]) = 0
    BY <1>2
  <2> HIDE DEF chosen
  <2> QED
    BY <2>1, <2>2, FS_EmptySet
<1>5. ASSUME NEW n \in 0..(Len(s) - 1), n \in Good
      PROVE  n + 1 \in Good
  <2>1. n + 1 \in 1..Len(s) /\ (n + 1) - 1 = n /\ n + 1 \in Nat /\ n \in Nat /\ 1..(n + 1) = (1..n) \cup {n + 1} /\ n + 1 \notin 1..n
    BY <1>1
  <2>2. f[n + 1] = IF s[n + 1] \in T THEN Append(f[n], s[n + 1]) ELSE f[n]
    BY <1>2, <2>1
  <2>3. f[n] \in Seq(E) /\ IsFiniteSet(chosen(n)) /\ Len(f[n]) = Cardinality(chosen(n))
    BY <1>5
  <2>4. s[n + 1] \in E
    BY <1>1, <2>1
  <2>5. CASE s[n + 1] \in T
    <3>1. chosen(n + 1) = chosen(n) \cup {n + 1} /\ n + 1 \notin chosen(n)
      BY <2>1, <2>5
    <3> HIDE DEF chosen
    <3>2. IsFiniteSet(chosen(n + 1)) /\ Cardinality(chosen(n + 1)) = Cardinality(chosen(n)) + 1
      BY <2>3, <3>1, FS_AddElement
    <3>3. f[n + 1] \in Seq(E) /\ Len(f[n + 1]) = Len(f[n]) + 1
      BY <2>2, <2>3, <2>4, <2>5, AppendProperties
    <3> QED
      BY <2>1, <2>3, <3>2, <3>3
  <2>6. CASE s[n + 1] \notin T
    <3>1. chosen(n + 1) = chosen(n)
      BY <2>1, <2>6
    <3> HIDE DEF chosen
    <3> QED
      BY <2>1, <2>2, <2>3, <2>6, <3>1
  <2> QED
    BY <2>5, <2>6
<1>6. Len(s) \in Good
  <2> HIDE DEF Good
  <2>1. \A n \in 0..Len(s) : n \in Good
    BY <1>1, <1>4, <1>5, Induction
  <2> QED
    BY <1>1, <2>1
<1>7. chosen(Len(s)) = {i \in DOMAIN s : s[i] \in T}
  BY <1>1
<1> HIDE DEF chosen
<1> QED
  BY <1>3, <1>6, <1>7

\* Of a list that is reordered as much is selected as of the list.
LEMMA SelectReordered ==
  ASSUME NEW E, NEW s \in Seq(E), NEW r \in Seq(E), NEW order, IsReordering(r, s, order), NEW T
  PROVE  Len(SelectIn(r, T)) = Len(SelectIn(s, T))
<1> DEFINE A == {n \in DOMAIN r : r[n] \in T}
           B == {i \in DOMAIN s : s[i] \in T}
           f == [n \in A |-> order[n]]
<1>1. /\ IsFiniteSet(A) /\ Len(SelectIn(r, T)) = Cardinality(A)
      /\ IsFiniteSet(B) /\ Len(SelectIn(s, T)) = Cardinality(B)
  BY SelectInLength
<1>2. /\ DOMAIN r = DOMAIN s /\ order \in [DOMAIN s -> DOMAIN s]
      /\ \A n \in DOMAIN s : r[n] = s[order[n]]
      /\ \A m, n \in DOMAIN s : order[m] = order[n] => m = n
      /\ \A i \in DOMAIN s : \E n \in DOMAIN s : order[n] = i
  BY DEF IsReordering
<1>3. f \in [A -> B]
  BY <1>2
<1>4. \A m, n \in A : f[m] = f[n] => m = n
  BY <1>2
<1>5. ASSUME NEW i \in B
      PROVE  \E n \in A : f[n] = i
  <2>1. PICK n \in DOMAIN s : order[n] = i
    BY <1>2
  <2>2. n \in A
    BY <1>2, <2>1
  <2> QED
    BY <2>1, <2>2
<1> HIDE DEF A, B, f
<1>6. f \in Surjection(A, B) /\ f \in Injection(A, B)
  BY <1>3, <1>4, <1>5 DEF Surjection, Injection, IsInjective
<1>7. Cardinality(B) = Cardinality(A)
  BY <1>1, <1>6, FS_Surjection
<1> QED
  BY <1>1, <1>7

\* Each name is named first once.
LEMMA NamedFirst ==
  ASSUME NEW L \in Nat, NEW names, DOMAIN names = 1..L
  PROVE  /\ IsFiniteSet(FirstNamed(names)) /\ FirstNamed(names) \subseteq 1..L
         /\ \A n \in 1..L : \E m \in FirstNamed(names) : names[m] = names[n]
         /\ \A m, n \in FirstNamed(names) : names[m] = names[n] => m = n
<1>1. FirstNamed(names) \in SUBSET (1..L)
  BY DEF FirstNamed
<1>2. IsFiniteSet(FirstNamed(names))
  BY <1>1, UpToIsFinite, FS_Subset
<1>3. ASSUME NEW n \in 1..L
      PROVE  \E m \in FirstNamed(names) : names[m] = names[n]
  <2> DEFINE same == {m \in 1..L : names[m] = names[n]}
  <2>1. same \in SUBSET Nat /\ same # {}
    OBVIOUS
  <2>2. PICK m \in same : \A l \in same : m <= l
    BY <2>1, LeastNumber
  <2>3. m \in 1..L /\ names[m] = names[n]
    BY <2>2
  <2>4. \A l \in 1..(m - 1) : l \in 1..L /\ ~(m <= l)
    BY <2>3
  <2>5. \A l \in 1..(m - 1) : names[l] # names[m]
    BY <2>2, <2>3, <2>4
  <2> QED
    BY <2>3, <2>5 DEF FirstNamed
<1>4. ASSUME NEW m \in FirstNamed(names), NEW n \in FirstNamed(names), names[m] = names[n]
      PROVE  m = n
  <2>1. m \in 1..L /\ n \in 1..L
    BY <1>1
  <2>2. ~(m \in 1..(n - 1)) /\ ~(n \in 1..(m - 1))
    BY <1>4 DEF FirstNamed
  <2> QED
    BY <2>1, <2>2
<1> QED
  BY <1>1, <1>2, <1>3, <1>4

\* What the read models say is of numbers and of the known statuses.
LEMMA RecordFacts ==
  /\ Times \subseteq Int
  /\ \A a \in DOMAIN statusRank : statusRank[a] \in 1..5
  /\ \A a \in DOMAIN statusRank : statusRank[a] = 1 <=> a = "succeeded"
  /\ \A t \in TraceRecord : /\ t.run \in Runs /\ t.status \in DOMAIN statusRank /\ t.start \in Times /\ t.finish \in Times
                            /\ t.start \in Int /\ t.finish \in Int
  /\ \A t \in IngestionTask : /\ t.doc \in Documents /\ t.status \in TaskStatusOf /\ t.created \in Times
                              /\ t.updated \in Times /\ t.created \in Int /\ t.updated \in Int
<1>1. Times \subseteq Int
  BY ReadModelAssumption
<1>2. DOMAIN statusRank = {"failed", "cancelled", "running", "pending", "succeeded"}
  BY DEF statusRank
<1>3. /\ statusRank["failed"] = 5 /\ statusRank["cancelled"] = 4 /\ statusRank["running"] = 3
      /\ statusRank["pending"] = 2 /\ statusRank["succeeded"] = 1
  BY DEF statusRank
<1>4. \A a \in DOMAIN statusRank : statusRank[a] \in 1..5
  BY <1>2, <1>3
<1>5. \A a \in DOMAIN statusRank : statusRank[a] = 1 <=> a = "succeeded"
  BY <1>2, <1>3
<1>6. \A t \in TraceRecord : t.run \in Runs /\ t.status \in DOMAIN statusRank /\ t.start \in Times /\ t.finish \in Times
  BY DEF TraceRecord
<1>7. \A t \in IngestionTask : t.doc \in Documents /\ t.status \in TaskStatusOf /\ t.created \in Times /\ t.updated \in Times
  BY DEF IngestionTask
<1> QED
  BY <1>1, <1>4, <1>5, <1>6, <1>7

\* A run that is summed up.
RunRecord == [run : Runs, status : DOMAIN statusRank, start : Times, finish : Times, nodes : Seq(TraceRecord)]

\* One record more.
LEMMA NodeIsAdded ==
  ASSUME NEW r \in RunRecord, NEW t \in TraceRecord
  PROVE  LET w == WithNode(r, t) IN
         /\ w \in RunRecord /\ w.run = r.run /\ w.nodes = Append(r.nodes, t)
         /\ w.start = IF t.start < r.start THEN t.start ELSE r.start
         /\ w.finish = IF t.finish > r.finish THEN t.finish ELSE r.finish
         /\ w.status = IF statusRank[t.status] > statusRank[r.status] THEN t.status ELSE r.status
<1> DEFINE w == WithNode(r, t)
           a == Append(r.nodes, t)
           b == IF t.start < r.start THEN t.start ELSE r.start
           c == IF t.finish > r.finish THEN t.finish ELSE r.finish
           d == IF statusRank[t.status] > statusRank[r.status] THEN t.status ELSE r.status
<1>1. /\ t.status \in DOMAIN statusRank /\ t.start \in Times /\ t.finish \in Times
  BY RecordFacts
<1>2. /\ r.run \in Runs /\ r.status \in DOMAIN statusRank /\ r.start \in Times /\ r.finish \in Times /\ r.nodes \in Seq(TraceRecord)
  BY DEF RunRecord
<1>3. a \in Seq(TraceRecord)
  BY <1>2, AppendProperties
<1>4. b \in Times /\ c \in Times /\ d \in DOMAIN statusRank
  BY <1>1, <1>2
<1>5. w = [[[[r EXCEPT !.nodes = a] EXCEPT !.start = b] EXCEPT !.finish = c] EXCEPT !.status = d]
  BY DEF WithNode, RunRecord
<1> HIDE DEF w, a, b, c, d
<1>6. w \in RunRecord /\ w.run = r.run /\ w.nodes = a /\ w.start = b /\ w.finish = c /\ w.status = d
  BY <1>3, <1>4, <1>5 DEF RunRecord
<1> QED
  BY <1>6 DEF w, a, b, c, d

\* The recursion of SumOf has a solution.
LEMMA SumRecursion ==
  ASSUME NEW nodes, Len(nodes) \in Nat
  PROVE  SumOf(nodes) = [n \in 0..Len(nodes) |->
           IF n = 0 THEN NewRun(nodes[1]) ELSE WithNode(SumOf(nodes)[n - 1], nodes[n])]
<1> DEFINE Solves(g, N) == g = [n \in 0..N |-> IF n = 0 THEN NewRun(nodes[1]) ELSE WithNode(g[n - 1], nodes[n])]
           Solved == {N \in Nat : \E g : Solves(g, N)}
<1>2. 0 \in Solved
  <2>1. Solves([n \in 0..0 |-> NewRun(nodes[1])], 0)
    OBVIOUS
  <2> QED  BY <2>1
<1>3. ASSUME NEW N \in 0..(Len(nodes) - 1), N \in Solved
      PROVE  N + 1 \in Solved
  <2>1. PICK g : Solves(g, N)
    BY <1>3
  <2> DEFINE h == [n \in 0..(N + 1) |-> IF n <= N THEN g[n] ELSE WithNode(g[n - 1], nodes[n])]
  <2>2. N \in Nat /\ \A n \in 0..(N + 1) : n # 0 => n - 1 \in 0..N
    OBVIOUS
  <2>3. \A n \in 0..N : g[n] = IF n = 0 THEN NewRun(nodes[1]) ELSE WithNode(g[n - 1], nodes[n])
    BY <2>1
  <2>4. \A n \in 0..(N + 1) : h[n] = IF n = 0 THEN NewRun(nodes[1]) ELSE WithNode(h[n - 1], nodes[n])
    BY <2>2, <2>3
  <2>5. Solves(h, N + 1)
    <3>1. h = [n \in 0..(N + 1) |-> h[n]]
      OBVIOUS
    <3> HIDE DEF h
    <3> QED  BY <2>4, <3>1
  <2> HIDE DEF Solves
  <2> QED  BY <2>2, <2>5
<1> HIDE DEF Solved
<1>4. Len(nodes) \in Solved
  <2>1. \A N \in 0..(Len(nodes) - 1) : N \in Solved => N + 1 \in Solved
    BY <1>3
  <2>2. \A N \in 0..Len(nodes) : N \in Solved
    BY <1>2, <2>1, Induction
  <2> QED  BY <2>2
<1>5. \E g : Solves(g, Len(nodes))
  BY <1>4 DEF Solved
<1> QED  BY <1>5 DEF SumOf

\* What r says of the first n nodes is true.
SumIs(r, nodes, n) ==
  /\ r \in RunRecord /\ r.run = nodes[1].run
  /\ Len(r.nodes) = n /\ \A i \in 1..n : r.nodes[i] = nodes[i]
  /\ \A i \in 1..n : r.start <= nodes[i].start /\ nodes[i].finish <= r.finish
                     /\ statusRank[nodes[i].status] <= statusRank[r.status]
  /\ n = 0 => r.status = "succeeded" /\ r.start = nodes[1].start /\ r.finish = nodes[1].finish
  /\ n # 0 => /\ \E i \in 1..n : nodes[i].start = r.start
              /\ \E i \in 1..n : nodes[i].finish = r.finish
              /\ \E i \in 1..n : nodes[i].status = r.status

\* One node more.
LEMMA SumGrows ==
  ASSUME NEW nodes \in Seq(TraceRecord), NEW n \in 0..(Len(nodes) - 1), NEW r, SumIs(r, nodes, n)
  PROVE  SumIs(WithNode(r, nodes[n + 1]), nodes, n + 1)
<1> DEFINE t == nodes[n + 1]
           w == WithNode(r, t)
<1>1. n \in Nat /\ n + 1 \in 1..Len(nodes) /\ n + 1 \in 1..(n + 1) /\ n + 1 # 0
      /\ (\A i \in 1..(n + 1) : i \in 1..n \/ i = n + 1)
      /\ \A i \in 1..n : i \in 1..(n + 1)
  <2>1. Len(nodes) \in Nat
    BY Elements
  <2> QED
    BY <2>1
<1>2. \A i \in 1..(n + 1) : nodes[i] \in TraceRecord
  <2>1. Len(nodes) \in Nat /\ DOMAIN nodes = 1..Len(nodes) /\ \A i \in DOMAIN nodes : nodes[i] \in TraceRecord
    BY Elements
  <2>2. \A i \in 1..(n + 1) : i \in 1..Len(nodes)
    BY <2>1
  <2> QED
    BY <2>1, <2>2
<1>3. r \in RunRecord /\ t \in TraceRecord
  BY <1>1, <1>2 DEF SumIs
<1>4. /\ w \in RunRecord /\ w.run = r.run /\ w.nodes = Append(r.nodes, t)
      /\ w.start = IF t.start < r.start THEN t.start ELSE r.start
      /\ w.finish = IF t.finish > r.finish THEN t.finish ELSE r.finish
      /\ w.status = IF statusRank[t.status] > statusRank[r.status] THEN t.status ELSE r.status
  <2> HIDE DEF t
  <2> QED
    BY <1>3, NodeIsAdded
<1> HIDE DEF t, w
<1>5. /\ r.run = nodes[1].run
      /\ Len(r.nodes) = n /\ \A i \in 1..n : r.nodes[i] = nodes[i]
      /\ \A i \in 1..n : r.start <= nodes[i].start /\ nodes[i].finish <= r.finish
                         /\ statusRank[nodes[i].status] <= statusRank[r.status]
      /\ n = 0 => r.status = "succeeded" /\ r.start = nodes[1].start /\ r.finish = nodes[1].finish
      /\ n # 0 => /\ \E i \in 1..n : nodes[i].start = r.start
                  /\ \E i \in 1..n : nodes[i].finish = r.finish
                  /\ \E i \in 1..n : nodes[i].status = r.status
  BY DEF SumIs
<1>6. Len(w.nodes) = n + 1 /\ \A i \in 1..(n + 1) : w.nodes[i] = nodes[i]
  <2>1. r.nodes \in Seq(TraceRecord)
    BY <1>3 DEF RunRecord
  <2>2. /\ Len(w.nodes) = n + 1 /\ w.nodes[n + 1] = t
        /\ \A i \in 1..n : w.nodes[i] = r.nodes[i]
    BY <1>3, <1>4, <1>5, <2>1, AppendProperties
  <2> QED
    BY <1>1, <1>5, <2>2 DEF t
<1>7. /\ t.start \in Int /\ t.finish \in Int /\ r.start \in Int /\ r.finish \in Int
      /\ statusRank[t.status] \in 1..5 /\ statusRank[r.status] \in 1..5
      /\ \A i \in 1..n : nodes[i].start \in Int /\ nodes[i].finish \in Int /\ statusRank[nodes[i].status] \in 1..5
      /\ statusRank[t.status] = 1 <=> t.status = "succeeded"
  <2>1. r.start \in Times /\ r.finish \in Times /\ r.status \in DOMAIN statusRank
    BY <1>3 DEF RunRecord
  <2>2. t.status \in DOMAIN statusRank /\ t.start \in Int /\ t.finish \in Int
    BY <1>3, RecordFacts
  <2>3. \A i \in 1..n : nodes[i].start \in Int /\ nodes[i].finish \in Int /\ nodes[i].status \in DOMAIN statusRank
    BY <1>1, <1>2, RecordFacts
  <2>4. Times \subseteq Int /\ \A a \in DOMAIN statusRank : statusRank[a] \in 1..5
    BY RecordFacts
  <2> QED
    BY <2>1, <2>2, <2>3, <2>4, RecordFacts
<1>8. ASSUME NEW i \in 1..(n + 1)
      PROVE  /\ w.start <= nodes[i].start /\ nodes[i].finish <= w.finish
             /\ statusRank[nodes[i].status] <= statusRank[w.status]
  <2>1. w.start \in Int /\ w.start <= r.start /\ w.start <= t.start
    <3>1. w.start = IF t.start < r.start THEN t.start ELSE r.start
      BY <1>4
    <3> QED
      BY <1>7, <3>1
  <2>2. w.finish \in Int /\ r.finish <= w.finish /\ t.finish <= w.finish
    <3>1. w.finish = IF t.finish > r.finish THEN t.finish ELSE r.finish
      BY <1>4
    <3> QED
      BY <1>7, <3>1
  <2>3. /\ statusRank[w.status] \in 1..5 /\ statusRank[r.status] <= statusRank[w.status]
        /\ statusRank[t.status] <= statusRank[w.status]
    <3>1. CASE statusRank[t.status] > statusRank[r.status]
      <4>1. w.status = t.status
        BY <1>4, <3>1
      <4> QED
        BY <1>7, <3>1, <4>1
    <3>2. CASE ~(statusRank[t.status] > statusRank[r.status])
      <4>1. w.status = r.status
        BY <1>4, <3>2
      <4> QED
        BY <1>7, <3>2, <4>1
    <3> QED
      BY <3>1, <3>2
  <2>4. CASE i = n + 1
    BY <2>1, <2>2, <2>3, <2>4 DEF t
  <2>5. CASE i \in 1..n
    <3>1. r.start <= nodes[i].start /\ nodes[i].finish <= r.finish /\ statusRank[nodes[i].status] <= statusRank[r.status]
      BY <1>5, <2>5
    <3>2. nodes[i].start \in Int /\ nodes[i].finish \in Int /\ statusRank[nodes[i].status] \in 1..5
      BY <1>7, <2>5
    <3>3. /\ r.start \in Int /\ r.finish \in Int /\ statusRank[r.status] \in Int /\ statusRank[w.status] \in Int
          /\ statusRank[nodes[i].status] \in Int
      BY <1>7, <2>3, <3>2
    <3>4. w.start <= nodes[i].start
      BY ONLY <2>1, <3>1, <3>2, <3>3
    <3>5. nodes[i].finish <= w.finish
      BY ONLY <2>2, <3>1, <3>2, <3>3
    <3>6. statusRank[nodes[i].status] <= statusRank[w.status]
      BY ONLY <2>3, <3>1, <3>3
    <3> QED
      BY <3>4, <3>5, <3>6
  <2> QED
    BY <1>1, <2>4, <2>5
<1>9. \E i \in 1..(n + 1) : nodes[i].start = w.start
  <2>1. CASE w.start = t.start
    BY <1>1, <2>1 DEF t
  <2>2. CASE w.start = r.start /\ n # 0
    BY <1>1, <1>5, <2>2
  <2>3. CASE w.start = r.start /\ n = 0
    <3>1. r.start = t.start
      BY <1>5, <2>3 DEF t
    <3> QED
      BY <2>1, <2>3, <3>1
  <2> QED
    BY <1>4, <2>1, <2>2, <2>3
<1>10. \E i \in 1..(n + 1) : nodes[i].finish = w.finish
  <2>1. CASE w.finish = t.finish
    BY <1>1, <2>1 DEF t
  <2>2. CASE w.finish = r.finish /\ n # 0
    BY <1>1, <1>5, <2>2
  <2>3. CASE w.finish = r.finish /\ n = 0
    <3>1. r.finish = t.finish
      BY <1>5, <2>3 DEF t
    <3> QED
      BY <2>1, <2>3, <3>1
  <2> QED
    BY <1>4, <2>1, <2>2, <2>3
<1>11. \E i \in 1..(n + 1) : nodes[i].status = w.status
  <2>1. CASE w.status = t.status
    BY <1>1, <2>1 DEF t
  <2>2. CASE w.status = r.status /\ n # 0
    BY <1>1, <1>5, <2>2
  <2>3. CASE ~(statusRank[t.status] > statusRank[r.status]) /\ n = 0
    <3>1. r.status = "succeeded" /\ statusRank["succeeded"] = 1
      BY <1>5, <2>3 DEF statusRank
    <3>2. t.status = "succeeded"
      BY <1>7, <2>3, <3>1
    <3> QED
      BY <1>4, <2>1, <2>3, <3>1, <3>2
  <2> QED
    BY <1>4, <2>1, <2>2, <2>3
<1>12. w.run = nodes[1].run
  BY <1>4, <1>5
<1>13. SumIs(w, nodes, n + 1)
  BY <1>1, <1>4, <1>6, <1>8, <1>9, <1>10, <1>11, <1>12 DEF SumIs
<1> QED
  BY <1>13 DEF w, t

\* A run is the sum of its nodes.
LEMMA SumIsTrue ==
  ASSUME NEW nodes \in Seq(TraceRecord), nodes # <<>>
  PROVE  SumIs(SumOf(nodes)[Len(nodes)], nodes, Len(nodes)) /\ Len(nodes) # 0
<1> DEFINE f == SumOf(nodes)
           Good == {n \in Nat : SumIs(f[n], nodes, n)}
<1>1. Len(nodes) \in Nat /\ Len(nodes) # 0 /\ DOMAIN nodes = 1..Len(nodes) /\ \A i \in 1..Len(nodes) : nodes[i] \in TraceRecord
  <2>1. Len(nodes) \in Nat /\ DOMAIN nodes = 1..Len(nodes) /\ \A i \in DOMAIN nodes : nodes[i] \in TraceRecord
    BY Elements
  <2>2. Len(nodes) # 0
    BY EmptySeq
  <2> QED
    BY <2>1, <2>2
<1>2. f = [n \in 0..Len(nodes) |-> IF n = 0 THEN NewRun(nodes[1]) ELSE WithNode(f[n - 1], nodes[n])]
  BY <1>1, SumRecursion
<1> HIDE DEF f
<1>3. f[0] = NewRun(nodes[1]) /\ \A n \in 0..(Len(nodes) - 1) : f[n + 1] = WithNode(f[n], nodes[n + 1])
  <2>1. 0 \in 0..Len(nodes)
    BY <1>1
  <2>2. f[0] = NewRun(nodes[1])
    BY <1>2, <2>1
  <2>3. ASSUME NEW n \in 0..(Len(nodes) - 1)
        PROVE  f[n + 1] = WithNode(f[n], nodes[n + 1])
    <3>1. n + 1 \in 0..Len(nodes) /\ n + 1 # 0 /\ (n + 1) - 1 = n
      BY <1>1
    <3> QED
      BY <1>2, <3>1
  <2> QED
    BY <2>2, <2>3
<1>4. 0 \in Good
  <2> DEFINE t == nodes[1]
  <2>1. t \in TraceRecord
    BY <1>1
  <2>2. t.run \in Runs /\ t.start \in Times /\ t.finish \in Times
    BY <2>1, RecordFacts
  <2>3. "succeeded" \in DOMAIN statusRank /\ <<>> \in Seq(TraceRecord) /\ Len(<<>>) = 0
    BY DEF statusRank
  <2> HIDE DEF t
  <2>4. f[0] = [run |-> t.run, status |-> "succeeded", start |-> t.start, finish |-> t.finish, nodes |-> <<>>]
    BY <1>3 DEF NewRun, t
  <2>5. f[0] \in RunRecord /\ f[0].run = t.run /\ f[0].status = "succeeded" /\ f[0].start = t.start
        /\ f[0].finish = t.finish /\ Len(f[0].nodes) = 0
    BY <2>2, <2>3, <2>4 DEF RunRecord
  <2>6. \A i \in 1..0 : FALSE
    OBVIOUS
  <2>7. SumIs(f[0], nodes, 0)
    BY <2>5, <2>6 DEF SumIs, t
  <2> QED
    BY <2>7
<1>5. ASSUME NEW n \in 0..(Len(nodes) - 1), n \in Good
      PROVE  n + 1 \in Good
  <2>1. SumIs(WithNode(f[n], nodes[n + 1]), nodes, n + 1)
    BY <1>5, SumGrows
  <2> QED
    BY <1>3, <2>1
<1>6. \A n \in 0..Len(nodes) : n \in Good
  <2> HIDE DEF Good
  <2> QED
    BY <1>1, <1>4, <1>5, Induction
<1>7. Len(nodes) \in 0..Len(nodes)
  BY <1>1
<1> QED
  BY <1>1, <1>6, <1>7 DEF f

\* A list by its times, of one time the last first, has everything as often.
LEMMA ListedByTime ==
  ASSUME NEW E, NEW s \in Seq(E), NEW key,
         \A i \in DOMAIN s : key[i] = <<key[i][1], key[i][2]>> /\ key[i][1] \in Int /\ key[i][2] = -i
  PROVE  Sorted(s, key) \in Seq(E) /\ \E order : IsReordering(Sorted(s, key), s, order)
<1>1. DOMAIN s = 1..Len(s) /\ Len(s) \in Nat
  BY Elements
<1>2. \A i \in DOMAIN s : i \in Int /\ -i \in Int
  BY <1>1
<1>3. \A i, j \in DOMAIN s : key[i][2] = key[j][2] => i = j
  BY <1>2
<1>4. AreKeys(key, 2, DOMAIN s)
  BY <1>2, <1>3, KeysOfTwo
<1> QED
  BY <1>4, SortedReorders

\* The list of the records has all of them, ...
LEMMA TracesAreListed ==
  ASSUME ReadModelTypeOK
  PROVE  listTraces \in Seq(TraceRecord) /\ \E order : IsReordering(listTraces, traces, order)
<1> DEFINE key == [i \in DOMAIN traces |-> <<-traces[i].start, -i>>]
<1>1. traces \in Seq(TraceRecord)
  BY DEF ReadModelTypeOK
<1>2. DOMAIN traces = 1..Len(traces) /\ Len(traces) \in Nat /\ \A i \in DOMAIN traces : traces[i] \in TraceRecord
  BY <1>1, Elements
<1>3. \A i \in DOMAIN traces : traces[i].start \in Int
  BY <1>2, RecordFacts
<1>4. \A i \in DOMAIN traces : key[i] = <<-traces[i].start, -i>>
  OBVIOUS
<1>5. listTraces = Sorted(traces, key)
  BY DEF listTraces
<1> HIDE DEF key
<1>6. \A i \in DOMAIN traces : key[i] = <<key[i][1], key[i][2]>> /\ key[i][1] \in Int /\ key[i][2] = -i
  BY <1>3, <1>4
<1> QED
  BY <1>1, <1>5, <1>6, ListedByTime

\* ... as the list of the tasks has.
LEMMA TasksAreListed ==
  ASSUME ReadModelTypeOK
  PROVE  listTasks \in Seq(IngestionTask) /\ \E order : IsReordering(listTasks, tasks, order)
<1> DEFINE key == [i \in DOMAIN tasks |-> <<-tasks[i].created, -i>>]
<1>1. tasks \in Seq(IngestionTask)
  BY DEF ReadModelTypeOK
<1>2. DOMAIN tasks = 1..Len(tasks) /\ Len(tasks) \in Nat /\ \A i \in DOMAIN tasks : tasks[i] \in IngestionTask
  BY <1>1, Elements
<1>3. \A i \in DOMAIN tasks : tasks[i].created \in Int
  BY <1>2, RecordFacts
<1>4. \A i \in DOMAIN tasks : key[i] = <<-tasks[i].created, -i>>
  OBVIOUS
<1>5. listTasks = Sorted(tasks, key)
  BY DEF listTasks
<1> HIDE DEF key
<1>6. \A i \in DOMAIN tasks : key[i] = <<key[i][1], key[i][2]>> /\ key[i][1] \in Int /\ key[i][2] = -i
  BY <1>3, <1>4
<1> QED
  BY <1>1, <1>5, <1>6, ListedByTime

\* What is said of one run.
RunIsTrue(r) ==
  /\ Len(r.nodes) = Len(SelectIn(traces, {t \in Elems(traces) : t.run = r.run}))
  /\ Elems(r.nodes) = Elems(SelectIn(traces, {t \in Elems(traces) : t.run = r.run}))
  /\ \A t \in Elems(r.nodes) :
       r.start <= t.start /\ t.finish <= r.finish /\ statusRank[t.status] <= statusRank[r.status]
  /\ \E t \in Elems(r.nodes) : t.status = r.status
  /\ \E t \in Elems(r.nodes) : t.finish = r.finish
  /\ r.nodes[1].start = r.start
  /\ \A i, j \in DOMAIN r.nodes : i < j => r.nodes[i].start <= r.nodes[j].start

\* The nodes of a run are sorted when it has been summed up.
SortedRun(sum) == [sum EXCEPT !.nodes = Sorted(sum.nodes, [i \in DOMAIN sum.nodes |-> <<sum.nodes[i].start, i>>])]

\* What is said of it then.
LEMMA NodesAreSorted ==
  ASSUME NEW nodes \in Seq(TraceRecord), NEW sum, SumIs(sum, nodes, Len(nodes)), Len(nodes) # 0,
         NEW r, r = SortedRun(sum)
  PROVE  /\ r.run = nodes[1].run /\ r.start \in Int
         /\ Len(r.nodes) = Len(nodes) /\ Elems(r.nodes) = Elems(nodes)
         /\ \A t \in Elems(r.nodes) :
              r.start <= t.start /\ t.finish <= r.finish /\ statusRank[t.status] <= statusRank[r.status]
         /\ \E t \in Elems(r.nodes) : t.status = r.status
         /\ \E t \in Elems(r.nodes) : t.finish = r.finish
         /\ r.nodes[1].start = r.start
         /\ \A i, j \in DOMAIN r.nodes : i < j => r.nodes[i].start <= r.nodes[j].start
<1> DEFINE key == [i \in DOMAIN nodes |-> <<nodes[i].start, i>>]
           order == Ordered(DOMAIN nodes, key)
           s == Sorted(nodes, key)
           L == Len(nodes)
<1>1. DOMAIN nodes = 1..L /\ L \in Nat /\ L # 0 /\ \A i \in DOMAIN nodes : nodes[i] \in TraceRecord
  BY Elements
<1> HIDE DEF L
<1>2. /\ sum \in RunRecord /\ sum.run = nodes[1].run
      /\ Len(sum.nodes) = L /\ \A i \in 1..L : sum.nodes[i] = nodes[i]
      /\ \A i \in 1..L : sum.start <= nodes[i].start /\ nodes[i].finish <= sum.finish
                         /\ statusRank[nodes[i].status] <= statusRank[sum.status]
      /\ \E i \in 1..L : nodes[i].start = sum.start
      /\ \E i \in 1..L : nodes[i].finish = sum.finish
      /\ \E i \in 1..L : nodes[i].status = sum.status
  BY <1>1 DEF SumIs, L
<1>3. sum.nodes = nodes
  <2>1. sum.nodes \in Seq(TraceRecord)
    BY <1>2 DEF RunRecord
  <2>2. Len(sum.nodes) = Len(nodes) /\ \A i \in 1..Len(sum.nodes) : sum.nodes[i] = nodes[i]
    BY <1>2 DEF L
  <2> HIDE DEF key, order, s
  <2> QED
    BY ONLY <2>1, <2>2, nodes \in Seq(TraceRecord), SeqEqual
<1>4. \A i \in DOMAIN nodes : key[i] = <<nodes[i].start, i>> /\ nodes[i].start \in Int
  BY <1>1, RecordFacts
<1>5. r = [sum EXCEPT !.nodes = s]
  BY <1>3 DEF SortedRun
<1> HIDE DEF key
<1>6. AreKeys(key, 2, DOMAIN nodes)
  <2>1. \A i \in DOMAIN nodes : key[i] = <<key[i][1], key[i][2]>> /\ key[i][1] \in Int /\ key[i][2] \in Int
    BY <1>1, <1>4
  <2>2. \A i, j \in DOMAIN nodes : key[i][2] = key[j][2] => i = j
    BY <1>4
  <2> QED
    BY <2>1, <2>2, KeysOfTwo
<1>7. /\ s \in Seq(TraceRecord) /\ IsReordering(s, nodes, order)
      /\ \A m, n \in DOMAIN nodes : m < n => key[order[m]][1] <= key[order[n]][1]
  <2>1. 2 \in Nat \ {0}
    OBVIOUS
  <2>2. /\ s \in Seq(TraceRecord) /\ IsReordering(s, nodes, order)
        /\ \A m, n \in DOMAIN nodes :
             m < n => key[order[m]][1] <= key[order[n]][1] /\ ComesFirst(key[order[m]], key[order[n]])
    BY ONLY <1>6, <2>1, nodes \in Seq(TraceRecord), SortedReorders
  <2> HIDE DEF order, s
  <2> QED
    BY <2>2
<1> HIDE DEF order, s
<1>8. /\ DOMAIN s = 1..L /\ Len(s) = L /\ Elems(s) = Elems(nodes)
      /\ \A n \in 1..L : s[n] = nodes[order[n]] /\ order[n] \in 1..L
      /\ \A i \in 1..L : \E n \in 1..L : order[n] = i
  BY <1>1, <1>7 DEF IsReordering, L
<1>9. \A m, n \in 1..L : m < n => s[m].start <= s[n].start
  <2>0. \A i \in 1..L : key[i][1] = nodes[i].start
    BY <1>1, <1>4
  <2>1. \A n \in 1..L : key[order[n]][1] = s[n].start
    BY <1>8, <2>0
  <2> QED
    BY <1>1, <1>7, <2>1
<1>10. /\ r.run = sum.run /\ r.status = sum.status /\ r.start = sum.start /\ r.finish = sum.finish /\ r.nodes = s
       /\ r.start \in Int
  <2>1. sum.start \in Int
    BY <1>2, RecordFacts DEF RunRecord
  <2> QED
    BY <1>2, <1>5, <2>1 DEF RunRecord
<1>11. \A t \in Elems(s) : \E i \in 1..L : t = nodes[i]
  BY <1>1, <1>8 DEF Elems
<1>12. \A i \in 1..L : nodes[i] \in Elems(s)
  BY <1>1, <1>8 DEF Elems
<1>13. s[1].start = sum.start
  <2>1. PICK i \in 1..L : nodes[i].start = sum.start
    BY <1>2
  <2>2. PICK n \in 1..L : order[n] = i
    BY <1>8
  <2>3. s[n].start = sum.start /\ 1 \in 1..L /\ (n = 1 \/ 1 < n)
    <3>1. s[n] = nodes[order[n]]
      BY <1>8
    <3>2. s[n].start = sum.start
      BY <2>1, <2>2, <3>1
    <3>3. 1 \in 1..L /\ (n = 1 \/ 1 < n)
      BY <1>1
    <3> QED
      BY <3>2, <3>3
  <2>4. s[1].start <= sum.start
    BY <1>9, <1>10, <2>3
  <2>5. sum.start <= s[1].start /\ s[1].start \in Int
    <3>1. s[1] = nodes[order[1]] /\ order[1] \in 1..L
      BY <1>8, <2>3
    <3>2. sum.start <= nodes[order[1]].start
      BY <1>2, <3>1
    <3>3. nodes[order[1]].start \in Int
      BY <1>1, <1>4, <3>1
    <3> QED
      BY <3>1, <3>2, <3>3
  <2> QED
    BY <1>10, <2>4, <2>5
<1>14. \A t \in Elems(s) : sum.start <= t.start /\ t.finish <= sum.finish /\ statusRank[t.status] <= statusRank[sum.status]
  BY <1>2, <1>11
<1>15. (\E t \in Elems(s) : t.status = sum.status) /\ (\E t \in Elems(s) : t.finish = sum.finish)
  BY <1>2, <1>12
<1> QED
  BY <1>2, <1>8, <1>9, <1>10, <1>13, <1>14, <1>15 DEF L

\* A run that records name is summed up from them.
LEMMA RunIsSummed ==
  ASSUME ReadModelTypeOK, NEW id, \E t \in Elems(traces) : t.run = id
  PROVE  RunOf(id).run = id /\ RunOf(id).start \in Int /\ RunIsTrue(RunOf(id))
<1> DEFINE T == {t \in Elems(traces) : t.run = id}
           nodes == SelectIn(listTraces, T)
           sum == SumOf(nodes)[Len(nodes)]
           r == RunOf(id)
           records == SelectIn(traces, T)
<1>1. listTraces \in Seq(TraceRecord) /\ traces \in Seq(TraceRecord)
  BY TracesAreListed DEF ReadModelTypeOK
<1>2. PICK order : IsReordering(listTraces, traces, order)
  BY TracesAreListed
<1>3. nodes \in Seq(TraceRecord) /\ Range(nodes) = Range(listTraces) \cap T
      /\ records \in Seq(TraceRecord) /\ Range(records) = Range(traces) \cap T
  <2> HIDE DEF T
  <2> QED
    BY <1>1, SelectInType
<1>4. Len(nodes) = Len(records)
  <2> HIDE DEF T
  <2> QED
    BY <1>1, <1>2, SelectReordered
<1>5. Elems(listTraces) = Elems(traces)
  BY <1>2 DEF IsReordering
<1>6. Elems(nodes) = T /\ Elems(records) = T
  <2>1. T \subseteq Elems(traces)
    OBVIOUS
  <2>2. Elems(nodes) = Range(nodes) /\ Elems(records) = Range(records) /\ Range(traces) = Elems(traces)
        /\ Range(listTraces) = Elems(listTraces)
    BY DEF Elems, Range
  <2> HIDE DEF T, nodes, records
  <2> QED
    BY <1>3, <1>5, <2>1, <2>2
<1>7. T # {} /\ \A t \in T : t.run = id
  OBVIOUS
<1>8. r = SortedRun(sum)
  BY DEF RunOf, SortedRun
<1> HIDE DEF T, nodes, records, r, sum
<1>9. nodes # <<>>
  <2>1. Elems(<<>>) = {}
    BY DEF Elems
  <2> QED
    BY <1>6, <1>7, <2>1
<1>10. SumIs(sum, nodes, Len(nodes)) /\ Len(nodes) # 0
  BY <1>3, <1>9, SumIsTrue DEF sum
<1>11. nodes[1].run = id
  <2>1. DOMAIN nodes = 1..Len(nodes) /\ Len(nodes) \in Nat
    BY <1>3, Elements
  <2>2. nodes[1] \in Elems(nodes)
    BY <1>10, <2>1 DEF Elems
  <2> QED
    BY <1>6, <1>7, <2>2
<1>12. /\ r.run = nodes[1].run /\ r.start \in Int
       /\ Len(r.nodes) = Len(nodes) /\ Elems(r.nodes) = Elems(nodes)
       /\ \A t \in Elems(r.nodes) :
            r.start <= t.start /\ t.finish <= r.finish /\ statusRank[t.status] <= statusRank[r.status]
       /\ \E t \in Elems(r.nodes) : t.status = r.status
       /\ \E t \in Elems(r.nodes) : t.finish = r.finish
       /\ r.nodes[1].start = r.start
       /\ \A i, j \in DOMAIN r.nodes : i < j => r.nodes[i].start <= r.nodes[j].start
  BY <1>3, <1>8, <1>10, NodesAreSorted
<1>13. SelectIn(traces, {t \in Elems(traces) : t.run = r.run}) = records
  BY <1>11, <1>12 DEF records, T
<1>14. RunIsTrue(r)
  BY <1>4, <1>6, <1>12, <1>13 DEF RunIsTrue
<1> QED
  BY <1>11, <1>12, <1>14 DEF r

\* The items of a list that is made of what is named first, the latest first.
AreInOrder(order, L, names, shown) ==
  /\ \A k \in DOMAIN order : k \in Int /\ order[k] \in FirstNamed(names) /\ order[k] \in 1..L
  /\ \A j, k \in DOMAIN order : names[order[j]] = names[order[k]] => j = k
  /\ \A n \in 1..L : \E k \in DOMAIN order : names[order[k]] = names[n]
  /\ \A j, k \in DOMAIN order : j < k => shown[order[j]] >= shown[order[k]]

\* Sorting them makes them so.
LEMMA ItemsInOrder ==
  ASSUME NEW L \in Nat, NEW names, DOMAIN names = 1..L,
         NEW shown, \A n \in FirstNamed(names) : shown[n] \in Int,
         NEW key, \A n \in FirstNamed(names) : key[n] = <<-shown[n], n>>,
         NEW order, order = Ordered(FirstNamed(names), key)
  PROVE  AreInOrder(order, L, names, shown)
<1> DEFINE F == FirstNamed(names)
<1>1. /\ IsFiniteSet(F) /\ F \subseteq 1..L
      /\ \A n \in 1..L : \E m \in F : names[m] = names[n]
      /\ \A m, n \in F : names[m] = names[n] => m = n
  BY NamedFirst
<1>2. \A n \in F : key[n] = <<-shown[n], n>> /\ shown[n] \in Int
  OBVIOUS
<1>2a. order = Ordered(F, key)
  OBVIOUS
<1> HIDE DEF F
<1>3. ASSUME NEW n \in F
      PROVE  n \in Int /\ -shown[n] \in Int
  <2>1. n \in 1..L /\ shown[n] \in Int
    BY <1>1, <1>2
  <2> QED
    BY ONLY <2>1
<1>4. \A n \in F : key[n][1] = -shown[n] /\ key[n][2] = n
  BY <1>2
<1>5. \A n \in F : key[n] = <<key[n][1], key[n][2]>> /\ key[n][1] \in Int /\ key[n][2] \in Int
  BY <1>2, <1>3, <1>4
<1>6. AreKeys(key, 2, F)
  <2>1. \A i, j \in F : key[i][2] = key[j][2] => i = j
    BY <1>4
  <2> QED
    BY <1>5, <2>1, KeysOfTwo
<1>7. /\ order \in [1..Cardinality(F) -> F] /\ DOMAIN order = 1..Cardinality(F)
      /\ \A m, n \in DOMAIN order : order[m] = order[n] => m = n
      /\ \A i \in F : \E n \in DOMAIN order : order[n] = i
      /\ \A m, n \in DOMAIN order : m < n => key[order[m]][1] <= key[order[n]][1]
  <2>1. 2 \in Nat \ {0}
    OBVIOUS
  <2>2. IsFiniteSet(F)
    BY <1>1
  <2>4. IsOrderOf(order, F, key)
    BY ONLY <1>2a, <1>6, <2>1, <2>2, OrderByKeys
  <2>3. /\ order \in [1..Cardinality(F) -> F] /\ DOMAIN order = 1..Cardinality(F)
        /\ \A m, n \in DOMAIN order : order[m] = order[n] => m = n
        /\ \A i \in F : \E n \in DOMAIN order : order[n] = i
        /\ \A m, n \in DOMAIN order :
             m < n => key[order[m]][1] <= key[order[n]][1] /\ ComesFirst(key[order[m]], key[order[n]])
    BY ONLY <2>4 DEF IsOrderOf
  <2> QED
    BY <2>3
<1>8. Cardinality(F) \in Nat
  BY <1>1, FS_CardinalityType
<1>9. ASSUME NEW k \in DOMAIN order
      PROVE  k \in Int /\ order[k] \in F /\ order[k] \in 1..L
  <2>1. k \in 1..Cardinality(F) /\ order[k] \in F
    BY <1>7
  <2> QED
    <3>1. F \subseteq 1..L
      BY <1>1
    <3>2. k \in Int
      BY <1>8, <2>1
    <3> QED
      BY <2>1, <3>1, <3>2
<1>10. ASSUME NEW j \in DOMAIN order, NEW k \in DOMAIN order, names[order[j]] = names[order[k]]
       PROVE  j = k
  <2>1. order[j] = order[k]
    BY <1>1, <1>9, <1>10
  <2> QED
    BY <1>7, <2>1
<1>11. ASSUME NEW n \in 1..L
       PROVE  \E k \in DOMAIN order : names[order[k]] = names[n]
  <2>1. PICK m \in F : names[m] = names[n]
    BY <1>1
  <2>2. PICK k \in DOMAIN order : order[k] = m
    BY <1>7
  <2> QED
    BY <2>1, <2>2
<1>12. ASSUME NEW j \in DOMAIN order, NEW k \in DOMAIN order, j < k
       PROVE  shown[order[j]] >= shown[order[k]]
  <2>1. order[j] \in F /\ order[k] \in F
    BY <1>9
  <2>2. -shown[order[j]] <= -shown[order[k]]
    BY <1>4, <1>7, <1>12, <2>1
  <2>3. shown[order[j]] \in Int /\ shown[order[k]] \in Int
    BY <1>2, <2>1
  <2> QED
    BY <2>2, <2>3
<1> QED
  BY <1>9, <1>10, <1>11, <1>12 DEF F, AreInOrder

\* The list of the runs is true of the records.
LEMMA RunsAreTrue == ReadModelTypeOK => RunsAreSummed
<1> SUFFICES ASSUME ReadModelTypeOK PROVE RunsAreSummed
  OBVIOUS
<1> DEFINE list == listTraces
           names == [n \in DOMAIN list |-> list[n].run]
           runIds == FirstNamed(names)
           runs == [n \in runIds |-> RunOf(list[n].run)]
           shown == [n \in runIds |-> runs[n].start]
           key == [n \in runIds |-> <<-runs[n].start, n>>]
           order == Ordered(runIds, key)
           paged == buildTraceReadModel
           L == Len(list)
<1>1. paged = [k \in DOMAIN order |-> runs[order[k]]]
  BY DEF buildTraceReadModel
<1>2. list \in Seq(TraceRecord)
  BY TracesAreListed
<1>3. DOMAIN list = 1..L /\ L \in Nat
  BY <1>2, Elements
<1>4. Elems(list) = Elems(traces)
  BY TracesAreListed DEF IsReordering
<1>5. DOMAIN names = 1..L /\ \A n \in 1..L : names[n] = list[n].run
  BY <1>3
<1> HIDE DEF L, names, list, paged
<1>6. runIds \subseteq 1..L
  BY <1>3, <1>5, NamedFirst
<1>7. \A n \in 1..L : \E t \in Elems(traces) : t.run = names[n]
  <2>1. \A n \in 1..L : list[n] \in Elems(list)
    BY <1>3 DEF Elems
  <2> QED
    BY <1>4, <1>5, <2>1
<1>8. \A n \in runIds : runs[n].run = names[n] /\ runs[n].start \in Int /\ RunIsTrue(runs[n])
  <2> SUFFICES ASSUME NEW n \in runIds PROVE runs[n].run = names[n] /\ runs[n].start \in Int /\ RunIsTrue(runs[n])
    OBVIOUS
  <2>1. n \in 1..L
    BY <1>6
  <2>2. \E t \in Elems(traces) : t.run = names[n]
    BY <1>7, <2>1
  <2>3. runs[n] = RunOf(names[n])
    BY <1>5, <2>1
  <2> HIDE DEF runs, runIds
  <2>4. RunOf(names[n]).run = names[n] /\ RunOf(names[n]).start \in Int /\ RunIsTrue(RunOf(names[n]))
    BY <2>2, RunIsSummed
  <2> QED
    BY <2>3, <2>4
<1>9. \A n \in runIds : shown[n] = runs[n].start /\ key[n] = <<-shown[n], n>> /\ shown[n] \in Int
  BY <1>8
<1> HIDE DEF runs, shown, key
<1>10. /\ \A k \in DOMAIN order : k \in Int /\ order[k] \in runIds /\ order[k] \in 1..L
       /\ \A j, k \in DOMAIN order : names[order[j]] = names[order[k]] => j = k
       /\ \A n \in 1..L : \E k \in DOMAIN order : names[order[k]] = names[n]
       /\ \A j, k \in DOMAIN order : j < k => shown[order[j]] >= shown[order[k]]
  <2>1. L \in Nat /\ DOMAIN names = 1..L
    BY <1>3, <1>5
  <2>2. (\A n \in FirstNamed(names) : shown[n] \in Int) /\ \A n \in FirstNamed(names) : key[n] = <<-shown[n], n>>
    BY <1>9
  <2>3. order = Ordered(FirstNamed(names), key)
    OBVIOUS
  <2> HIDE DEF order, runIds
  <2>4. AreInOrder(order, L, names, shown)
    BY ONLY <2>1, <2>2, <2>3, ItemsInOrder
  <2> QED
    BY <2>4 DEF runIds, AreInOrder
<1> HIDE DEF order, runIds
<1>11. DOMAIN paged = DOMAIN order /\ \A k \in DOMAIN order : paged[k] = runs[order[k]]
  BY <1>1
<1>12. \A k \in DOMAIN paged : paged[k].run = names[order[k]] /\ paged[k].start = shown[order[k]] /\ RunIsTrue(paged[k])
  BY <1>8, <1>9, <1>10, <1>11
<1>13. {r.run : r \in Elems(paged)} = {t.run : t \in Elems(traces)}
  <2>1. \A r \in Elems(paged) : \E t \in Elems(traces) : r.run = t.run
    BY <1>7, <1>10, <1>11, <1>12 DEF Elems
  <2>2. ASSUME NEW t \in Elems(traces)
        PROVE  \E r \in Elems(paged) : r.run = t.run
    <3>1. PICK n \in 1..L : list[n] = t
      BY <1>3, <1>4 DEF Elems
    <3>2. PICK k \in DOMAIN order : names[order[k]] = names[n]
      BY <1>10
    <3>3. paged[k] \in Elems(paged) /\ paged[k].run = t.run
      BY <1>5, <1>11, <1>12, <3>1, <3>2 DEF Elems
    <3> QED
      BY <3>3
  <2> QED
    BY <2>1, <2>2
<1>14. \A i, j \in DOMAIN paged : paged[i].run = paged[j].run => i = j
  BY <1>10, <1>11, <1>12
<1>15. \A r \in Elems(paged) : RunIsTrue(r)
  BY <1>12 DEF Elems
<1>16. \A i, j \in DOMAIN paged : i < j => paged[i].start >= paged[j].start
  BY <1>10, <1>11, <1>12
<1> QED
  BY <1>13, <1>14, <1>15, <1>16 DEF RunsAreSummed, RunIsTrue, paged

\* The keys of the tasks of a document.
LEMMA TaskKeys ==
  ASSUME NEW ts \in Seq(IngestionTask),
         NEW key, key = [i \in DOMAIN ts |-> compareTaskPriority(ts[i]) \o <<i>>]
  PROVE  /\ AreKeys(key, 4, DOMAIN ts)
         /\ \A i \in DOMAIN ts : /\ key[i][1] = IF ts[i].status = "succeeded" THEN 0 ELSE 1
                                 /\ key[i][2] = -ts[i].updated /\ ts[i].updated \in Int
<1>1. DOMAIN ts = 1..Len(ts) /\ Len(ts) \in Nat /\ \A i \in DOMAIN ts : ts[i] \in IngestionTask
  BY Elements
<1>2. ASSUME NEW i \in DOMAIN ts
      PROVE  /\ DOMAIN key[i] = 1..4 /\ \A m \in 1..4 : key[i][m] \in Int
             /\ key[i][1] = IF ts[i].status = "succeeded" THEN 0 ELSE 1
             /\ key[i][2] = -ts[i].updated /\ ts[i].updated \in Int /\ key[i][4] = i
  <2> DEFINE t == ts[i]
             c == IF t.status = "succeeded" THEN 0 ELSE 1
             p == compareTaskPriority(t)
             o == <<i>>
  <2>1. t \in IngestionTask /\ i \in Int
    BY <1>1
  <2>2. t.updated \in Int /\ t.created \in Int /\ c \in Int
    BY <2>1, RecordFacts
  <2>3. -t.updated \in Int /\ -t.created \in Int
    BY <2>2
  <2>4. p = <<c, -t.updated, -t.created>>
    BY DEF compareTaskPriority
  <2>5. key[i] = p \o o
    OBVIOUS
  <2> HIDE DEF t, c, p
  <2>6. p \in Seq(Int) /\ Len(p) = 3 /\ p[1] = c /\ p[2] = -t.updated
    BY <2>2, <2>3, <2>4
  <2>7. o \in Seq(Int) /\ Len(o) = 1 /\ o[1] = i
    BY <2>1
  <2> HIDE DEF o
  <2>8. p \o o \in Seq(Int) /\ Len(p \o o) = Len(p) + Len(o)
        /\ \A m \in 1..(Len(p) + Len(o)) : (p \o o)[m] = IF m <= Len(p) THEN p[m] ELSE o[m - Len(p)]
    BY <2>6, <2>7, ConcatProperties
  <2>9. Len(p) + Len(o) = 4
    BY <2>6, <2>7
  <2>10. key[i] \in Seq(Int) /\ Len(key[i]) = 4
         /\ \A m \in 1..4 : key[i][m] = IF m <= 3 THEN p[m] ELSE o[m - 3]
    BY <2>5, <2>6, <2>8, <2>9
  <2>11. DOMAIN key[i] = 1..4 /\ \A m \in 1..4 : key[i][m] \in Int
    BY <2>10, Elements
  <2>12. 1 \in 1..4 /\ 2 \in 1..4 /\ 4 \in 1..4 /\ 4 - 3 = 1
    OBVIOUS
  <2>13. key[i][1] = p[1] /\ key[i][2] = p[2] /\ key[i][4] = o[1]
    BY <2>10, <2>12
  <2> QED
    BY <2>2, <2>6, <2>7, <2>11, <2>13 DEF t, c
<1>2a. \A i \in DOMAIN ts : key[i][4] = i
  BY <1>2
<1>3. \A i, j \in DOMAIN ts : i # j => key[i][4] # key[j][4]
  BY ONLY <1>2a
<1>4. 4 \in 1..4
  OBVIOUS
<1>5. AreKeys(key, 4, DOMAIN ts)
  BY <1>2, <1>3, <1>4 DEF AreKeys
<1> QED
  BY <1>2, <1>5

\* What has succeeded is ahead, then what was updated last.
StandsFor(p, ts) ==
  /\ p \in Elems(ts)
  /\ \A t \in Elems(ts) :
       \/ p.status = "succeeded" /\ t.status # "succeeded"
       \/ (p.status = "succeeded" <=> t.status = "succeeded") /\ t.updated <= p.updated

\* Such a task is picked.
LEMMA PickedStands ==
  ASSUME NEW ts \in Seq(IngestionTask), ts # <<>>
  PROVE  StandsFor(pickDocumentTask(ts), ts)
<1> DEFINE key == [i \in DOMAIN ts |-> compareTaskPriority(ts[i]) \o <<i>>]
           order == Ordered(DOMAIN ts, key)
           s == Sorted(ts, key)
           p == pickDocumentTask(ts)
<1>1. DOMAIN ts = 1..Len(ts) /\ Len(ts) \in Nat /\ Len(ts) # 0
  <2>1. Len(ts) # 0
    BY EmptySeq
  <2> QED
    BY <2>1, Elements
<1>2. p = s[1]
  BY DEF pickDocumentTask
<1>3. /\ AreKeys(key, 4, DOMAIN ts)
      /\ \A i \in DOMAIN ts : /\ key[i][1] = IF ts[i].status = "succeeded" THEN 0 ELSE 1
                              /\ key[i][2] = -ts[i].updated /\ ts[i].updated \in Int
  BY TaskKeys
<1> HIDE DEF key, p
<1>4. /\ IsReordering(s, ts, order)
      /\ \A m, n \in DOMAIN ts :
           m < n => key[order[m]][1] <= key[order[n]][1] /\ ComesFirst(key[order[m]], key[order[n]])
  <2>1. 4 \in Nat \ {0}
    OBVIOUS
  <2>2. AreKeys(key, 4, DOMAIN ts)
    BY <1>3
  <2> QED
    BY ONLY <2>1, <2>2, ts \in Seq(IngestionTask), SortedReorders
<1> HIDE DEF order, s
<1>5. /\ \A n \in DOMAIN ts : s[n] = ts[order[n]] /\ order[n] \in DOMAIN ts
      /\ \A i \in DOMAIN ts : \E n \in DOMAIN ts : order[n] = i
  BY <1>4 DEF IsReordering
<1> DEFINE f == order[1]
<1>6. 1 \in DOMAIN ts /\ f \in DOMAIN ts /\ p = ts[f]
  <2>1. 1 \in DOMAIN ts
    BY <1>1
  <2> QED
    BY <1>2, <1>5, <2>1
<1>7. ASSUME NEW i \in DOMAIN ts, i # f
      PROVE  ComesFirst(key[f], key[i])
  <2>1. PICK n \in DOMAIN ts : order[n] = i
    BY <1>5
  <2>2. n # 1 /\ n \in 1..Len(ts)
    BY <1>1, <1>7, <2>1
  <2>3. 1 < n
    BY <1>1, <2>2
  <2> QED
    BY <1>4, <1>6, <2>1, <2>3
<1> HIDE DEF f
<1>8. ASSUME NEW i \in DOMAIN ts, i # f
      PROVE  \/ key[f][1] < key[i][1]
             \/ key[f][1] = key[i][1] /\ key[f][2] <= key[i][2]
  <2>1. DOMAIN key[f] = 1..4 /\ key[f][2] \in Int /\ key[i][2] \in Int
    <3>1. 2 \in 1..4
      OBVIOUS
    <3> QED
      BY <1>3, <1>6, <3>1 DEF AreKeys
  <2>2. PICK o \in 1..4 : key[f][o] < key[i][o] /\ \A m \in 1..(o - 1) : key[f][m] = key[i][m]
    BY <1>7, <1>8, <2>1 DEF ComesFirst
  <2>3. o = 1 \/ (o = 2 /\ 1 \in 1..(o - 1)) \/ (1 \in 1..(o - 1) /\ 2 \in 1..(o - 1))
    OBVIOUS
  <2> QED
    BY <2>1, <2>2, <2>3
<1>9. ASSUME NEW i \in DOMAIN ts
      PROVE  \/ p.status = "succeeded" /\ ts[i].status # "succeeded"
             \/ (p.status = "succeeded" <=> ts[i].status = "succeeded") /\ ts[i].updated <= p.updated
  <2>1. CASE i = f
    BY <1>3, <1>6, <2>1
  <2>2. CASE i # f
    <3>1. /\ key[f][1] = (IF p.status = "succeeded" THEN 0 ELSE 1) /\ key[f][2] = -p.updated /\ p.updated \in Int
          /\ key[i][1] = (IF ts[i].status = "succeeded" THEN 0 ELSE 1) /\ key[i][2] = -ts[i].updated /\ ts[i].updated \in Int
      BY <1>3, <1>6
    <3>2. \/ key[f][1] < key[i][1]
          \/ key[f][1] = key[i][1] /\ key[f][2] <= key[i][2]
      BY <1>8, <2>2
    <3> QED
      BY ONLY <3>1, <3>2
  <2> QED
    BY <2>1, <2>2
<1>10. p \in Elems(ts)
  BY <1>6 DEF Elems
<1>11. StandsFor(p, ts)
  BY <1>9, <1>10 DEF StandsFor, Elems
<1> QED
  BY <1>11 DEF p

\* The tasks of a document.
LEMMA TasksOfDocument ==
  ASSUME ReadModelTypeOK, NEW doc
  PROVE  TasksOf(doc) \in Seq(IngestionTask) /\ Elems(TasksOf(doc)) = {t \in Elems(tasks) : t.doc = doc}
<1> DEFINE T == {t \in Elems(tasks) : t.doc = doc}
<1>1. listTasks \in Seq(IngestionTask) /\ Elems(listTasks) = Elems(tasks)
  BY TasksAreListed DEF IsReordering
<1>2. TasksOf(doc) = SelectIn(listTasks, T)
  BY DEF TasksOf
<1>3. T \subseteq Elems(tasks)
  OBVIOUS
<1> HIDE DEF T
<1>4. TasksOf(doc) \in Seq(IngestionTask) /\ Range(TasksOf(doc)) = Range(listTasks) \cap T
  BY <1>1, <1>2, SelectInType
<1>5. Elems(TasksOf(doc)) = Range(TasksOf(doc)) /\ Range(listTasks) = Elems(listTasks)
  BY DEF Elems, Range
<1>6. Elems(TasksOf(doc)) = T
  BY <1>1, <1>3, <1>4, <1>5
<1> QED
  BY <1>4, <1>6 DEF T

\* The list of the documents is true of the tasks.
LEMMA DocumentsAreTrue == ReadModelTypeOK => DocumentsAreLatestSuccess
<1> SUFFICES ASSUME ReadModelTypeOK PROVE DocumentsAreLatestSuccess
  OBVIOUS
<1> DEFINE list == listTasks
           names == [n \in DOMAIN list |-> list[n].doc]
           ids == FirstNamed(names)
           picked == [n \in ids |-> pickDocumentTask(TasksOf(list[n].doc))]
           shown == [n \in ids |-> picked[n].updated]
           key == [n \in ids |-> <<-picked[n].updated, n>>]
           order == Ordered(ids, key)
           paged == buildDocumentsReadModel
           L == Len(list)
           Of(doc) == {t \in Elems(tasks) : t.doc = doc}
           Best(doc) == LET succeeded == {t \in Of(doc) : t.status = "succeeded"}
                        IN IF succeeded = {} THEN Of(doc) ELSE succeeded
<1>1. paged = [k \in DOMAIN order |-> picked[order[k]]]
  BY DEF buildDocumentsReadModel
<1>2. list \in Seq(IngestionTask)
  BY TasksAreListed
<1>3. DOMAIN list = 1..L /\ L \in Nat
  BY <1>2, Elements
<1>4. Elems(list) = Elems(tasks)
  BY TasksAreListed DEF IsReordering
<1>5. DOMAIN names = 1..L /\ \A n \in 1..L : names[n] = list[n].doc
  BY <1>3
<1> HIDE DEF L, names, list, paged
<1>6. ids \subseteq 1..L
  BY <1>3, <1>5, NamedFirst
<1>7. \A n \in 1..L : \E t \in Elems(tasks) : t.doc = names[n]
  <2>1. \A n \in 1..L : list[n] \in Elems(list)
    BY <1>3 DEF Elems
  <2> QED
    BY <1>4, <1>5, <2>1
<1>7a. \A t \in Elems(tasks) : t.updated \in Int
  <2>1. tasks \in Seq(IngestionTask)
    BY DEF ReadModelTypeOK
  <2>2. \A i \in DOMAIN tasks : tasks[i] \in IngestionTask
    BY <2>1, Elements
  <2> QED
    BY <2>2, RecordFacts DEF Elems
<1>8. \A n \in ids : /\ picked[n].doc = names[n] /\ picked[n].updated \in Int
                     /\ picked[n] = buildDocumentDetail(names[n])
                     /\ picked[n] \in Best(names[n]) /\ \A u \in Best(names[n]) : u.updated <= picked[n].updated
  <2> SUFFICES ASSUME NEW n \in ids
               PROVE  /\ picked[n].doc = names[n] /\ picked[n].updated \in Int
                      /\ picked[n] = buildDocumentDetail(names[n])
                      /\ picked[n] \in Best(names[n]) /\ \A u \in Best(names[n]) : u.updated <= picked[n].updated
    OBVIOUS
  <2> DEFINE p == picked[n]
             d == names[n]
             ts == TasksOf(d)
  <2>1. n \in 1..L
    BY <1>6
  <2>2. Of(d) # {} /\ \A t \in Of(d) : t.doc = d
    BY <1>7, <2>1
  <2>3. p = pickDocumentTask(ts) /\ p = buildDocumentDetail(d)
    BY <1>5, <2>1 DEF buildDocumentDetail
  <2> HIDE DEF p, d
  <2>4. ts \in Seq(IngestionTask) /\ Elems(ts) = Of(d)
    BY TasksOfDocument
  <2> HIDE DEF ts
  <2>5. ts # <<>>
    <3>1. Elems(<<>>) = {}
      BY DEF Elems
    <3> QED
      BY <2>2, <2>4, <3>1
  <2>6. StandsFor(p, ts)
    BY <2>3, <2>4, <2>5, PickedStands
  <2>7. /\ p \in Of(d)
        /\ \A t \in Of(d) : \/ p.status = "succeeded" /\ t.status # "succeeded"
                            \/ (p.status = "succeeded" <=> t.status = "succeeded") /\ t.updated <= p.updated
    BY <2>4, <2>6 DEF StandsFor
  <2>8. p.doc = d /\ p.updated \in Int
    BY <1>7a, <2>2, <2>7
  <2>9. p \in Best(d)
    BY <2>7
  <2>10. \A u \in Best(d) : u.updated <= p.updated
    BY <2>7
  <2> QED
    BY <2>3, <2>8, <2>9, <2>10 DEF p, d
<1>9. \A n \in ids : shown[n] = picked[n].updated /\ key[n] = <<-shown[n], n>> /\ shown[n] \in Int
  BY <1>8
<1> HIDE DEF picked, shown, key, Best
<1>10. /\ \A k \in DOMAIN order : k \in Int /\ order[k] \in ids /\ order[k] \in 1..L
       /\ \A j, k \in DOMAIN order : names[order[j]] = names[order[k]] => j = k
       /\ \A n \in 1..L : \E k \in DOMAIN order : names[order[k]] = names[n]
       /\ \A j, k \in DOMAIN order : j < k => shown[order[j]] >= shown[order[k]]
  <2>1. L \in Nat /\ DOMAIN names = 1..L
    BY <1>3, <1>5
  <2>2. (\A n \in FirstNamed(names) : shown[n] \in Int) /\ \A n \in FirstNamed(names) : key[n] = <<-shown[n], n>>
    BY <1>9
  <2>3. order = Ordered(FirstNamed(names), key)
    OBVIOUS
  <2> HIDE DEF order, ids
  <2>4. AreInOrder(order, L, names, shown)
    BY ONLY <2>1, <2>2, <2>3, ItemsInOrder
  <2> QED
    BY <2>4 DEF ids, AreInOrder
<1> HIDE DEF order, ids
<1>11. DOMAIN paged = DOMAIN order /\ \A k \in DOMAIN order : paged[k] = picked[order[k]]
  BY <1>1
<1>12. \A k \in DOMAIN paged : /\ paged[k].doc = names[order[k]] /\ paged[k].updated = shown[order[k]]
                               /\ paged[k] = buildDocumentDetail(paged[k].doc)
                               /\ paged[k] \in Best(paged[k].doc)
                               /\ \A u \in Best(paged[k].doc) : u.updated <= paged[k].updated
  BY <1>8, <1>9, <1>10, <1>11
<1>13. {t.doc : t \in Elems(paged)} = {t.doc : t \in Elems(tasks)}
  <2>1. \A r \in Elems(paged) : \E t \in Elems(tasks) : r.doc = t.doc
    BY <1>7, <1>10, <1>11, <1>12 DEF Elems
  <2>2. ASSUME NEW t \in Elems(tasks)
        PROVE  \E r \in Elems(paged) : r.doc = t.doc
    <3>1. PICK n \in 1..L : list[n] = t
      BY <1>3, <1>4 DEF Elems
    <3>2. PICK k \in DOMAIN order : names[order[k]] = names[n]
      BY <1>10
    <3>3. paged[k] \in Elems(paged) /\ paged[k].doc = t.doc
      BY <1>5, <1>11, <1>12, <3>1, <3>2 DEF Elems
    <3> QED
      BY <3>3
  <2> QED
    BY <2>1, <2>2
<1>14. \A i, j \in DOMAIN paged : paged[i].doc = paged[j].doc => i = j
  BY <1>10, <1>11, <1>12
<1>15. \A t \in Elems(paged) : /\ t = buildDocumentDetail(t.doc)
                               /\ t \in Best(t.doc) /\ \A u \in Best(t.doc) : u.updated <= t.updated
  BY <1>12 DEF Elems
<1>16. \A i, j \in DOMAIN paged : i < j => paged[i].updated >= paged[j].updated
  BY <1>10, <1>11, <1>12
<1> QED
  BY <1>13, <1>14, <1>15, <1>16 DEF DocumentsAreLatestSuccess, paged, Best

\* The types of the read models' state are kept by every step.
LEMMA ReadModelTypesStay == ReadModelTypeOK /\ [ReadModelNext]_readModelVars => ReadModelTypeOK'
<1> SUFFICES ASSUME ReadModelTypeOK, [ReadModelNext]_readModelVars PROVE ReadModelTypeOK'
  OBVIOUS
<1>1. readKind \in ReadModelKinds /\ traces \in Seq(TraceRecord) /\ tasks \in Seq(IngestionTask) /\ Len(tasks) \in Nat
  <2>1. readKind \in ReadModelKinds /\ traces \in Seq(TraceRecord) /\ tasks \in Seq(IngestionTask)
    BY DEF ReadModelTypeOK
  <2> QED
    BY <2>1, Elements
<1>2. CASE AppendTrace
  <2>1. PICK t \in [run : Runs, status : Recorded, start : Times, finish : Times] :
          t.start <= t.finish /\ traces' = <<t>> \o traces
    BY <1>2 DEF AppendTrace
  <2>2. t \in TraceRecord
    BY ReadModelAssumption DEF TraceRecord
  <2>3. <<t>> \in Seq(TraceRecord)
    BY <2>2
  <2>4. traces' \in Seq(TraceRecord)
    BY <1>1, <2>1, <2>3, ConcatProperties
  <2> QED
    BY <1>1, <1>2, <2>4 DEF ReadModelTypeOK, AppendTrace
<1>3. CASE appendPythonTraceStages
  <2> DEFINE Stage == [status : Recorded \cup {"skipped"}, start : Times, finish : Times]
             Recognised(stageList) == SelectIn(stageList, {stageName \in Elems(stageList) : stageName.status \in DOMAIN statusRank})
             AsRecord(run, stageName) == [run |-> run, status |-> stageName.status, start |-> stageName.start, finish |-> stageName.finish]
             Of(run, recognised) == [i \in 1..Len(recognised) |-> AsRecord(run, recognised[Len(recognised) + 1 - i])]
  <2>1. PICK run \in Runs, n \in 1..(MaxRecords - Len(traces)) :
          \E stageList \in [1..n -> Stage] : traces' = Of(run, Recognised(stageList)) \o traces
    BY <1>3 DEF appendPythonTraceStages
  <2>2. PICK stageList \in [1..n -> Stage] : traces' = Of(run, Recognised(stageList)) \o traces
    BY <2>1
  <2> DEFINE recognised == Recognised(stageList)
             T == {stageName \in Elems(stageList) : stageName.status \in DOMAIN statusRank}
  <2>3. stageList \in Seq(Stage)
    <3>1. n \in Nat
      BY <1>1
    <3> HIDE DEF Stage
    <3> QED
      BY <3>1
  <2>4. recognised \in Seq(Stage) /\ Range(recognised) \subseteq T
    <3> HIDE DEF T, Stage
    <3>1. recognised = SelectIn(stageList, T)
      BY DEF T
    <3> HIDE DEF recognised
    <3> QED
      BY <2>3, <3>1, SelectInType
  <2>5. traces' = Of(run, recognised) \o traces
    BY <2>2
  <2> HIDE DEF recognised
  <2>6. DOMAIN recognised = 1..Len(recognised) /\ Len(recognised) \in Nat /\ \A i \in DOMAIN recognised : recognised[i] \in Stage
    BY <2>4, Elements
  <2>7. \A i \in DOMAIN recognised : recognised[i].status \in DOMAIN statusRank
    BY <2>4 DEF Range
  <2>8. \A i \in 1..Len(recognised) : AsRecord(run, recognised[Len(recognised) + 1 - i]) \in TraceRecord
    <3> SUFFICES ASSUME NEW i \in 1..Len(recognised) PROVE AsRecord(run, recognised[Len(recognised) + 1 - i]) \in TraceRecord
      OBVIOUS
    <3> DEFINE j == Len(recognised) + 1 - i
    <3>1. j \in DOMAIN recognised
      BY <2>6
    <3> HIDE DEF j
    <3>2. recognised[j].status \in DOMAIN statusRank /\ recognised[j].start \in Times /\ recognised[j].finish \in Times
      BY <2>6, <2>7, <3>1
    <3>3. AsRecord(run, recognised[j]) \in TraceRecord
      BY <3>2 DEF TraceRecord
    <3> QED
      BY <3>3 DEF j
  <2>9. Of(run, recognised) \in Seq(TraceRecord)
    <3> HIDE DEF AsRecord
    <3>1. Of(run, recognised) \in [1..Len(recognised) -> TraceRecord]
      BY <2>8
    <3> HIDE DEF Of
    <3> QED
      BY <2>6, <3>1
  <2>10. traces' \in Seq(TraceRecord)
    <3> HIDE DEF Of
    <3> QED
      BY <1>1, <2>5, <2>9, ConcatProperties
  <2> QED
    BY <1>1, <1>3, <2>10 DEF ReadModelTypeOK, appendPythonTraceStages
<1>4. CASE AddTask
  <2>1. PICK t \in [id : {Len(tasks) + 1}, doc : Documents, status : TaskStatusOf, created : Times, updated : Times] :
          t.created <= t.updated /\ tasks' = <<t>> \o tasks
    BY <1>4 DEF AddTask
  <2>2. Len(tasks) + 1 \in 1..MaxRecords
    BY <1>1, <1>4, ReadModelAssumption DEF AddTask
  <2>3. t \in IngestionTask
    BY <2>2 DEF IngestionTask
  <2>4. <<t>> \in Seq(IngestionTask)
    BY <2>3
  <2>5. tasks' \in Seq(IngestionTask)
    BY <1>1, <2>1, <2>4, ConcatProperties
  <2> QED
    BY <1>1, <1>4, <2>5 DEF ReadModelTypeOK, AddTask
<1>5. ASSUME NEW i \in DOMAIN tasks, UpdateTask(i)
      PROVE  ReadModelTypeOK'
  <2>1. PICK status \in TaskStatusOf, time \in Times :
          tasks' = [tasks EXCEPT ![i].status = status, ![i].updated = time]
    BY <1>5 DEF UpdateTask
  <2> DEFINE t == [tasks[i] EXCEPT !.status = status, !.updated = time]
  <2>2. DOMAIN tasks = 1..Len(tasks) /\ tasks[i] \in IngestionTask
    BY <1>1, Elements
  <2>3. t \in IngestionTask
    BY <2>2 DEF IngestionTask
  <2>4. tasks' = [tasks EXCEPT ![i] = t]
    BY <2>1, <2>2
  <2> HIDE DEF t
  <2>5. tasks' \in Seq(IngestionTask)
    BY <1>1, <2>2, <2>3, <2>4, ExceptSeq
  <2> QED
    BY <1>1, <1>5, <2>5 DEF ReadModelTypeOK, UpdateTask
<1>6. CASE UNCHANGED readModelVars
  BY <1>6 DEF ReadModelTypeOK, readModelVars
<1> QED
  BY <1>2, <1>3, <1>4, <1>5, <1>6 DEF ReadModelNext


\* What the trace pages and the document pages show is true of the state (module ReadModels):
\* whatever was recorded, in any order and at any times, every run is summed up from just its
\* own records, each document stands by its last success, and both lists are in order.
THEOREM ReadModelsAreAlwaysTrue == ReadModelSpec => []ReadModelsAreTrue
<1>1. ReadModelInit => ReadModelTypeOK
  BY DEF ReadModelInit, ReadModelTypeOK
<1>2. ReadModelTypeOK /\ [ReadModelNext]_readModelVars => ReadModelTypeOK'
  BY ReadModelTypesStay
<1>3. ReadModelTypeOK => ReadModelsAreTrue
  BY RunsAreTrue, DocumentsAreTrue DEF ReadModelsAreTrue
<1> QED
  BY <1>1, <1>2, <1>3, PTL DEF ReadModelSpec

-----------------------------------------------------------------------------
(* The components together *)

\* Something was answered just when something was asked.
LEMMA ShoppingTypesAreKept == ShoppingSpec => []ShoppingTypeOK
<1> DEFINE Paired == asked = <<>> <=> reply = <<>>
<1>1. ShoppingInit => ShoppingInv /\ Paired
  BY InitShopping DEF ShoppingInit
<1>2. ShoppingInv /\ Paired /\ [ShoppingNext]_shoppingVars => ShoppingInv' /\ Paired'
  <2> SUFFICES ASSUME ShoppingInv, Paired, [ShoppingNext]_shoppingVars PROVE ShoppingInv' /\ Paired'
    OBVIOUS
  <2>1. CASE Search
    BY <2>1, NextShopping DEF Search
  <2>2. CASE CompareProducts
    BY <2>2, NextShopping DEF CompareProducts
  <2>3. CASE Weigh \/ UNCHANGED shoppingVars
    BY <2>3, NextShopping DEF Weigh, shoppingVars
  <2> QED
    BY <2>1, <2>2, <2>3 DEF ShoppingNext
<1>3. ShoppingInv /\ Paired => ShoppingTypeOK
  <2> SUFFICES ASSUME ShoppingInv, Paired PROVE ShoppingTypeOK
    OBVIOUS
  <2>1. ASSUME verdicts # <<>> PROVE verdicts[1] \in ProductIds
    <3>1. asked # <<>> /\ asked[1] = "search" /\ CardsAreWeighed
      BY <2>1 DEF ShoppingInv
    <3> DEFINE cards == reply[1].cards
    <3>2. cards \in Seq(ProductIds)
      BY <3>1, CardsAreProducts
    <3>3. \E n \in DOMAIN cards \ {1} : verdicts = <<cards[n], buildCompareHighlights(Card(cards[1]), Card(cards[n]))>>
      BY <3>1 DEF CardsAreWeighed
    <3> HIDE DEF cards
    <3> QED
      BY <3>2, <3>3
  <2> QED
    BY <2>1 DEF ShoppingInv, ShoppingTypeOK
<1> QED
  BY <1>1, <1>2, <1>3, PTL DEF ShoppingSpec

\* The types of the others are part of their invariants.
LEMMA InvariantsAreTyped ==
  /\ AdminSpec => []AdminTypeOK
  /\ HybridSpec => []HybridTypeOK
  /\ CollectionSpec => []CollectionTypeOK
  /\ McpSpec => []McpTypeOK
  /\ RegistrySpec => []RegistryTypeOK
  /\ ReadModelSpec => []ReadModelTypeOK
  /\ AnswerSpec => []AnswerTypeOK
  /\ GroundingSpec => []GroundingTypeOK
<1>1. AdminSpec => []AdminTypeOK
  <2>1. AdminInv => AdminTypeOK
    BY DEF AdminInv
  <2> QED
    BY <2>1, InitAdminInv, NextAdminInv, PTL DEF AdminSpec
<1>2. HybridSpec => []HybridTypeOK
  <2>1. HybridInv => HybridTypeOK
    BY DEF HybridInv
  <2> QED
    BY <2>1, InitHybridInv, NextHybridInv, PTL DEF HybridSpec
<1>3. CollectionSpec => []CollectionTypeOK
  <2>1. CauseInv => CollectionTypeOK
    BY DEF CauseInv
  <2> QED
    BY <2>1, CauseIsInvariant, PTL
<1>4. McpSpec => []McpTypeOK
  <2>1. McpInv => McpTypeOK
    BY DEF McpInv
  <2> QED
    BY <2>1, InitMcpInv, NextMcpInv, PTL DEF McpSpec
<1>5. RegistrySpec => []RegistryTypeOK
  <2>1. RegistryInv => RegistryTypeOK
    BY DEF RegistryInv
  <2> QED
    BY <2>1, InitRegistryInv, NextRegistryInv, PTL DEF RegistrySpec
<1>6. ReadModelSpec => []ReadModelTypeOK
  <2>1. ReadModelInit => ReadModelTypeOK
    BY DEF ReadModelInit, ReadModelTypeOK
  <2> QED
    BY <2>1, ReadModelTypesStay, PTL DEF ReadModelSpec
<1>7. AnswerSpec => []AnswerTypeOK
  BY InitAnswerInv, NextAnswerInv, AnswerTyped, PTL DEF AnswerSpec
<1>8. GroundingSpec => []GroundingTypeOK
  BY InitGrounding, NextGrounding, GroundingTypes, PTL DEF GroundingSpec
<1> QED
  BY <1>1, <1>2, <1>3, <1>4, <1>5, <1>6, <1>7, <1>8

\* The component a behaviour is about.
About(p) == part = p

\* It is about the same one all along, and what is not of it stays.
LEMMA PartStays ==
  ASSUME [Next]_<<part, vars>>
  PROVE  \A p : About(p)' <=> About(p)
BY DEF Next, About

\* A step of the composition is one of the component it is about, and none of the others.
LEMMA StepsAreOfParts ==
  ASSUME [Next]_<<part, vars>>
  PROVE  /\ [FilesNext]_filesVars /\ [AdminNext]_adminVars /\ [LoginNext]_loginVars /\ [GuardNext]_guardVars
         /\ [HybridNext]_hybridVars /\ [CollectionNext]_collectionVars /\ [McpNext]_mcpVars
         /\ [RegistryNext]_registryVars /\ [ReadModelNext]_readModelVars /\ [AnswerNext]_answerVars
         /\ [ShoppingNext]_shoppingVars /\ [GroundingNext]_groundingVars
BY DEF Next, vars

\* What rests stays as it is.
LEMMA RestingStay ==
  ASSUME [Next]_<<part, vars>>
  PROVE  /\ ~About("hybrid") => UNCHANGED hybridVars
         /\ ~About("mcp") => UNCHANGED mcpVars
         /\ ~About("registry") => UNCHANGED registryVars
         /\ ~About("answer") => UNCHANGED answerVars
         /\ ~About("grounding") => UNCHANGED groundingVars
BY DEF Next, vars, About

\* At rest, too, a component is as it should be: the search that has not begun, ...
LEMMA RestingSearch == HybridStays => SearchIsSound
BY DEF HybridStays, SearchIsSound

\* ... the tool calls none of which was made, ...
LEMMA RestingCalls == McpStays => EachCallEndsOnce
BY DEF McpStays, EachCallEndsOnce

\* ... the registries in which there is nothing, ...
LEMMA RestingRegistry == RegistryStays => BootstrappedAreWhole
<1> SUFFICES ASSUME RegistryStays PROVE BootstrappedAreWhole
  OBVIOUS
<1>1. modules = <<>> /\ bootstrapped = {} /\ contributed = {} /\ bootOutcome = "none"
  BY DEF RegistryStays
<1>2. ToSet(<<>>) = {}
  BY DEF ToSet
<1>3. ToSet(SubSeq(modules, 1, Cardinality(bootstrapped))) = {}
  <2>1. Cardinality({}) = 0
    BY FS_EmptySet
  <2>2. SubSeq(<<>>, 1, 0) = <<>>
    OBVIOUS
  <2> QED
    BY <1>1, <1>2, <2>1, <2>2
<1>4. AllBootstrapped /\ OfferOf(bootstrapped) = {}
  BY <1>1, <1>2 DEF AllBootstrapped, OfferOf
<1> QED
  BY <1>1, <1>3, <1>4 DEF BootstrappedAreWhole

\* ... the answer of which nothing was said, ...
LEMMA RestingAnswer == AnswerStays => AnswersAreWhole
<1> SUFFICES ASSUME AnswerStays PROVE AnswersAreWhole
  OBVIOUS
<1>1. wire = <<>> /\ step = "begin"
  BY DEF AnswerStays
<1>2. Said = <<>>
  BY <1>1, NoPieces DEF Said
<1>3. InOrder
  BY <1>1 DEF InOrder
<1> QED
  BY <1>1, <1>2, <1>3 DEF AnswersAreWhole

\* ... and the turn that has looked for nothing.
LEMMA RestingGrounding == GroundingStays => GroundingIsTrue
<1> SUFFICES ASSUME GroundingStays PROVE GroundingIsTrue
  OBVIOUS
<1>1. looked = <<>> /\ evidence = <<>> /\ turn = "gathering"
  BY DEF GroundingStays
<1>2. \A n \in DOMAIN looked : FALSE
  BY <1>1
<1>3. Chained([n \in DOMAIN looked |-> looked[n].chunks]) = <<>>
  <2>1. [n \in DOMAIN looked |-> looked[n].chunks] = <<>>
    BY <1>1
  <2>2. Len(<<>>) = 0 /\ Len(<<>>) \in Nat
    OBVIOUS
  <2>3. ChainedOf(<<>>)[0] = <<>>
    BY <2>2, ChainedSteps
  <2> QED
    BY <2>1, <2>2, <2>3 DEF Chained
<1>4. QueriesAreWhole /\ LocalAnswersAreBest
  BY <1>2 DEF QueriesAreWhole, LocalAnswersAreBest
<1>5. EvidenceIsAll
  BY <1>1, <1>3 DEF EvidenceIsAll
<1>6. ReportIsOfLastSearch /\ RequestsAreWhole /\ TraceIsTree
  BY <1>1 DEF ReportIsOfLastSearch, RequestsAreWhole, TraceIsTree
<1> QED
  BY <1>4, <1>5, <1>6 DEF GroundingIsTrue

\* Seven of the components begin as their own specifications say, whatever a behaviour is about.
LEMMA FreePartsKeepTheirSpecs ==
  Spec => /\ FilesSpec /\ AdminSpec /\ LoginSpec /\ GuardSpec
          /\ CollectionSpec /\ ReadModelSpec /\ ShoppingSpec
<1>1. Init => /\ FilesInit /\ AdminInit /\ LoginInit /\ GuardInit
              /\ CollectionInit /\ ReadModelInit /\ ShoppingInit
  BY DEF Init
<1>2. [Next]_<<part, vars>> =>
        /\ [FilesNext]_filesVars /\ [AdminNext]_adminVars /\ [LoginNext]_loginVars /\ [GuardNext]_guardVars
        /\ [CollectionNext]_collectionVars /\ [ReadModelNext]_readModelVars /\ [ShoppingNext]_shoppingVars
  BY StepsAreOfParts
<1> QED
  BY <1>1, <1>2, PTL
     DEF Spec, FilesSpec, AdminSpec, LoginSpec, GuardSpec, CollectionSpec, ReadModelSpec, ShoppingSpec

\* The other five do where it is about them, and rest where it is not.
LEMMA PartsInTurn ==
  /\ Spec /\ About("hybrid") => HybridSpec /\ []About("hybrid")
  /\ Spec /\ ~About("hybrid") => []HybridStays /\ []~About("hybrid")
  /\ Spec /\ About("mcp") => McpSpec /\ []About("mcp")
  /\ Spec /\ ~About("mcp") => []McpStays /\ []~About("mcp")
  /\ Spec /\ About("registry") => RegistrySpec /\ []About("registry")
  /\ Spec /\ ~About("registry") => []RegistryStays /\ []~About("registry")
  /\ Spec /\ About("answer") => AnswerSpec /\ []About("answer")
  /\ Spec /\ ~About("answer") => []AnswerStays /\ []~About("answer")
  /\ Spec /\ About("grounding") => GroundingSpec /\ []About("grounding")
  /\ Spec /\ ~About("grounding") => []GroundingStays /\ []~About("grounding")
<1>1. [Next]_<<part, vars>> =>
        /\ About("hybrid")' <=> About("hybrid")
        /\ About("mcp")' <=> About("mcp")
        /\ About("registry")' <=> About("registry")
        /\ About("answer")' <=> About("answer")
        /\ About("grounding")' <=> About("grounding")
  BY PartStays
<1>2. [Next]_<<part, vars>> => /\ [HybridNext]_hybridVars /\ [McpNext]_mcpVars /\ [RegistryNext]_registryVars
                               /\ [AnswerNext]_answerVars /\ [GroundingNext]_groundingVars
  BY StepsAreOfParts
<1>3. Init => /\ (About("hybrid") => HybridInit) /\ (~About("hybrid") => HybridStays)
              /\ (About("mcp") => McpInit) /\ (~About("mcp") => McpStays)
              /\ (About("registry") => RegistryInit) /\ (~About("registry") => RegistryStays)
              /\ (About("answer") => AnswerInit) /\ (~About("answer") => AnswerStays)
              /\ (About("grounding") => GroundingInit) /\ (~About("grounding") => GroundingStays)
  BY DEF Init, About
<1>4. ~About("hybrid") /\ HybridStays /\ [Next]_<<part, vars>> => HybridStays'
  BY RestingStay DEF HybridStays, hybridVars, corpus
<1>5. ~About("mcp") /\ McpStays /\ [Next]_<<part, vars>> => McpStays'
  BY RestingStay DEF McpStays, mcpVars
<1>6. ~About("registry") /\ RegistryStays /\ [Next]_<<part, vars>> => RegistryStays'
  BY RestingStay DEF RegistryStays, registryVars
<1>7. ~About("answer") /\ AnswerStays /\ [Next]_<<part, vars>> => AnswerStays'
  BY RestingStay DEF AnswerStays, answerVars
<1>8. ~About("grounding") /\ GroundingStays /\ [Next]_<<part, vars>> => GroundingStays'
  BY RestingStay DEF GroundingStays, groundingVars
<1>9. /\ Spec /\ About("hybrid") => HybridSpec /\ []About("hybrid")
      /\ Spec /\ ~About("hybrid") => []HybridStays /\ []~About("hybrid")
  BY <1>1, <1>2, <1>3, <1>4, PTL DEF Spec, HybridSpec
<1>10. /\ Spec /\ About("mcp") => McpSpec /\ []About("mcp")
       /\ Spec /\ ~About("mcp") => []McpStays /\ []~About("mcp")
  BY <1>1, <1>2, <1>3, <1>5, PTL DEF Spec, McpSpec
<1>11. /\ Spec /\ About("registry") => RegistrySpec /\ []About("registry")
       /\ Spec /\ ~About("registry") => []RegistryStays /\ []~About("registry")
  BY <1>1, <1>2, <1>3, <1>6, PTL DEF Spec, RegistrySpec
<1>12. /\ Spec /\ About("answer") => AnswerSpec /\ []About("answer")
       /\ Spec /\ ~About("answer") => []AnswerStays /\ []~About("answer")
  BY <1>1, <1>2, <1>3, <1>7, PTL DEF Spec, AnswerSpec
<1>13. /\ Spec /\ About("grounding") => GroundingSpec /\ []About("grounding")
       /\ Spec /\ ~About("grounding") => []GroundingStays /\ []~About("grounding")
  BY <1>1, <1>2, <1>3, <1>8, PTL DEF Spec, GroundingSpec
<1> QED
  BY <1>9, <1>10, <1>11, <1>12, <1>13

\* The composition of the components asks no more of each than its own specification does:
\* whichever of them a behaviour is about, its variables keep their types.
THEOREM ComponentTypesAreKept == Spec => []ComponentTypesOK
<1>1. Spec => [](FilesTypeOK /\ AdminTypeOK /\ LoginTypeOK /\ GuardTypeOK /\ CollectionTypeOK /\ ReadModelTypeOK /\ ShoppingTypeOK)
  BY FreePartsKeepTheirSpecs, FilesTypeCorrect, LoginTypesAreKept, GuardTypesAreKept, ShoppingTypesAreKept,
     InvariantsAreTyped, PTL
<1>2. Spec => [](/\ About("hybrid") => HybridTypeOK
                 /\ About("mcp") => McpTypeOK
                 /\ About("registry") => RegistryTypeOK
                 /\ About("answer") => AnswerTypeOK
                 /\ About("grounding") => GroundingTypeOK)
  BY PartsInTurn, InvariantsAreTyped, PTL
<1>3. /\ FilesTypeOK /\ AdminTypeOK /\ LoginTypeOK /\ GuardTypeOK /\ CollectionTypeOK /\ ReadModelTypeOK /\ ShoppingTypeOK
      /\ About("hybrid") => HybridTypeOK
      /\ About("mcp") => McpTypeOK
      /\ About("registry") => RegistryTypeOK
      /\ About("answer") => AnswerTypeOK
      /\ About("grounding") => GroundingTypeOK
      => ComponentTypesOK
  BY DEF ComponentTypesOK, About
<1> QED
  BY <1>1, <1>2, <1>3, PTL

\* And whichever it is about, what the theorems say of each of the twelve holds.
THEOREM EveryComponentIsTrue ==
  Spec => [](/\ AcknowledgedStays /\ RestingPageIsFresh /\ TreeIsComplete /\ AccessIsTrue
             /\ SearchIsSound /\ CollectionFailureHasCause /\ EachCallEndsOnce /\ BootstrappedAreWhole
             /\ ReadModelsAreTrue /\ AnswersAreWhole /\ ShoppingIsTrue /\ GroundingIsTrue)
<1>1. Spec => [](/\ AcknowledgedStays /\ RestingPageIsFresh /\ TreeIsComplete /\ AccessIsTrue
                 /\ CollectionFailureHasCause /\ ReadModelsAreTrue /\ ShoppingIsTrue)
  BY FreePartsKeepTheirSpecs, AcknowledgedIsKept, RestingPageIsAlwaysFresh, TreeIsAlwaysComplete, AccessIsAlwaysTrue,
     FailuresHaveCauses, ReadModelsAreAlwaysTrue, ShoppingIsAlwaysTrue, PTL
<1>2. Spec => [](SearchIsSound /\ EachCallEndsOnce /\ BootstrappedAreWhole /\ AnswersAreWhole /\ GroundingIsTrue)
  BY PartsInTurn, SearchIsAlwaysSound, EachCallHasOneEnd, MarkedModulesAreWhole, AnswersAreAlwaysWhole,
     GroundingIsAlwaysTrue, RestingSearch, RestingCalls, RestingRegistry, RestingAnswer, RestingGrounding, PTL
<1> QED
  BY <1>1, <1>2, PTL
=============================================================================
