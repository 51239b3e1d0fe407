--------------------------- MODULE SequenceLemmas ---------------------------
(***************************************************************************)
(* Facts about sequences that the proofs keep needing: what a selection    *)
(* contains, and what is left of a sequence without one of its elements.   *)
(* The recursion of SelectIn is reasoned about with the least number that  *)
(* is not in a set, for which well-founded induction on sets is enough.    *)
(***************************************************************************)
EXTENDS Selections, WellFoundedInduction, SequenceTheorems, TLAPS

-----------------------------------------------------------------------------
(* Numbers *)

\* Every set of natural numbers that is not empty has a least element.
LEMMA LeastNumber ==
  ASSUME NEW T \in SUBSET Nat, T # {}
  PROVE  \E n \in T : \A m \in T : n <= m
<1> DEFINE R == {r \in Nat \X Nat : r[1] < r[2]}
<1>1. IsWellFoundedOn(R, Nat)
  BY NatLessThanWellFounded DEF OpToRel
<1>2. T \subseteq Nat
  OBVIOUS
<1> HIDE DEF R
<1>3. \E n \in T : \A m \in T : <<m, n>> \notin R
  BY ONLY <1>1, <1>2, T # {}, WFMin
<1>4. PICK n \in T : \A m \in T : <<m, n>> \notin R
  BY <1>3
<1>5. ASSUME NEW m \in T
      PROVE  n <= m
  <2>1. m \in Nat /\ n \in Nat
    OBVIOUS
  <2>2. m < n => <<m, n>> \in R
    BY <2>1 DEF R
  <2> QED  BY <1>4, <2>1, <2>2
<1> QED  BY <1>5

\* Induction over the natural numbers up to N, for a set instead of a predicate.
LEMMA Induction ==
  ASSUME NEW S, NEW N \in Nat, 0 \in S, \A n \in 0..(N - 1) : n \in S => n + 1 \in S
  PROVE  \A n \in 0..N : n \in S
<1> SUFFICES ASSUME (0..N) \ S # {} PROVE  FALSE
  OBVIOUS
<1>1. PICK n \in (0..N) \ S : \A m \in (0..N) \ S : n <= m
  BY LeastNumber, (0..N) \ S \in SUBSET Nat
<1>2. n # 0 /\ n - 1 \in 0..(N - 1) /\ n - 1 \in 0..N
  BY <1>1
<1>3. n - 1 \in S
  BY <1>1, <1>2
<1> QED  BY <1>1, <1>2, <1>3

\* The recursion has a solution, and SelectInOf is it.
LEMMA SelectInOfRecursion ==
  ASSUME NEW E, NEW s \in Seq(E), NEW T
  PROVE  SelectInOf(s, T) = [n \in 0..Len(s) |->
                   IF n = 0 THEN <<>>
                   ELSE IF s[n] \in T THEN Append(SelectInOf(s, T)[n - 1], s[n])
                   ELSE SelectInOf(s, T)[n - 1]]
<1> DEFINE Solves(g, N) == g = [n \in 0..N |->
                   IF n = 0 THEN <<>>
                   ELSE IF s[n] \in T THEN Append(g[n - 1], s[n])
                   ELSE g[n - 1]]
            Solved == {N \in Nat : \E g : Solves(g, N)}
<1>1. Len(s) \in Nat
  OBVIOUS
<1>2. 0 \in Solved
  <2>1. Solves([n \in 0..0 |-> <<>>], 0)
    OBVIOUS
  <2> QED  BY <2>1
<1>3. ASSUME NEW N \in 0..(Len(s) - 1), N \in Solved
      PROVE  N + 1 \in Solved
  <2>1. PICK g : Solves(g, N)
    BY <1>3
  <2> DEFINE h == [n \in 0..(N + 1) |-> IF n <= N THEN g[n]
                     ELSE IF s[n] \in T THEN Append(g[n - 1], s[n]) ELSE g[n - 1]]
  <2>2. N \in Nat /\ \A n \in 0..(N+1) : n # 0 => n - 1 \in 0..N
    OBVIOUS
  <2>3. \A n \in 0..N : g[n] = IF n = 0 THEN <<>>
                   ELSE IF s[n] \in T THEN Append(g[n - 1], s[n])
                   ELSE g[n - 1]
     BY <2>1
  <2>4. \A n \in 0..(N+1) : h[n] = IF n = 0 THEN <<>>
                   ELSE IF s[n] \in T THEN Append(h[n - 1], s[n])
                   ELSE h[n - 1]
     BY <2>2, <2>3
  <2>5. Solves(h, N + 1)
     <3>1. h = [n \in 0..(N+1) |-> h[n]] OBVIOUS
     <3> HIDE DEF h
     <3> QED  BY <2>4, <3>1
  <2> HIDE DEF Solves
  <2> QED  BY <2>2, <2>5
<1> HIDE DEF Solved
<1>4. Len(s) \in Solved
  <2>1. \A N \in 0..(Len(s) - 1) : N \in Solved => N + 1 \in Solved
    BY <1>3
  <2>2. \A N \in 0..Len(s) : N \in Solved
    BY <1>1, <1>2, <2>1, Induction
  <2> QED  BY <1>1, <2>2
<1>5. \E g : Solves(g, Len(s))
  BY <1>4 DEF Solved
<1> QED BY <1>5 DEF SelectInOf

\* A selection goes element by element.
LEMMA SelectInStep ==
  ASSUME NEW E, NEW s \in Seq(E), NEW T, NEW n \in 1..Len(s)
  PROVE  SelectInOf(s, T)[n] = IF s[n] \in T THEN Append(SelectInOf(s, T)[n - 1], s[n])
                               ELSE SelectInOf(s, T)[n - 1]
<1>1. n \in 0..Len(s) /\ n # 0
  OBVIOUS
<1> DEFINE f == SelectInOf(s, T)
<1>2. f = [k \in 0..Len(s) |-> IF k = 0 THEN <<>> ELSE IF s[k] \in T THEN Append(f[k - 1], s[k]) ELSE f[k - 1]]
  BY SelectInOfRecursion
<1> HIDE DEF f
<1>3. f[n] = IF s[n] \in T THEN Append(f[n - 1], s[n]) ELSE f[n - 1]
  BY <1>1, <1>2
<1> QED  BY <1>3 DEF f

\* It starts with nothing.
LEMMA SelectInNone ==
  ASSUME NEW E, NEW s \in Seq(E), NEW T
  PROVE  SelectInOf(s, T)[0] = <<>>
<1> DEFINE f == SelectInOf(s, T)
<1>2. f = [k \in 0..Len(s) |-> IF k = 0 THEN <<>> ELSE IF s[k] \in T THEN Append(f[k - 1], s[k]) ELSE f[k - 1]]
  BY SelectInOfRecursion
<1> HIDE DEF f
<1>1. 0 \in 0..Len(s)
  OBVIOUS
<1>3. f[0] = <<>>
  BY <1>1, <1>2
<1> QED  BY <1>3 DEF f

\* What the elements of a sequence are.
LEMMA Elements ==
  ASSUME NEW E, NEW s \in Seq(E)
  PROVE  DOMAIN s = 1..Len(s) /\ Len(s) \in Nat /\ \A i \in DOMAIN s : s[i] \in E
<1>1. DOMAIN s = 1..Len(s) /\ Len(s) \in Nat
  BY LenProperties
<1> QED  BY <1>1, ElementOfSeq

\* One more element.
LEMMA RangeOfAppend ==
  ASSUME NEW E, NEW s \in Seq(E), NEW e \in E
  PROVE  Range(Append(s, e)) = Range(s) \cup {e}
<1>1. <<e>> \in Seq(E) /\ Range(<<e>>) = {e}
  BY DEF Range
<1>2. Append(s, e) = s \o <<e>>
  BY AppendIsConcat
<1>3. Range(s \o <<e>>) = Range(s) \cup Range(<<e>>)
  BY <1>1, RangeConcatenation
<1> QED  BY <1>1, <1>2, <1>3

\* A sequence without its i-th element: those before it stay, those after it move up.
LEMMA WithoutOne ==
  ASSUME NEW E, NEW q \in Seq(E), NEW i \in 1..Len(q)
  PROVE  LET r == SubSeq(q, 1, i - 1) \o SubSeq(q, i + 1, Len(q)) IN
         /\ r \in Seq(E) /\ Len(r) = Len(q) - 1
         /\ \A j \in 1..(Len(q) - 1) : r[j] = IF j < i THEN q[j] ELSE q[j + 1]
<1> DEFINE a == SubSeq(q, 1, i - 1)
           b == SubSeq(q, i + 1, Len(q))
<1>1. Len(q) \in Nat /\ i \in Nat /\ i >= 1 /\ i <= Len(q)
  OBVIOUS
<1>2. /\ \A j \in 1..(i - 1) : q[j] \in E
      /\ \A j \in (i + 1)..Len(q) : q[j] \in E
  BY ElementOfSeq
<1>3. a \in Seq(E) /\ Len(a) = i - 1 /\ \A j \in 1..(i - 1) : a[j] = q[j]
  <2>1. /\ a \in Seq(E)
        /\ Len(a) = IF 1 <= i - 1 THEN (i - 1) - 1 + 1 ELSE 0
        /\ \A j \in 1..((i - 1) - 1 + 1) : a[j] = q[1 + j - 1]
    BY <1>1, <1>2, SubSeqProperties
  <2> HIDE DEF a
  <2>2. \A j \in 1..(i - 1) : j \in 1..((i - 1) - 1 + 1) /\ 1 + j - 1 = j
    BY <1>1
  <2> QED  BY <1>1, <2>1, <2>2
<1>4. b \in Seq(E) /\ Len(b) = Len(q) - i /\ \A j \in 1..(Len(q) - i) : b[j] = q[i + j]
  <2>1. /\ b \in Seq(E)
        /\ Len(b) = IF i + 1 <= Len(q) THEN Len(q) - (i + 1) + 1 ELSE 0
        /\ \A j \in 1..(Len(q) - (i + 1) + 1) : b[j] = q[(i + 1) + j - 1]
    BY <1>1, <1>2, SubSeqProperties
  <2> HIDE DEF b
  <2>2. \A j \in 1..(Len(q) - i) : j \in 1..(Len(q) - (i + 1) + 1) /\ (i + 1) + j - 1 = i + j
    BY <1>1
  <2> QED  BY <1>1, <2>1, <2>2
<1> HIDE DEF a, b
<1>5. /\ a \o b \in Seq(E) /\ Len(a \o b) = Len(a) + Len(b)
      /\ \A j \in 1..(Len(a) + Len(b)) : (a \o b)[j] = IF j <= Len(a) THEN a[j] ELSE b[j - Len(a)]
  BY <1>3, <1>4, ConcatProperties
<1>6. ASSUME NEW j \in 1..(Len(q) - 1)
      PROVE  (a \o b)[j] = IF j < i THEN q[j] ELSE q[j + 1]
  <2>1. (a \o b)[j] = IF j <= i - 1 THEN a[j] ELSE b[j - (i - 1)]
    BY <1>1, <1>3, <1>4, <1>5
  <2>2. CASE j < i
    BY <1>1, <1>3, <2>1, <2>2
  <2>3. CASE ~(j < i)
    <3>1. j - (i - 1) \in 1..(Len(q) - i) /\ i + (j - (i - 1)) = j + 1 /\ ~(j <= i - 1)
      BY <1>1, <2>3
    <3>2. b[j - (i - 1)] = q[j + 1]
      BY <1>4, <3>1
    <3> QED  BY <2>1, <2>3, <3>1, <3>2
  <2> QED  BY <2>2, <2>3
<1>7. Len(a \o b) = Len(q) - 1
  BY <1>1, <1>3, <1>4, <1>5
<1> QED  BY <1>5, <1>6, <1>7 DEF a, b

\* The same of its elements, which are those of the sequence but the i-th.
LEMMA WithoutOneElements ==
  ASSUME NEW E, NEW q \in Seq(E), NEW i \in DOMAIN q
  PROVE  LET r == SubSeq(q, 1, i - 1) \o SubSeq(q, i + 1, Len(q)) IN
         /\ r \in Seq(E) /\ Len(r) = Len(q) - 1 /\ Len(q) \in Nat
         /\ \A j \in DOMAIN r : \E k \in DOMAIN q : k # i /\ r[j] = q[k]
         /\ \A j \in DOMAIN r : r[j] = IF j < i THEN q[j] ELSE q[j + 1]
         /\ DOMAIN r = 1..(Len(q) - 1) /\ DOMAIN q = 1..Len(q)
<1> DEFINE r == SubSeq(q, 1, i - 1) \o SubSeq(q, i + 1, Len(q))
<1>1. DOMAIN q = 1..Len(q) /\ Len(q) \in Nat
  BY Elements
<1>2. /\ r \in Seq(E) /\ Len(r) = Len(q) - 1
      /\ \A j \in 1..(Len(q) - 1) : r[j] = IF j < i THEN q[j] ELSE q[j + 1]
  BY <1>1, WithoutOne
<1> HIDE DEF r
<1>3. DOMAIN r = 1..(Len(q) - 1)
  BY <1>2, Elements
<1>4. \A j \in DOMAIN r : \E k \in DOMAIN q : k # i /\ r[j] = q[k]
  <2> TAKE j \in DOMAIN r
  <2>1. CASE j < i
    <3>1. j \in DOMAIN q /\ j # i /\ r[j] = q[j]
      BY <1>1, <1>2, <1>3, <2>1
    <3> QED  BY <3>1
  <2>2. CASE ~(j < i)
    <3>1. j + 1 \in DOMAIN q /\ j + 1 # i /\ r[j] = q[j + 1]
      BY <1>1, <1>2, <1>3, <2>2
    <3> QED  BY <3>1
  <2> QED  BY <2>1, <2>2
<1> QED  BY <1>1, <1>2, <1>3, <1>4 DEF r

\* What Append makes.
LEMMA Appended ==
  ASSUME NEW E, NEW q \in Seq(E), NEW e \in E
  PROVE  /\ Append(q, e) \in Seq(E) /\ Len(q) \in Nat
         /\ DOMAIN Append(q, e) = 1..(Len(q) + 1) /\ DOMAIN q = 1..Len(q)
         /\ Append(q, e)[Len(q) + 1] = e
         /\ \A j \in DOMAIN q : Append(q, e)[j] = q[j]
<1> DEFINE r == Append(q, e)
<1>1. DOMAIN q = 1..Len(q) /\ Len(q) \in Nat
  BY Elements
<1>2. /\ r \in Seq(E) /\ Len(r) = Len(q) + 1 /\ r[Len(q) + 1] = e
      /\ \A j \in 1..Len(q) : r[j] = q[j]
  BY AppendProperties
<1> HIDE DEF r
<1>3. DOMAIN r = 1..(Len(q) + 1)
  BY <1>2, Elements
<1> QED  BY <1>1, <1>2, <1>3 DEF r

\* Two elements more, one after the other.
LEMMA AppendTwo ==
  ASSUME NEW E, NEW s \in Seq(E), NEW a \in E, NEW b \in E
  PROVE  s \o <<a, b>> = Append(Append(s, a), b) /\ Append(s, a) \in Seq(E)
<1> DEFINE r == s \o <<a, b>>
           t == Append(Append(s, a), b)
<1>1. Append(s, a) \in Seq(E) /\ Len(Append(s, a)) = Len(s) + 1 /\ Append(s, a)[Len(s) + 1] = a
      /\ \A i \in 1..Len(s) : Append(s, a)[i] = s[i]
  BY AppendProperties
<1>2. t \in Seq(E) /\ Len(t) = Len(s) + 2 /\ t[Len(s) + 2] = b /\ t[Len(s) + 1] = a
      /\ \A i \in 1..Len(s) : t[i] = s[i]
  <2>1. t \in Seq(E) /\ Len(t) = (Len(s) + 1) + 1 /\ t[(Len(s) + 1) + 1] = b
        /\ \A i \in 1..(Len(s) + 1) : t[i] = Append(s, a)[i]
    BY <1>1, AppendProperties
  <2>2. Len(s) \in Nat
    OBVIOUS
  <2> HIDE DEF t
  <2> QED  BY <1>1, <2>1, <2>2
<1>3. <<a, b>> \in Seq(E) /\ Len(<<a, b>>) = 2 /\ <<a, b>>[1] = a /\ <<a, b>>[2] = b
  OBVIOUS
<1>4. r \in Seq(E) /\ Len(r) = Len(s) + 2
      /\ \A i \in 1..(Len(s) + 2) : r[i] = IF i <= Len(s) THEN s[i] ELSE <<a, b>>[i - Len(s)]
  BY <1>3, ConcatProperties
<1>5. Len(s) \in Nat
  OBVIOUS
<1> HIDE DEF r, t
<1>6. \A i \in 1..(Len(s) + 2) : r[i] = t[i]
  <2> TAKE i \in 1..(Len(s) + 2)
  <2>1. CASE i <= Len(s)
    BY <1>2, <1>4, <1>5, <2>1
  <2>2. CASE i = Len(s) + 1
    <3>1. r[i] = <<a, b>>[i - Len(s)] /\ i - Len(s) = 1
      BY <1>4, <1>5, <2>2
    <3> QED  BY <1>2, <1>3, <2>2, <3>1
  <2>3. CASE i = Len(s) + 2
    <3>1. r[i] = <<a, b>>[i - Len(s)] /\ i - Len(s) = 2
      BY <1>4, <1>5, <2>3
    <3> QED  BY <1>2, <1>3, <2>3, <3>1
  <2> QED  BY <1>5, <2>1, <2>2, <2>3
<1>7. r = t
  BY <1>2, <1>4, <1>6, SeqEqual
<1> QED  BY <1>1, <1>7 DEF r, t

\* Appending to an empty sequence.
LEMMA AppendTo0 ==
  ASSUME NEW x
  PROVE  Append(<<>>, x) = <<x>>
<1>1. <<>> \in Seq({x})
  OBVIOUS
<1>2. Append(<<>>, x) = <<>> \o <<x>>
  BY <1>1, AppendIsConcat
<1>3. <<x>> \in Seq({x})
  OBVIOUS
<1> QED  BY <1>2, <1>3, ConcatEmptySeq

\* Appending to a sequence of one.
LEMMA AppendTo1 ==
  ASSUME NEW S, NEW a1 \in S, NEW x \in S
  PROVE  Append(<<a1>>, x) = <<a1, x>>
<1> DEFINE s == Append(<<a1>>, x)
           r == <<a1, x>>
<1>1. s \in Seq(S) /\ Len(s) = 2 /\ s[2] = x /\ \A i \in 1..1 : s[i] = <<a1>>[i]
  BY AppendProperties
<1>2. r \in Seq(S) /\ Len(r) = 2
  OBVIOUS
<1>3. \A i \in 1..2 : s[i] = r[i]
  BY <1>1
<1> HIDE DEF s, r
<1>4. Len(s) = Len(r) /\ \A i \in 1..Len(s) : s[i] = r[i]
  BY <1>1, <1>2, <1>3
<1>5. s = r
  BY <1>1, <1>2, <1>4, SeqEqual
<1> QED
  BY <1>5 DEF s, r

\* Appending to a sequence of 2.
LEMMA AppendTo2 ==
  ASSUME NEW S, NEW a1 \in S, NEW a2 \in S, NEW x \in S
  PROVE  Append(<<a1, a2>>, x) = <<a1, a2, x>>
<1> DEFINE s == Append(<<a1, a2>>, x)
           r == <<a1, a2, x>>
<1>1. s \in Seq(S) /\ Len(s) = 3 /\ s[3] = x /\ \A i \in 1..2 : s[i] = <<a1, a2>>[i]
  BY AppendProperties
<1>2. r \in Seq(S) /\ Len(r) = 3
  OBVIOUS
<1>3. \A i \in 1..3 : s[i] = r[i]
  BY <1>1
<1> HIDE DEF s, r
<1>4. Len(s) = Len(r) /\ \A i \in 1..Len(s) : s[i] = r[i]
  BY <1>1, <1>2, <1>3
<1>5. s = r
  BY <1>1, <1>2, <1>4, SeqEqual
<1> QED
  BY <1>5 DEF s, r

\* Appending to a sequence of 3.
LEMMA AppendTo3 ==
  ASSUME NEW S, NEW a1 \in S, NEW a2 \in S, NEW a3 \in S, NEW x \in S
  PROVE  Append(<<a1, a2, a3>>, x) = <<a1, a2, a3, x>>
<1> DEFINE s == Append(<<a1, a2, a3>>, x)
           r == <<a1, a2, a3, x>>
<1>1. s \in Seq(S) /\ Len(s) = 4 /\ s[4] = x /\ \A i \in 1..3 : s[i] = <<a1, a2, a3>>[i]
  BY AppendProperties
<1>2. r \in Seq(S) /\ Len(r) = 4
  OBVIOUS
<1>3. \A i \in 1..4 : s[i] = r[i]
  BY <1>1
<1> HIDE DEF s, r
<1>4. Len(s) = Len(r) /\ \A i \in 1..Len(s) : s[i] = r[i]
  BY <1>1, <1>2, <1>3
<1>5. s = r
  BY <1>1, <1>2, <1>4, SeqEqual
<1> QED
  BY <1>5 DEF s, r

\* Appending to a sequence of 4.
LEMMA AppendTo4 ==
  ASSUME NEW S, NEW a1 \in S, NEW a2 \in S, NEW a3 \in S, NEW a4 \in S, NEW x \in S
  PROVE  Append(<<a1, a2, a3, a4>>, x) = <<a1, a2, a3, a4, x>>
<1> DEFINE s == Append(<<a1, a2, a3, a4>>, x)
           r == <<a1, a2, a3, a4, x>>
<1>1. s \in Seq(S) /\ Len(s) = 5 /\ s[5] = x /\ \A i \in 1..4 : s[i] = <<a1, a2, a3, a4>>[i]
  BY AppendProperties
<1>2. r \in Seq(S) /\ Len(r) = 5
  OBVIOUS
<1>3. \A i \in 1..5 : s[i] = r[i]
  BY <1>1
<1> HIDE DEF s, r
<1>4. Len(s) = Len(r) /\ \A i \in 1..Len(s) : s[i] = r[i]
  BY <1>1, <1>2, <1>3
<1>5. s = r
  BY <1>1, <1>2, <1>4, SeqEqual
<1> QED
  BY <1>5 DEF s, r

\* A selection is a sequence of the same elements, no longer than the whole, of exactly
\* those of them that were to be selected.
LEMMA SelectInType ==
  ASSUME NEW E, NEW s \in Seq(E), NEW T
  PROVE  /\ SelectIn(s, T) \in Seq(E) /\ Len(SelectIn(s, T)) <= Len(s)
         /\ Range(SelectIn(s, T)) = Range(s) \cap T
<1> DEFINE f == SelectInOf(s, T)
           upTo(n) == {s[i] : i \in 1..n}
           Good == {n \in Nat : /\ f[n] \in Seq(E) /\ Len(f[n]) <= n
                                /\ Range(f[n]) = upTo(n) \cap T}
<1>1. Len(s) \in Nat
  OBVIOUS
<1>2. 0 \in Good
  <2>1. f[0] = <<>>
    BY SelectInNone
  <2>2. Range(<<>>) = {}
    BY DEF Range
  <2>3. <<>> \in Seq(E) /\ Len(<<>>) = 0 /\ upTo(0) = {} /\ 0 \in Nat
    OBVIOUS
  <2> HIDE DEF f, upTo
  <2>4. f[0] \in Seq(E) /\ Len(f[0]) <= 0
    BY <2>1, <2>3
  <2>5. Range(f[0]) = upTo(0) \cap T
    BY <2>1, <2>2, <2>3
  <2> QED  BY <2>3, <2>4, <2>5
<1>3. ASSUME NEW n \in 0..(Len(s) - 1), n \in Good
      PROVE  n + 1 \in Good
  <2>1. n + 1 \in 1..Len(s) /\ n \in Nat /\ (n + 1) - 1 = n
    OBVIOUS
  <2>2. f[n + 1] = IF s[n + 1] \in T THEN Append(f[n], s[n + 1]) ELSE f[n]
    BY <2>1, SelectInStep
  <2>3. f[n] \in Seq(E) /\ Len(f[n]) <= n /\ Range(f[n]) = upTo(n) \cap T
    BY <1>3
  <2>4. upTo(n + 1) = upTo(n) \cup {s[n + 1]}
    BY <2>1
  <2>5. s[n + 1] \in E
    BY <2>1, ElementOfSeq
  <2> HIDE DEF f, upTo
  <2>6. CASE s[n + 1] \in T
    <3>1. f[n + 1] = Append(f[n], s[n + 1])
      BY <2>2, <2>6
    <3>2. /\ Append(f[n], s[n + 1]) \in Seq(E)
          /\ Len(Append(f[n], s[n + 1])) = Len(f[n]) + 1
      BY <2>3, <2>5, AppendProperties
    <3>3. Range(Append(f[n], s[n + 1])) = Range(f[n]) \cup {s[n + 1]}
      BY <2>3, <2>5, RangeOfAppend
    <3>4. Len(f[n]) \in Nat
      BY <2>3
    <3>5. Range(f[n + 1]) = upTo(n + 1) \cap T
      BY <2>3, <2>4, <2>6, <3>1, <3>3
    <3>6. f[n + 1] \in Seq(E) /\ Len(f[n + 1]) <= n + 1
      BY <2>1, <2>3, <3>1, <3>2, <3>4
    <3> QED  BY <2>1, <3>5, <3>6
  <2>7. CASE s[n + 1] \notin T
    <3>1. f[n + 1] = f[n]
      BY <2>2, <2>7
    <3>2. Len(f[n]) \in Nat
      BY <2>3
    <3>5. Range(f[n + 1]) = upTo(n + 1) \cap T
      BY <2>3, <2>4, <2>7, <3>1
    <3>6. f[n + 1] \in Seq(E) /\ Len(f[n + 1]) <= n + 1
      BY <2>1, <2>3, <3>1, <3>2
    <3> QED  BY <2>1, <3>5, <3>6
  <2> QED  BY <2>6, <2>7
<1> HIDE DEF Good
<1>4. Len(s) \in Good
  <2>1. \A n \in 0..(Len(s) - 1) : n \in Good => n + 1 \in Good
    BY <1>3
  <2>2. \A n \in 0..Len(s) : n \in Good
    BY <1>1, <1>2, <2>1, Induction
  <2> QED  BY <1>1, <2>2
<1>5. Range(s) = upTo(Len(s))
  BY RangeEquality
<1> QED  BY <1>4, <1>5 DEF Good, SelectIn

-----------------------------------------------------------------------------
(* Selections from a longer sequence *)

\* The selection from a sequence with one more element is the selection from the
\* sequence, with the element if it is to be selected.
LEMMA SelectInAppend ==
  ASSUME NEW E, NEW s \in Seq(E), NEW e \in E, NEW T
  PROVE  SelectIn(Append(s, e), T) = IF e \in T THEN Append(SelectIn(s, T), e) ELSE SelectIn(s, T)
<1> DEFINE r == Append(s, e)
           Same == {n \in Nat : SelectInOf(r, T)[n] = SelectInOf(s, T)[n]}
<1>1. r \in Seq(E) /\ Len(r) = Len(s) + 1 /\ r[Len(s) + 1] = e /\ \A i \in 1..Len(s) : r[i] = s[i]
  BY AppendProperties
<1>2. Len(s) \in Nat
  OBVIOUS
<1> HIDE DEF r
<1>3. 0 \in Same
  BY <1>1, SelectInNone
<1>4. ASSUME NEW n \in 0..(Len(s) - 1), n \in Same
      PROVE  n + 1 \in Same
  <2>1. n + 1 \in 1..Len(s) /\ n + 1 \in 1..Len(r) /\ (n + 1) - 1 = n /\ n + 1 \in Nat
    BY <1>1, <1>2
  <2> DEFINE fr == SelectInOf(r, T)
             fs == SelectInOf(s, T)
  <2>2. fr[n + 1] = IF r[n + 1] \in T THEN Append(fr[n], r[n + 1]) ELSE fr[n]
    BY <1>1, <2>1, SelectInStep
  <2>3. fs[n + 1] = IF s[n + 1] \in T THEN Append(fs[n], s[n + 1]) ELSE fs[n]
    BY <2>1, SelectInStep
  <2>4. fr[n] = fs[n]
    BY <1>4
  <2> HIDE DEF fr, fs
  <2>5. fr[n + 1] = fs[n + 1]
    BY <1>1, <2>1, <2>2, <2>3, <2>4
  <2> QED  BY <2>1, <2>5 DEF fr, fs
<1>5. Len(s) \in Same
  <2>1. \A n \in 0..Len(s) : n \in Same
    <3> HIDE DEF Same
    <3> QED  BY <1>2, <1>3, <1>4, Induction
  <2>2. Len(s) \in 0..Len(s)
    BY <1>2
  <2> QED  BY <2>1, <2>2
<1>6. Len(r) \in 1..Len(r) /\ Len(r) - 1 = Len(s)
  BY <1>1, <1>2
<1> DEFINE fr == SelectInOf(r, T)
           fs == SelectInOf(s, T)
<1>7. fr[Len(r)] = IF r[Len(r)] \in T THEN Append(fr[Len(r) - 1], r[Len(r)]) ELSE fr[Len(r) - 1]
  BY <1>1, <1>6, SelectInStep
<1>8. fr[Len(s)] = fs[Len(s)]
  BY <1>5
<1>9. SelectIn(r, T) = fr[Len(r)] /\ SelectIn(s, T) = fs[Len(s)]
  BY DEF SelectIn
<1> HIDE DEF fr, fs
<1>10. SelectIn(r, T) = IF e \in T THEN Append(SelectIn(s, T), e) ELSE SelectIn(s, T)
  BY <1>1, <1>6, <1>7, <1>8, <1>9
<1> QED  BY <1>10 DEF r


\* Reading something off each element of a sequence with one more element.
LEMMA ReadAppend ==
  ASSUME NEW E, NEW q \in Seq(E), NEW e \in E, NEW V, NEW f \in [E -> V]
  PROVE  /\ [i \in DOMAIN q |-> f[q[i]]] \in Seq(V)
         /\ [i \in DOMAIN Append(q, e) |-> f[Append(q, e)[i]]] = Append([i \in DOMAIN q |-> f[q[i]]], f[e])
<1> DEFINE p == [i \in DOMAIN q |-> f[q[i]]]
           a == Append(q, e)
           r == [i \in DOMAIN a |-> f[a[i]]]
<1>1. DOMAIN q = 1..Len(q) /\ Len(q) \in Nat /\ \A i \in DOMAIN q : q[i] \in E
  BY Elements
<1>2. DOMAIN a = 1..(Len(q) + 1) /\ a[Len(q) + 1] = e /\ \A i \in DOMAIN q : a[i] = q[i]
  BY Appended
<1>3. p \in Seq(V) /\ Len(p) = Len(q)
  BY <1>1
<1> HIDE DEF a
<1>4. f[e] \in V
  OBVIOUS
<1>5. \A i \in DOMAIN a : f[a[i]] \in V
  BY <1>1, <1>2
<1>6. r \in Seq(V) /\ Len(r) = Len(q) + 1
  BY <1>1, <1>2, <1>5
<1>7. /\ Append(p, f[e]) \in Seq(V) /\ Len(Append(p, f[e])) = Len(q) + 1
      /\ Append(p, f[e])[Len(q) + 1] = f[e]
      /\ \A i \in 1..Len(q) : Append(p, f[e])[i] = p[i]
  <2> HIDE DEF p
  <2> QED  BY <1>3, <1>4, AppendProperties
<1>8. \A i \in 1..(Len(q) + 1) : r[i] = Append(p, f[e])[i]
  <2> TAKE i \in 1..(Len(q) + 1)
  <2>1. r[i] = f[a[i]]
    BY <1>2
  <2>2. CASE i \in DOMAIN q
    <3>1. p[i] = f[q[i]] /\ i \in 1..Len(q)
      BY <1>1, <2>2
    <3> HIDE DEF r, p
    <3> QED  BY <1>2, <1>7, <2>1, <2>2, <3>1
  <2>3. CASE i \notin DOMAIN q
    <3>1. i = Len(q) + 1
      BY <1>1, <2>3
    <3> HIDE DEF r, p
    <3> QED  BY <1>2, <1>7, <2>1, <3>1
  <2> QED  BY <2>2, <2>3
<1> HIDE DEF r, p
<1>9. r = Append(p, f[e])
  BY <1>6, <1>7, <1>8, SeqEqual
<1> QED  BY <1>3, <1>9 DEF a, r, p

\* The first of a selection is the first element to be selected.
LEMMA SelectInFirst ==
  ASSUME NEW E, NEW s \in Seq(E), NEW T, NEW b \in 1..Len(s), s[b] \in T, \A i \in 1..(b - 1) : s[i] \notin T
  PROVE  SelectIn(s, T)[1] = s[b]
<1> DEFINE f == SelectInOf(s, T)
           Before == {n \in Nat : n < b => f[n] = <<>>}
           After == {n \in Nat : n >= b => f[n] \in Seq(E) /\ Len(f[n]) >= 1 /\ f[n][1] = s[b]}
<1>1. Len(s) \in Nat /\ b \in Nat /\ b >= 1 /\ b <= Len(s)
  OBVIOUS
<1>2. f[0] = <<>> /\ \A n \in 1..Len(s) : f[n] = IF s[n] \in T THEN Append(f[n - 1], s[n]) ELSE f[n - 1]
  BY SelectInNone, SelectInStep
<1>3. SelectIn(s, T) = f[Len(s)]
  BY DEF SelectIn
<1>4. \A i \in 1..Len(s) : s[i] \in E
  BY ElementOfSeq
<1> HIDE DEF f
<1>5. 0 \in Before /\ 0 \in After
  BY <1>1, <1>2
<1>6. ASSUME NEW n \in 0..(Len(s) - 1), n \in Before
      PROVE  n + 1 \in Before
  <2>1. n + 1 \in 1..Len(s) /\ (n + 1) - 1 = n /\ n + 1 \in Nat
    BY <1>1
  <2>2. n + 1 < b => n + 1 \in 1..(b - 1) /\ n < b
    BY <1>1
  <2>3. f[n + 1] = IF s[n + 1] \in T THEN Append(f[n], s[n + 1]) ELSE f[n]
    BY <1>2, <2>1
  <2> QED  BY <1>6, <2>1, <2>2, <2>3
<1>7. \A n \in 0..Len(s) : n \in Before
  <2> HIDE DEF Before
  <2> QED  BY <1>1, <1>5, <1>6, Induction
<1>8. ASSUME NEW n \in 0..(Len(s) - 1), n \in After
      PROVE  n + 1 \in After
  <2>1. n + 1 \in 1..Len(s) /\ (n + 1) - 1 = n /\ n + 1 \in Nat
    BY <1>1
  <2>2. f[n + 1] = IF s[n + 1] \in T THEN Append(f[n], s[n + 1]) ELSE f[n]
    BY <1>2, <2>1
  <2>3. CASE n + 1 = b
    <3>1. f[n] = <<>> /\ n < b
      BY <1>1, <1>7, <2>1, <2>3
    <3>2. f[n + 1] = <<s[b]>>
      BY <2>2, <2>3, <3>1, AppendTo0
    <3>3. s[b] \in E
      BY <1>4
    <3>4. <<s[b]>> \in Seq(E) /\ Len(<<s[b]>>) >= 1 /\ <<s[b]>>[1] = s[b]
      BY <3>3
    <3>5. f[n + 1] \in Seq(E) /\ Len(f[n + 1]) >= 1 /\ f[n + 1][1] = s[b]
      BY <3>2, <3>4
    <3> QED  BY <2>1, <3>5
  <2>4. CASE n >= b
    <3>1. f[n] \in Seq(E) /\ Len(f[n]) >= 1 /\ f[n][1] = s[b] /\ s[n + 1] \in E
      BY <1>4, <1>8, <2>1, <2>4
    <3>2. /\ Append(f[n], s[n + 1]) \in Seq(E) /\ Len(Append(f[n], s[n + 1])) = Len(f[n]) + 1
          /\ Append(f[n], s[n + 1])[1] = f[n][1]
      <4>1. /\ Append(f[n], s[n + 1]) \in Seq(E) /\ Len(Append(f[n], s[n + 1])) = Len(f[n]) + 1
            /\ \A i \in 1..Len(f[n]) : Append(f[n], s[n + 1])[i] = f[n][i]
        BY <3>1, AppendProperties
      <4>2. 1 \in 1..Len(f[n])
        BY <3>1
      <4> QED  BY <4>1, <4>2
    <3>3. Len(f[n]) \in Nat
      BY <3>1
    <3>4. Len(f[n]) + 1 >= 1
      BY <3>3
    <3>5. f[n + 1] \in Seq(E) /\ Len(f[n + 1]) >= 1 /\ f[n + 1][1] = s[b]
      BY <2>2, <3>1, <3>2, <3>4
    <3> QED  BY <2>1, <3>5
  <2>5. CASE ~(n + 1 >= b)
    BY <2>1, <2>5
  <2> QED  BY <1>1, <2>3, <2>4, <2>5
<1>9. \A n \in 0..Len(s) : n \in After
  <2> HIDE DEF After
  <2> QED  BY <1>1, <1>5, <1>8, Induction
<1>10. Len(s) \in 0..Len(s) /\ Len(s) >= b
  BY <1>1
<1> QED  BY <1>3, <1>9, <1>10

\* No element twice.
NoneTwice(s) == \A i, j \in DOMAIN s : s[i] = s[j] => i = j

\* A new element makes no element come twice.
LEMMA AppendNew ==
  ASSUME NEW E, NEW q \in Seq(E), NEW e \in E, NoneTwice(q), e \notin Range(q)
  PROVE  NoneTwice(Append(q, e))
<1> DEFINE a == Append(q, e)
<1>1. DOMAIN q = 1..Len(q) /\ Len(q) \in Nat /\ DOMAIN a = 1..(Len(q) + 1) /\ a[Len(q) + 1] = e
      /\ \A i \in DOMAIN q : a[i] = q[i]
  BY Appended
<1> HIDE DEF a
<1>2. \A i \in DOMAIN q : q[i] # e
  BY DEF Range
<1>3. \A i \in DOMAIN a : i \in DOMAIN q \/ i = Len(q) + 1
  BY <1>1
<1>4. NoneTwice(a)
  BY <1>1, <1>2, <1>3 DEF NoneTwice
<1> QED  BY <1>4 DEF a

\* A selection from a sequence in which no element comes twice is another.
LEMMA SelectInDistinct ==
  ASSUME NEW E, NEW s \in Seq(E), NEW T, NoneTwice(s)
  PROVE  NoneTwice(SelectIn(s, T))
<1> DEFINE f == SelectInOf(s, T)
           upTo(n) == {s[i] : i \in 1..n}
           Good == {n \in Nat : f[n] \in Seq(E) /\ Range(f[n]) \subseteq upTo(n) /\ NoneTwice(f[n])}
<1>1. DOMAIN s = 1..Len(s) /\ Len(s) \in Nat /\ \A i \in 1..Len(s) : s[i] \in E
  BY Elements
<1>2. f[0] = <<>> /\ \A n \in 1..Len(s) : f[n] = IF s[n] \in T THEN Append(f[n - 1], s[n]) ELSE f[n - 1]
  BY SelectInNone, SelectInStep
<1>3. SelectIn(s, T) = f[Len(s)]
  BY DEF SelectIn
<1> HIDE DEF f
<1>4. 0 \in Good
  <2>1. <<>> \in Seq(E) /\ Range(<<>>) = {} /\ NoneTwice(<<>>)
    BY DEF Range, NoneTwice
  <2> QED  BY <1>2, <2>1
<1>5. ASSUME NEW n \in 0..(Len(s) - 1), n \in Good
      PROVE  n + 1 \in Good
  <2>1. n + 1 \in 1..Len(s) /\ (n + 1) - 1 = n /\ n + 1 \in Nat /\ n \in Nat
    BY <1>1
  <2>2. f[n + 1] = IF s[n + 1] \in T THEN Append(f[n], s[n + 1]) ELSE f[n]
    BY <1>2, <2>1
  <2>3. f[n] \in Seq(E) /\ Range(f[n]) \subseteq upTo(n) /\ NoneTwice(f[n])
    BY <1>5
  <2>4. upTo(n + 1) = upTo(n) \cup {s[n + 1]}
    BY <2>1
  <2>5. s[n + 1] \notin upTo(n)
    BY <1>1, <2>1 DEF NoneTwice
  <2>6. s[n + 1] \in E
    BY <1>1, <2>1
  <2> HIDE DEF upTo
  <2>7. /\ Append(f[n], s[n + 1]) \in Seq(E) /\ NoneTwice(Append(f[n], s[n + 1]))
        /\ Range(Append(f[n], s[n + 1])) = Range(f[n]) \cup {s[n + 1]}
    BY <2>3, <2>5, <2>6, AppendNew, AppendProperties, RangeOfAppend
  <2>8. f[n + 1] \in Seq(E) /\ Range(f[n + 1]) \subseteq upTo(n + 1) /\ NoneTwice(f[n + 1])
    BY <2>2, <2>3, <2>4, <2>7
  <2> QED  BY <2>1, <2>8
<1>6. \A n \in 0..Len(s) : n \in Good
  <2> HIDE DEF Good
  <2> QED  BY <1>1, <1>4, <1>5, Induction
<1>7. Len(s) \in 0..Len(s)
  BY <1>1
<1> QED  BY <1>3, <1>6, <1>7

\* Two sequences that share no element, one after the other.
LEMMA ConcatDistinct ==
  ASSUME NEW E, NEW s \in Seq(E), NEW t \in Seq(E), NoneTwice(s), NoneTwice(t), Range(s) \cap Range(t) = {}
  PROVE  /\ NoneTwice(s \o t) /\ s \o t \in Seq(E) /\ Len(s \o t) = Len(s) + Len(t)
         /\ \A i \in 1..Len(s) : (s \o t)[i] = s[i]
         /\ Range(s \o t) = Range(s) \cup Range(t)
<1> DEFINE r == s \o t
<1>1. /\ r \in Seq(E) /\ Len(r) = Len(s) + Len(t)
      /\ \A i \in 1..(Len(s) + Len(t)) : r[i] = IF i <= Len(s) THEN s[i] ELSE t[i - Len(s)]
  BY ConcatProperties
<1>2. Range(r) = Range(s) \cup Range(t)
  BY RangeConcatenation
<1>3. DOMAIN s = 1..Len(s) /\ Len(s) \in Nat /\ DOMAIN t = 1..Len(t) /\ Len(t) \in Nat
  BY Elements
<1> HIDE DEF r
<1>4. DOMAIN r = 1..(Len(s) + Len(t))
  BY <1>1, Elements
<1>5. \A i \in DOMAIN r :
         \/ i \in DOMAIN s /\ r[i] = s[i]
         \/ i \notin DOMAIN s /\ i - Len(s) \in DOMAIN t /\ r[i] = t[i - Len(s)]
  BY <1>1, <1>3, <1>4
<1>6. \A i \in DOMAIN s, j \in DOMAIN t : s[i] # t[j]
  BY DEF Range
<1>7. ASSUME NEW i \in DOMAIN r, NEW j \in DOMAIN r, r[i] = r[j]
      PROVE  i = j
  <2>1. i \in Int /\ j \in Int
    BY <1>4
  <2>2. CASE i \in DOMAIN s /\ j \in DOMAIN s
    BY <1>5, <1>7, <2>2 DEF NoneTwice
  <2>3. CASE i \notin DOMAIN s /\ j \notin DOMAIN s
    <3>1. i - Len(s) \in DOMAIN t /\ j - Len(s) \in DOMAIN t /\ t[i - Len(s)] = t[j - Len(s)]
      BY <1>5, <1>7, <2>3
    <3>2. i - Len(s) = j - Len(s)
      BY <3>1 DEF NoneTwice
    <3> QED  BY <1>3, <2>1, <3>2
  <2> QED  BY <1>5, <1>6, <1>7, <2>2, <2>3
<1>8. NoneTwice(r)
  BY <1>7 DEF NoneTwice
<1>9. \A i \in 1..Len(s) : r[i] = s[i]
  BY <1>1, <1>3
<1> QED  BY <1>1, <1>2, <1>8, <1>9 DEF r

\* A selection keeps the order: of two of its elements, the first stands before the
\* second in the sequence too.
LEMMA SelectInOrder ==
  ASSUME NEW E, NEW s \in Seq(E), NEW T,
         NEW i \in DOMAIN SelectIn(s, T), NEW j \in DOMAIN SelectIn(s, T), i < j
  PROVE  \E k, l \in DOMAIN s : k < l /\ s[k] = SelectIn(s, T)[i] /\ s[l] = SelectIn(s, T)[j]
<1> DEFINE f == SelectInOf(s, T)
           InOrder(n, y, x) == \E k, l \in 1..n : k < l /\ s[k] = f[n][y] /\ s[l] = f[n][x]
           Found(n, x) == \E l \in 1..n : s[l] = f[n][x]
           Good == {n \in Nat : /\ f[n] \in Seq(E)
                                /\ \A x \in 1..Len(f[n]) : Found(n, x)
                                /\ \A y, x \in 1..Len(f[n]) : y < x => InOrder(n, y, x)}
<1>1. DOMAIN s = 1..Len(s) /\ Len(s) \in Nat /\ \A n \in 1..Len(s) : s[n] \in E
  BY Elements
<1>2. f[0] = <<>> /\ \A n \in 1..Len(s) : f[n] = IF s[n] \in T THEN Append(f[n - 1], s[n]) ELSE f[n - 1]
  BY SelectInNone, SelectInStep
<1>3. SelectIn(s, T) = f[Len(s)]
  BY DEF SelectIn
<1> HIDE DEF f
<1>4. 0 \in Good
  <2>1. f[0] \in Seq(E) /\ Len(f[0]) = 0
    BY <1>2
  <2> QED  BY <2>1
<1>5. ASSUME NEW n \in 0..(Len(s) - 1), n \in Good
      PROVE  n + 1 \in Good
  <2>1. n + 1 \in 1..Len(s) /\ (n + 1) - 1 = n /\ n + 1 \in Nat /\ n \in Nat
    BY <1>1
  <2>2. f[n + 1] = IF s[n + 1] \in T THEN Append(f[n], s[n + 1]) ELSE f[n]
    BY <1>2, <2>1
  <2>3. /\ f[n] \in Seq(E)
        /\ \A x \in 1..Len(f[n]) : Found(n, x)
        /\ \A y, x \in 1..Len(f[n]) : y < x => InOrder(n, y, x)
    BY <1>5
  <2>4. s[n + 1] \in E
    BY <1>1, <2>1
  <2>5. CASE s[n + 1] \notin T
    <3>1. f[n + 1] = f[n]
      BY <2>2, <2>5
    <3>2. \A x \in 1..Len(f[n]) : Found(n + 1, x)
      BY <2>1, <2>3, <3>1
    <3>3. \A y, x \in 1..Len(f[n]) : y < x => InOrder(n + 1, y, x)
      BY <2>1, <2>3, <3>1
    <3> HIDE DEF Found, InOrder
    <3> QED  BY <2>1, <2>3, <3>1, <3>2, <3>3
  <2>6. CASE s[n + 1] \in T
    <3> DEFINE m == Len(f[n])
    <3>1. /\ f[n + 1] \in Seq(E) /\ m \in Nat /\ Len(f[n + 1]) = m + 1
          /\ f[n + 1][m + 1] = s[n + 1] /\ \A x \in 1..m : f[n + 1][x] = f[n][x]
      BY <2>2, <2>3, <2>4, <2>6, AppendProperties
    <3> HIDE DEF m
    <3>2. \A x \in 1..m : \E l \in 1..n : s[l] = f[n][x]
      BY <2>3 DEF m
    <3>3. \A y, x \in 1..m : y < x => \E k, l \in 1..n : k < l /\ s[k] = f[n][y] /\ s[l] = f[n][x]
      BY <2>3 DEF m
    <3>4. ASSUME NEW x \in 1..(m + 1)
          PROVE  Found(n + 1, x)
      <4>1. CASE x = m + 1
        BY <2>1, <3>1, <4>1
      <4>2. CASE x # m + 1
        <5>1. x \in 1..m
          BY <3>1, <4>2
        <5>2. PICK l \in 1..n : s[l] = f[n][x]
          BY <3>2, <5>1
        <5>3. f[n + 1][x] = f[n][x] /\ l \in 1..(n + 1)
          BY <2>1, <3>1, <5>1
        <5> QED  BY <5>2, <5>3
      <4> QED  BY <4>1, <4>2
    <3>5. ASSUME NEW y \in 1..(m + 1), NEW x \in 1..(m + 1), y < x
          PROVE  InOrder(n + 1, y, x)
      <4>0. y \in 1..m
        BY <3>1, <3>5
      <4>1. CASE x = m + 1
        <5>1. PICK k \in 1..n : s[k] = f[n][y]
          BY <3>2, <4>0
        <5>2. k \in 1..(n + 1) /\ n + 1 \in 1..(n + 1) /\ k < n + 1 /\ f[n + 1][y] = f[n][y]
              /\ f[n + 1][x] = s[n + 1]
          BY <2>1, <3>1, <4>0, <4>1
        <5> QED  BY <5>1, <5>2
      <4>2. CASE x # m + 1
        <5>1. x \in 1..m
          BY <3>1, <4>2
        <5>2. PICK k \in 1..n, l \in 1..n : k < l /\ s[k] = f[n][y] /\ s[l] = f[n][x]
          BY <3>3, <3>5, <4>0, <5>1
        <5>3. f[n + 1][x] = f[n][x] /\ f[n + 1][y] = f[n][y] /\ l \in 1..(n + 1) /\ k \in 1..(n + 1)
          BY <2>1, <3>1, <4>0, <5>1
        <5> QED  BY <5>2, <5>3
      <4> QED  BY <4>1, <4>2
    <3> HIDE DEF Found, InOrder
    <3> QED  BY <2>1, <3>1, <3>4, <3>5
  <2> QED  BY <2>5, <2>6
<1>6. \A n \in 0..Len(s) : n \in Good
  <2> HIDE DEF Good
  <2> QED  BY <1>1, <1>4, <1>5, Induction
<1>7. Len(s) \in Good
  <2>1. Len(s) \in 0..Len(s)
    BY <1>1
  <2> HIDE DEF Good
  <2> QED  BY <1>6, <2>1
<1>8. DOMAIN SelectIn(s, T) = 1..Len(f[Len(s)])
  <2>1. f[Len(s)] \in Seq(E)
    BY <1>7
  <2> QED  BY <1>3, <2>1, Elements
<1>9. InOrder(Len(s), i, j)
  <2>1. i \in 1..Len(f[Len(s)]) /\ j \in 1..Len(f[Len(s)])
    BY <1>8
  <2>2. \A y, x \in 1..Len(f[Len(s)]) : y < x => InOrder(Len(s), y, x)
    BY <1>7
  <2> HIDE DEF InOrder
  <2> QED  BY <2>1, <2>2
<1> QED  BY <1>1, <1>3, <1>9

-----------------------------------------------------------------------------
(* Sequences one after the other *)

\* The recursion of Chained has a solution too.
LEMMA ChainedOfRecursion ==
  ASSUME NEW s, Len(s) \in Nat
  PROVE  ChainedOf(s) = [n \in 0..Len(s) |-> IF n = 0 THEN <<>> ELSE ChainedOf(s)[n - 1] \o s[n]]
<1> DEFINE Solves(g, N) == g = [n \in 0..N |-> IF n = 0 THEN <<>> ELSE g[n - 1] \o s[n]]
           Solved == {N \in Nat : \E g : Solves(g, N)}
<1>2. 0 \in Solved
  <2>1. Solves([n \in 0..0 |-> <<>>], 0)
    OBVIOUS
  <2> QED  BY <2>1
<1>3. ASSUME NEW N \in 0..(Len(s) - 1), N \in Solved
      PROVE  N + 1 \in Solved
  <2>1. PICK g : Solves(g, N)
    BY <1>3
  <2> DEFINE h == [n \in 0..(N + 1) |-> IF n <= N THEN g[n] ELSE g[n - 1] \o s[n]]
  <2>2. N \in Nat /\ \A n \in 0..(N + 1) : n # 0 => n - 1 \in 0..N
    OBVIOUS
  <2>3. \A n \in 0..N : g[n] = IF n = 0 THEN <<>> ELSE g[n - 1] \o s[n]
    BY <2>1
  <2>4. \A n \in 0..(N + 1) : h[n] = IF n = 0 THEN <<>> ELSE h[n - 1] \o s[n]
    BY <2>2, <2>3
  <2>5. Solves(h, N + 1)
    <3>1. h = [n \in 0..(N + 1) |-> h[n]]
      OBVIOUS
    <3> HIDE DEF h
    <3> QED  BY <2>4, <3>1
  <2> HIDE DEF Solves
  <2> QED  BY <2>2, <2>5
<1> HIDE DEF Solved
<1>4. Len(s) \in Solved
  <2>1. \A N \in 0..(Len(s) - 1) : N \in Solved => N + 1 \in Solved
    BY <1>3
  <2>2. \A N \in 0..Len(s) : N \in Solved
    BY <1>2, <2>1, Induction
  <2> QED  BY <2>2
<1>5. \E g : Solves(g, Len(s))
  BY <1>4 DEF Solved
<1> QED  BY <1>5 DEF ChainedOf

\* It goes sequence by sequence.
LEMMA ChainedSteps ==
  ASSUME NEW s, Len(s) \in Nat
  PROVE  /\ ChainedOf(s)[0] = <<>>
         /\ \A n \in 1..Len(s) : ChainedOf(s)[n] = ChainedOf(s)[n - 1] \o s[n]
<1> DEFINE f == ChainedOf(s)
<1>1. f = [n \in 0..Len(s) |-> IF n = 0 THEN <<>> ELSE f[n - 1] \o s[n]]
  BY ChainedOfRecursion
<1> HIDE DEF f
<1>2. 0 \in 0..Len(s) /\ \A n \in 1..Len(s) : n \in 0..Len(s) /\ n # 0
  OBVIOUS
<1>3. f[0] = <<>>
  BY <1>1, <1>2
<1>4. \A n \in 1..Len(s) : f[n] = f[n - 1] \o s[n]
  BY <1>1, <1>2
<1> QED  BY <1>3, <1>4 DEF f

\* What two sequences have in them together.
LEMMA ElemsOfTwo ==
  ASSUME NEW E, NEW s \in Seq(E), NEW r \in Seq(E)
  PROVE  s \o r \in Seq(E) /\ Elems(s \o r) = Elems(s) \cup Elems(r)
<1>1. s \o r \in Seq(E) /\ Range(s \o r) = Range(s) \cup Range(r)
  BY RangeConcatenation
<1> QED  BY <1>1 DEF Range, Elems

\* A chain has in it what its sequences have.
LEMMA ChainedElems ==
  ASSUME NEW E, NEW s \in Seq(Seq(E))
  PROVE  /\ Chained(s) \in Seq(E)
         /\ \A e : e \in Elems(Chained(s)) <=> \E n \in DOMAIN s : e \in Elems(s[n])
<1> DEFINE f == ChainedOf(s)
           Has(n, e) == \E m \in 1..n : e \in Elems(s[m])
           Good == {n \in Nat : f[n] \in Seq(E) /\ \A e : e \in Elems(f[n]) <=> Has(n, e)}
<1>1. DOMAIN s = 1..Len(s) /\ Len(s) \in Nat /\ \A n \in 1..Len(s) : s[n] \in Seq(E)
  BY Elements
<1>2. f[0] = <<>> /\ \A n \in 1..Len(s) : f[n] = f[n - 1] \o s[n]
  BY <1>1, ChainedSteps
<1>3. Chained(s) = f[Len(s)]
  BY DEF Chained
<1> HIDE DEF f
<1>4. 0 \in Good
  <2>1. f[0] \in Seq(E) /\ Elems(f[0]) = {}
    BY <1>2 DEF Elems
  <2>2. \A e : ~Has(0, e)
    OBVIOUS
  <2> HIDE DEF Has
  <2> QED  BY <2>1, <2>2
<1>5. ASSUME NEW n \in 0..(Len(s) - 1), n \in Good
      PROVE  n + 1 \in Good
  <2>1. n + 1 \in 1..Len(s) /\ (n + 1) - 1 = n /\ n + 1 \in Nat /\ n \in Nat /\ 1..(n + 1) = (1..n) \cup {n + 1}
    BY <1>1
  <2>2. f[n + 1] = f[n] \o s[n + 1] /\ s[n + 1] \in Seq(E)
    BY <1>1, <1>2, <2>1
  <2>3. f[n] \in Seq(E) /\ \A e : e \in Elems(f[n]) <=> Has(n, e)
    BY <1>5
  <2>4. f[n + 1] \in Seq(E) /\ Elems(f[n + 1]) = Elems(f[n]) \cup Elems(s[n + 1])
    BY <2>2, <2>3, ElemsOfTwo
  <2>5. \A e : Has(n + 1, e) <=> Has(n, e) \/ e \in Elems(s[n + 1])
    BY <2>1
  <2>6. \A e : e \in Elems(f[n + 1]) <=> Has(n + 1, e)
    <3> HIDE DEF Has
    <3> QED  BY <2>3, <2>4, <2>5
  <2> HIDE DEF Has
  <2> QED  BY <2>1, <2>4, <2>6
<1>6. Len(s) \in Good
  <2> HIDE DEF Good
  <2>1. \A n \in 0..Len(s) : n \in Good
    BY <1>1, <1>4, <1>5, Induction
  <2> QED  BY <1>1, <2>1
<1> QED  BY <1>1, <1>3, <1>6

\* One sequence more at the end.
LEMMA ChainedAppend ==
  ASSUME NEW E, NEW s \in Seq(Seq(E)), NEW r \in Seq(E)
  PROVE  Chained(Append(s, r)) = Chained(s) \o r
<1> DEFINE t == Append(s, r)
           f == ChainedOf(s)
           g == ChainedOf(t)
           Good == {n \in Nat : g[n] = f[n]}
<1>1. Len(s) \in Nat /\ Len(t) = Len(s) + 1 /\ t[Len(s) + 1] = r /\ \A n \in 1..Len(s) : t[n] = s[n]
  <2>1. Len(s) \in Nat
    BY Elements
  <2> QED  BY <2>1, AppendProperties
<1>2. f[0] = <<>> /\ \A n \in 1..Len(s) : f[n] = f[n - 1] \o s[n]
  BY <1>1, ChainedSteps
<1>3. g[0] = <<>> /\ \A n \in 1..(Len(s) + 1) : g[n] = g[n - 1] \o t[n]
  <2>1. Len(t) \in Nat
    BY <1>1
  <2> QED  BY <1>1, <2>1, ChainedSteps
<1>4. Chained(s) = f[Len(s)] /\ Chained(t) = g[Len(s) + 1]
  BY <1>1 DEF Chained
<1> HIDE DEF f, g, t
<1>5. 0 \in Good
  BY <1>2, <1>3
<1>6. ASSUME NEW n \in 0..(Len(s) - 1), n \in Good
      PROVE  n + 1 \in Good
  <2>1. n + 1 \in 1..Len(s) /\ n + 1 \in 1..(Len(s) + 1) /\ (n + 1) - 1 = n /\ n + 1 \in Nat
    BY <1>1
  <2> QED  BY <1>1, <1>2, <1>3, <1>6, <2>1
<1>7. Len(s) \in Good
  <2> HIDE DEF Good
  <2>1. \A n \in 0..Len(s) : n \in Good
    BY <1>1, <1>5, <1>6, Induction
  <2> QED  BY <1>1, <2>1
<1>8. g[Len(s) + 1] = g[Len(s)] \o r
  <2>1. Len(s) + 1 \in 1..(Len(s) + 1) /\ (Len(s) + 1) - 1 = Len(s)
    BY <1>1
  <2> QED  BY <1>1, <1>3, <2>1
<1>9. Chained(t) = Chained(s) \o r
  BY <1>4, <1>7, <1>8
<1> QED  BY <1>9 DEF t
=============================================================================
