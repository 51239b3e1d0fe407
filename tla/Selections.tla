----------------------------- MODULE Selections -----------------------------
(***************************************************************************)
(* The elements of a sequence that are in a set, in their order, and the   *)
(* sequences of a sequence one after the other: SelectSeq with a set for   *)
(* the test, and a fold of \o, as recursive functions, which unlike a      *)
(* built-in operator or a fold can be reasoned about; and a set or a       *)
(* sequence sorted by keys, which are sequences of numbers.                *)
(***************************************************************************)
EXTENDS Integers, Sequences, FiniteSets

\* SelectInOf(s, T)[n] is the selection from the first n elements.
SelectInOf(s, T) ==
  LET selected[n \in 0..Len(s)] ==
        IF n = 0 THEN <<>>
        ELSE IF s[n] \in T THEN Append(selected[n - 1], s[n])
        ELSE selected[n - 1]
  IN selected

SelectIn(s, T) == SelectInOf(s, T)[Len(s)]

\* ChainedOf(s)[n] is the first n of them, one after the other.
ChainedOf(s) ==
  LET chained[n \in 0..Len(s)] == IF n = 0 THEN <<>> ELSE chained[n - 1] \o s[n]
  IN chained

Chained(s) == ChainedOf(s)[Len(s)]

\* What a sequence has in it, and that it is one.
Elems(s) == {s[n] : n \in DOMAIN s}
IsList(s) == s \in Seq(Elems(s))

ComesFirst(left, right) ==
  \E n \in DOMAIN left : left[n] < right[n] /\ \A m \in 1..(n - 1) : left[m] = right[m]

\* S by its keys, the smallest first.
Ordered(S, key) ==
  [n \in 1..Cardinality(S) |-> CHOOSE i \in S : Cardinality({j \in S : ComesFirst(key[j], key[i])}) = n - 1]

\* s by the keys of its places.
Sorted(s, key) == LET order == Ordered(DOMAIN s, key) IN [n \in DOMAIN order |-> s[order[n]]]
=============================================================================
